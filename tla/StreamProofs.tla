------------------------------ MODULE StreamProofs ------------------------------
(***************************************************************************)
(* Proofs about ByteArray and the Stream that reads into it, for nodes of  *)
(* any size, any strings, numbers and widths, blocks of any length and any *)
(* way the socket splits them: the cursor, that the list of nodes is a     *)
(* plain buffer, that what is written is read back, and that a stream      *)
(* keeps the bytes of its peer in order.                                   *)
(***************************************************************************)
EXTENDS Stream, WellFoundedInduction, TLAPS

-----------------------------------------------------------------------------
(* Numbers.                                                                *)

\* A set of natural numbers has a least element.
LEMMA Least ==
    ASSUME NEW T \in SUBSET Nat, T # {}
    PROVE  \E m \in T : \A k \in T : m <= k
<1>1. PICK m \in T : \A k \in T : ~ (<<k, m>> \in OpToRel(<, Nat))
  BY NatLessThanWellFounded, WFMin
<1>2. \A k \in T : k \in Nat /\ m \in Nat /\ (k < m => <<k, m>> \in OpToRel(<, Nat))
  BY DEF OpToRel
<1>3. \A k \in T : ~ (k < m)
  BY <1>1, <1>2, Zenon
<1> QED
  BY <1>3

LEMMA PowerIs ==
    ASSUME NEW n \in 0 .. Group * Width + 1
    PROVE  2^n \in Nat \ {0}
<1> DEFINE T == {k \in Nat : k <= Group * Width + 1 /\ 2^k \notin Nat \ {0}}
<1>0. Group * Width \in Nat
  BY ByteArrayAssumption
<1>1. SUFFICES ASSUME T # {} PROVE FALSE
  BY <1>0
<1>2. PICK m \in T : \A k \in T : m <= k
  BY <1>1, Least
<1>3. m # 0
  <2>1. 2^0 \in Nat \ {0}
    BY PowerAssumption
  <2>2. 2^m \notin Nat \ {0}
    BY <1>2
  <2> QED
    BY <2>1, <2>2, Zenon
<1>4. m - 1 \in 0 .. Group * Width /\ m - 1 \notin T /\ 2^m = 2 * 2^(m - 1)
  <2>1. m - 1 \in 0 .. Group * Width
    BY <1>0, <1>2, <1>3
  <2>2. m - 1 \notin T
    BY <1>2, <2>1
  <2>3. 2^((m - 1) + 1) = 2 * 2^(m - 1)
    BY <2>1, PowerAssumption
  <2>4. (m - 1) + 1 = m
    BY <1>2
  <2> QED
    BY <2>1, <2>2, <2>3, <2>4
<1>5. 2^(m - 1) \in Nat \ {0}
  BY <1>0, <1>4
<1> QED
  BY <1>2, <1>4, <1>5

LEMMA PowerGrows ==
    ASSUME NEW n \in 0 .. Group * Width, NEW k \in 0 .. n
    PROVE  2^k <= 2^n
<1> DEFINE T == {j \in Nat : k <= j /\ j <= n /\ ~ (2^k <= 2^j)}
<1>0. Group * Width \in Nat
  BY ByteArrayAssumption
<1>1. SUFFICES ASSUME T # {} PROVE FALSE
  <2>1. 2^k \in Nat /\ 2^n \in Nat
    BY <1>0, PowerIs
  <2> QED
    BY <1>0, <2>1
<1>2. PICK m \in T : \A j \in T : m <= j
  BY <1>1, Least
<1>3. m # k
  <2>1. 2^k \in Nat
    BY <1>0, PowerIs
  <2> QED
    BY <1>2, <2>1
<1>4. m - 1 \in k .. n /\ m - 1 \in 0 .. Group * Width /\ m - 1 \notin T
  BY <1>0, <1>2, <1>3
<1>5. 2^m = 2 * 2^(m - 1)
  <2>1. 2^((m - 1) + 1) = 2 * 2^(m - 1)
    BY <1>4, PowerAssumption
  <2>2. (m - 1) + 1 = m
    BY <1>2
  <2> QED
    BY <2>1, <2>2
<1>6. 2^k \in Nat /\ 2^(m - 1) \in Nat /\ 2^k <= 2^(m - 1)
  <2>1. 2^k \in Nat /\ 2^(m - 1) \in Nat
    BY <1>0, <1>4, PowerIs
  <2> QED
    BY <1>4, <2>1
<1> QED
  BY <1>2, <1>5, <1>6

\* The q-th byte of a list, from 0: the node and the place in it.
LEMMA DivIs ==
    ASSUME NEW S \in Nat \ {0}, NEW q \in Nat
    PROVE  /\ q \div S \in Nat /\ q % S \in 0 .. S - 1
           /\ q = S * (q \div S) + (q % S)
OBVIOUS

LEMMA MulLess ==
    ASSUME NEW S \in Nat \ {0}, NEW i \in Nat, NEW k \in Nat, i < k
    PROVE  S * i + S <= S * k
<1>1. PICK d \in Nat : k = i + 1 + d
  <2>1. k - i - 1 \in Nat /\ k = i + 1 + (k - i - 1)
    OBVIOUS
  <2> QED
    BY <2>1
<1>2. S * (i + 1 + d) = S * i + S + S * d /\ S * d \in Nat /\ S * i \in Nat
  OBVIOUS
<1> QED
  BY <1>1, <1>2

LEMMA DivUnique ==
    ASSUME NEW S \in Nat \ {0}, NEW i \in Nat, NEW j \in 0 .. S - 1
    PROVE  (S * i + j) \div S = i /\ (S * i + j) % S = j
<1> DEFINE q == S * i + j
           d == q \div S
           r == q % S
<1>1. q \in Nat /\ S * i \in Nat
  OBVIOUS
<1>2. d \in Nat /\ r \in 0 .. S - 1 /\ q = S * d + r
  <2> HIDE DEF q
  <2> QED
    BY <1>1, DivIs
<1>3. q = S * i + j
  OBVIOUS
<1> HIDE DEF q, d, r
<1>a. S * d \in Nat
  BY <1>2
<1>4. ~ (i < d)
  <2> SUFFICES ASSUME i < d PROVE FALSE
    OBVIOUS
  <2>1. S * i + S <= S * d
    BY <1>2, MulLess
  <2> QED
    BY <1>1, <1>2, <1>a, <1>3, <2>1
<1>5. ~ (d < i)
  <2> SUFFICES ASSUME d < i PROVE FALSE
    OBVIOUS
  <2>1. S * d + S <= S * i
    BY <1>2, MulLess
  <2> QED
    BY <1>1, <1>2, <1>a, <1>3, <2>1
<1>6. d = i
  BY <1>2, <1>4, <1>5
<1>7. r = j
  BY <1>1, <1>2, <1>3, <1>6
<1> QED
  BY <1>6, <1>7 DEF q, d, r

LEMMA DivAdd ==
    ASSUME NEW S \in Nat \ {0}, NEW a \in Nat, NEW b \in Nat
    PROVE  /\ (a \div S) + (((a % S) + b) \div S) = (a + b) \div S
           /\ ((a % S) + b) % S = (a + b) % S
<1> DEFINE i == a \div S
           c == (a % S) + b
           d == c \div S
           r == c % S
<1>1. i \in Nat /\ c \in Nat /\ a + b = S * i + c
  BY DivIs
<1>2. d \in Nat /\ r \in 0 .. S - 1 /\ c = S * d + r
  <2> HIDE DEF c
  <2> QED
    BY <1>1, DivIs
<1> HIDE DEF i, c, d, r
<1>3. S * (i + d) = S * i + S * d /\ i + d \in Nat /\ S * i \in Nat /\ S * d \in Nat
  BY <1>1, <1>2
<1>4. a + b = S * (i + d) + r
  BY <1>1, <1>2, <1>3
<1>5. (a + b) \div S = i + d /\ (a + b) % S = r
  <2>1. (S * (i + d) + r) \div S = i + d /\ (S * (i + d) + r) % S = r
    BY <1>2, <1>3, DivUnique
  <2> QED
    BY <1>4, <2>1
<1> QED
  BY <1>5 DEF i, c, d, r

LEMMA DivLess ==
    ASSUME NEW S \in Nat \ {0}, NEW q \in Nat, NEW n \in Nat
    PROVE  q < S * n <=> q \div S < n
<1> DEFINE i == q \div S
           r == q % S
<1>1. i \in Nat /\ r \in 0 .. S - 1 /\ q = S * i + r
  BY DivIs
<1> HIDE DEF i, r
<1>2. S * i \in Nat /\ S * n \in Nat
  BY <1>1
<1>3. CASE i < n
  <2>1. S * i + S <= S * n
    BY <1>1, <1>3, MulLess
  <2> QED
    BY <1>1, <1>2, <1>3, <2>1 DEF i
<1>4. CASE n < i
  <2>1. S * n + S <= S * i
    BY <1>1, <1>4, MulLess
  <2> QED
    BY <1>1, <1>2, <1>4, <2>1 DEF i
<1>5. CASE n = i
  BY <1>1, <1>2, <1>5 DEF i
<1> QED
  BY <1>1, <1>3, <1>4, <1>5

-----------------------------------------------------------------------------
(* The bytes of a list of nodes.                                           *)

\* FlattenSeq() is what the sequences put together one after the other are.
Joins(seqs, g, L, C) ==
    /\ L \in Nat \ {0} /\ Len(seqs) = L /\ g \in [1 .. L -> C]
    /\ g[1] = seqs[1] /\ \A i \in 2 .. L : g[i] = g[i - 1] \o seqs[i]

LEMMA FlattenIs ==
    ASSUME NEW seqs, NEW g, NEW L, NEW C, Joins(seqs, g, L, C)
    PROVE  FlattenSeq(seqs) = g[L]
<1> USE DEF Joins
<1> DEFINE Eq(h) == h = [i \in 1 .. L |-> IF i = 1 THEN seqs[i] ELSE h[i - 1] \o seqs[i]]
           f == CHOOSE h : Eq(h)
<1>1. Eq(g)
  <2>1. \A i \in 1 .. L : i = 1 \/ i \in 2 .. L
    OBVIOUS
  <2>2. \A i \in 1 .. L : g[i] = IF i = 1 THEN seqs[i] ELSE g[i - 1] \o seqs[i]
    BY <2>1, Zenon
  <2> QED
    BY <2>2, Zenon
<1>2. Eq(f)
  BY <1>1, Zenon
<1>3. FlattenSeq(seqs) = f[L]
  BY DEF FlattenSeq
<1> HIDE DEF f
<1>4. f[1] = seqs[1] /\ \A i \in 2 .. L : f[i] = f[i - 1] \o seqs[i]
  <2>1. 1 \in 1 .. L /\ \A i \in 2 .. L : i \in 1 .. L /\ i # 1
    OBVIOUS
  <2>2. \A i \in 1 .. L : f[i] = IF i = 1 THEN seqs[i] ELSE f[i - 1] \o seqs[i]
    BY <1>2, Zenon
  <2> QED
    BY <2>1, <2>2, Zenon
<1> DEFINE T == {i \in Nat : i \in 1 .. L /\ f[i] # g[i]}
<1>5. SUFFICES ASSUME T # {} PROVE FALSE
  BY <1>3
<1>6. PICK m \in T : \A k \in T : m <= k
  BY <1>5, Least
<1>7. m \in 2 .. L /\ m - 1 \notin T
  BY <1>4, <1>6
<1>8. f[m - 1] = g[m - 1]
  BY <1>7
<1> QED
  BY <1>4, <1>6, <1>7, <1>8

\* The q-th byte of the list ns, from 0, and its first n bytes.
At(ns, q) == ns[(q \div m_node_size) + 1][(q % m_node_size) + 1]
Bytes(ns, n) == [k \in 1 .. n |-> At(ns, k - 1)]
Lists == Seq([1 .. m_node_size -> Byte])

LEMMA NodeSize == m_node_size \in Nat \ {0}
BY ByteArrayAssumption

LEMMA AtIs ==
    ASSUME NEW ns \in Lists, NEW q \in Nat, q < m_node_size * Len(ns)
    PROVE  At(ns, q) \in Byte
<1>1. q \div m_node_size \in Nat /\ q % m_node_size \in 0 .. m_node_size - 1
  BY NodeSize, DivIs
<1>2. Len(ns) \in Nat
  BY DEF Lists
<1>3. q \div m_node_size < Len(ns)
  BY <1>2, NodeSize, DivLess
<1>4. (q \div m_node_size) + 1 \in 1 .. Len(ns) /\ (q % m_node_size) + 1 \in 1 .. m_node_size
  BY <1>1, <1>2, <1>3, NodeSize
<1>5. ns[(q \div m_node_size) + 1] \in [1 .. m_node_size -> Byte]
  BY <1>4 DEF Lists
<1> QED
  BY <1>4, <1>5 DEF At

LEMMA AtCell ==
    ASSUME NEW ns, NEW i \in Nat \ {0}, NEW j \in 1 .. m_node_size
    PROVE  /\ m_node_size * (i - 1) + j - 1 \in Nat
           /\ At(ns, m_node_size * (i - 1) + j - 1) = ns[i][j]
<1> DEFINE q == m_node_size * (i - 1) + (j - 1)
<1>1. i - 1 \in Nat /\ j - 1 \in 0 .. m_node_size - 1 /\ m_node_size * (i - 1) \in Nat
  BY NodeSize
<1>2. q \div m_node_size = i - 1 /\ q % m_node_size = j - 1
  BY <1>1, NodeSize, DivUnique
<1>3. q = m_node_size * (i - 1) + j - 1 /\ q \in Nat
  BY <1>1
<1> HIDE DEF q
<1>4. (i - 1) + 1 = i /\ (j - 1) + 1 = j
  BY NodeSize
<1> QED
  BY <1>2, <1>3, <1>4 DEF At

LEMMA BytesType ==
    ASSUME NEW ns \in Lists, NEW n \in Nat, n <= m_node_size * Len(ns)
    PROVE  Bytes(ns, n) \in Seq(Byte) /\ Len(Bytes(ns, n)) = n
<1>1. \A k \in 1 .. n : At(ns, k - 1) \in Byte
  <2> TAKE k \in 1 .. n
  <2>1. k - 1 \in Nat /\ m_node_size * Len(ns) \in Nat
    BY NodeSize DEF Lists
  <2>2. k - 1 < m_node_size * Len(ns)
    BY <2>1
  <2> QED
    BY <2>1, <2>2, AtIs
<1> QED
  BY <1>1 DEF Bytes

\* When a sequence is two others, one after the other.
LEMMA ConcatIs ==
    ASSUME NEW B, NEW a \in Seq(B), NEW b \in Seq(B), NEW c \in Seq(B), Len(c) = Len(a) + Len(b),
           \A k \in 1 .. Len(a) : c[k] = a[k],
           \A k \in 1 .. Len(b) : c[Len(a) + k] = b[k]
    PROVE  c = a \o b
<1>1. a \o b \in Seq(B) /\ Len(a \o b) = Len(a) + Len(b)
  OBVIOUS
<1>2. \A k \in 1 .. Len(c) : c[k] = (a \o b)[k]
  <2> TAKE k \in 1 .. Len(c)
  <2>1. CASE k <= Len(a)
    BY <2>1
  <2>2. CASE k > Len(a)
    <3>1. k - Len(a) \in 1 .. Len(b) /\ k = Len(a) + (k - Len(a))
      BY <2>2
    <3> QED
      BY <2>2, <3>1
  <2> QED
    BY <2>1, <2>2
<1> QED
  BY <1>1, <1>2

LEMMA FlatIs ==
    ASSUME NEW ns \in Lists, Len(ns) # 0
    PROVE  FlattenSeq(ns) = Bytes(ns, m_node_size * Len(ns))
<1> DEFINE L == Len(ns)
           g == [i \in 1 .. L |-> Bytes(ns, m_node_size * i)]
<1>1. L \in Nat \ {0}
  BY DEF Lists
<1>2. \A i \in 1 .. L : ns[i] \in [1 .. m_node_size -> Byte] /\ ns[i] \in Seq(Byte) /\ Len(ns[i]) = m_node_size
  BY NodeSize DEF Lists
<1>3. \A i \in 0 .. L : m_node_size * i \in Nat /\ m_node_size * i <= m_node_size * L
  BY <1>1, NodeSize
<1>4. \A i \in 1 .. L : Bytes(ns, m_node_size * i) \in Seq(Byte) /\ Len(Bytes(ns, m_node_size * i)) = m_node_size * i
  BY <1>1, <1>3, BytesType
<1>5. Bytes(ns, m_node_size * 1) = ns[1]
  <2>1. \A k \in 1 .. m_node_size : At(ns, k - 1) = ns[1][k]
    <3> TAKE k \in 1 .. m_node_size
    <3>1. At(ns, m_node_size * (1 - 1) + k - 1) = ns[1][k]
      BY AtCell
    <3>2. m_node_size * (1 - 1) + k - 1 = k - 1
      BY NodeSize
    <3> QED
      BY <3>1, <3>2
  <2>2. m_node_size * 1 = m_node_size /\ 1 \in 1 .. L
    BY <1>1, NodeSize
  <2> QED
    BY <1>2, <2>1, <2>2 DEF Bytes
<1>6. ASSUME NEW i \in 2 .. L
      PROVE  Bytes(ns, m_node_size * i) = Bytes(ns, m_node_size * (i - 1)) \o ns[i]
  <2> DEFINE a == Bytes(ns, m_node_size * (i - 1))
             c == Bytes(ns, m_node_size * i)
             n == m_node_size * (i - 1)
  <2>1. i \in 1 .. L /\ i - 1 \in 1 .. L /\ m_node_size * i = n + m_node_size /\ n \in Nat
    BY <1>1, NodeSize
  <2>2. a \in Seq(Byte) /\ Len(a) = n /\ c \in Seq(Byte) /\ Len(c) = n + m_node_size
    BY <1>4, <2>1
  <2>3. \A k \in 1 .. n : c[k] = a[k]
    BY <2>1, NodeSize DEF Bytes
  <2>4. \A k \in 1 .. m_node_size : c[n + k] = ns[i][k]
    <3> TAKE k \in 1 .. m_node_size
    <3>1. n + k \in 1 .. m_node_size * i /\ (n + k) - 1 = n + k - 1
      BY <2>1, NodeSize
    <3>2. c[n + k] = At(ns, (n + k) - 1)
      BY <3>1 DEF Bytes
    <3>3. At(ns, n + k - 1) = ns[i][k]
      BY <2>1, AtCell
    <3> QED
      BY <3>1, <3>2, <3>3
  <2> HIDE DEF a, c, n
  <2>5. c = a \o ns[i]
    <3> DEFINE b == ns[i]
    <3>1. b \in Seq(Byte) /\ Len(b) = m_node_size
      BY <1>2, <2>1
    <3> HIDE DEF b
    <3>2. Len(c) = Len(a) + Len(b) /\ (\A k \in 1 .. Len(a) : c[k] = a[k])
          /\ \A k \in 1 .. Len(b) : c[Len(a) + k] = b[k]
      BY <2>2, <2>3, <2>4, <3>1 DEF b
    <3>3. c = a \o b
      BY <2>2, <3>1, <3>2, ConcatIs
    <3> QED
      BY <3>3 DEF b
  <2> QED
    BY <2>5 DEF a, c
<1>7. g \in [1 .. L -> Seq(Byte)] /\ g[1] = ns[1] /\ g[L] = Bytes(ns, m_node_size * L)
  BY <1>1, <1>4, <1>5
<1>8. ASSUME NEW i \in 2 .. L PROVE g[i] = g[i - 1] \o ns[i]
  <2>1. i \in 1 .. L /\ i - 1 \in 1 .. L
    BY <1>1
  <2> QED
    BY <1>6, <2>1, Zenon
<1> HIDE DEF g, L
<1>9. FlattenSeq(ns) = g[L]
  <2>1. Len(ns) = L
    BY DEF L
  <2>2. \A i \in 2 .. L : g[i] = g[i - 1] \o ns[i]
    BY <1>8
  <2>3. Joins(ns, g, L, Seq(Byte))
    BY <1>1, <1>7, <2>1, <2>2 DEF Joins
  <2> QED
    BY <2>3, FlattenIs
<1> QED
  BY <1>7, <1>9 DEF L

\* The cell of a byte behind position p.
LEMMA LoadIs ==
    ASSUME NEW ns, NEW p \in Nat, NEW size \in Nat
    PROVE  Load(ns, (p \div m_node_size) + 1, p % m_node_size, size) = [k \in 1 .. size |-> At(ns, p + k - 1)]
<1> DEFINE cur == (p \div m_node_size) + 1
           off == p % m_node_size
<1>1. ASSUME NEW k \in 1 .. size
      PROVE  LET c == Cell(cur, off, k) IN ns[c[1]][c[2]] = At(ns, p + k - 1)
  <2>1. k - 1 \in Nat /\ p + (k - 1) = p + k - 1 /\ off + (k - 1) = off + k - 1
    BY NodeSize, DivIs
  <2>2. (p \div m_node_size) + ((off + (k - 1)) \div m_node_size) = (p + (k - 1)) \div m_node_size
        /\ (off + (k - 1)) % m_node_size = (p + (k - 1)) % m_node_size
    BY <2>1, NodeSize, DivAdd
  <2>3. p \div m_node_size \in Nat /\ (off + (k - 1)) \div m_node_size \in Nat
    <3>1. off \in Nat
      BY NodeSize, DivIs
    <3>2. off + (k - 1) \in Nat
      BY <2>1, <3>1
    <3> QED
      BY <3>2, NodeSize, DivIs
  <2>4. cur + ((off + (k - 1)) \div m_node_size) = ((p + (k - 1)) \div m_node_size) + 1
    BY <2>2, <2>3
  <2> HIDE DEF cur, off
  <2> QED
    BY <2>1, <2>2, <2>4 DEF Cell, At
<1> QED
  BY <1>1 DEF Load

\* What Store() leaves: the bytes s from position p on, and the others.
Stored(ns, p, s, st) ==
    /\ st \in Lists /\ Len(st) = Len(ns)
    /\ \A q \in 0 .. m_node_size * Len(ns) - 1 :
          At(st, q) = IF q \in p .. p + Len(s) - 1 THEN s[q - p + 1] ELSE At(ns, q)

LEMMA StoreIs ==
    ASSUME NEW ns \in Lists, NEW p \in Nat, NEW s \in Seq(Byte)
    PROVE  Stored(ns, p, s, Store(ns, (p \div m_node_size) + 1, p % m_node_size, s))
<1> DEFINE st == Store(ns, (p \div m_node_size) + 1, p % m_node_size, s)
<1> DEFINE S == m_node_size
           cur == (p \div S) + 1
           off == p % S
           K(i, j) == (i - cur) * S + j - off
           Row(i) == [j \in 1 .. S |-> IF K(i, j) \in 1 .. Len(s) THEN s[K(i, j)] ELSE ns[i][j]]
<1>0. S \in Nat \ {0} /\ Len(ns) \in Nat /\ Len(s) \in Nat
  BY NodeSize DEF Lists
<1>1. p \div S \in Nat /\ off \in 0 .. S - 1 /\ p = S * (p \div S) + off
  BY NodeSize, DivIs
<1>2. st = [i \in 1 .. Len(ns) |-> Row(i)]
  BY DEF Store
<1> HIDE DEF st
<1>3. ASSUME NEW i \in 1 .. Len(ns), NEW j \in 1 .. S
      PROVE  /\ K(i, j) = (S * (i - 1) + j - 1) - p + 1
             /\ S * (i - 1) + j - 1 \in Nat
             /\ At(ns, S * (i - 1) + j - 1) = ns[i][j]
  <2>0. i \in Nat \ {0} /\ j \in 1 .. m_node_size
    BY <1>0
  <2>1. S * (i - 1) + j - 1 \in Nat /\ At(ns, S * (i - 1) + j - 1) = ns[i][j]
    BY <2>0, AtCell
  <2>2. (i - cur) * S = S * (i - 1) - S * (p \div S)
    BY <1>0, <1>1
  <2> DEFINE x == S * (i - 1)
             y == S * (p \div S)
  <2>3. x \in Int /\ y \in Int /\ K(i, j) = (x - y) + j - off /\ p = y + off
    BY <1>0, <1>1, <2>2
  <2> HIDE DEF x, y, K, off
  <2>4. K(i, j) = (x + j - 1) - p + 1
    BY <1>0, <1>1, <2>3
  <2> QED
    BY <2>1, <2>4 DEF x
<1>4. \A i \in 1 .. Len(ns) : Row(i) \in [1 .. S -> Byte]
  <2>1. \A i \in 1 .. Len(ns) : ns[i] \in [1 .. S -> Byte]
    BY DEF Lists
  <2>2. \A k \in 1 .. Len(s) : s[k] \in Byte
    OBVIOUS
  <2> HIDE DEF K
  <2> QED
    BY <2>1, <2>2
<1> HIDE DEF Row
<1>5. st \in Lists /\ Len(st) = Len(ns) /\ \A i \in 1 .. Len(ns) : st[i] = Row(i)
  <2> DEFINE N == [1 .. S -> Byte]
  <2>1. \A i \in 1 .. Len(ns) : Row(i) \in N
    BY <1>4
  <2> HIDE DEF N
  <2>2. st \in Seq(N) /\ Len(st) = Len(ns) /\ \A i \in 1 .. Len(ns) : st[i] = Row(i)
    BY <1>0, <1>2, <2>1
  <2> QED
    BY <2>2 DEF Lists, N
<1>6. ASSUME NEW q \in 0 .. S * Len(ns) - 1
      PROVE  At(st, q) = IF q \in p .. p + Len(s) - 1 THEN s[q - p + 1] ELSE At(ns, q)
  <2> DEFINE i == (q \div S) + 1
             j == (q % S) + 1
  <2>1. q \in Nat /\ q < S * Len(ns)
    BY <1>0
  <2>2. q \div S \in Nat /\ q % S \in 0 .. S - 1 /\ q = S * (q \div S) + (q % S) /\ q \div S < Len(ns)
    BY <1>0, <2>1, DivIs, DivLess
  <2>3. i \in 1 .. Len(ns) /\ j \in 1 .. S /\ q = S * (i - 1) + j - 1
    <3>1. i \in 1 .. Len(ns) /\ j \in 1 .. S
      BY <1>0, <2>2
    <3>2. i - 1 = q \div S
      BY <2>2
    <3>3. S * (q \div S) \in Nat
      BY <1>0, <2>2
    <3> QED
      BY <2>2, <3>1, <3>2, <3>3
  <2>4. At(st, q) = st[i][j] /\ At(ns, q) = ns[i][j]
    BY DEF At
  <2> HIDE DEF i, j
  <2>5. K(i, j) = q - p + 1
    BY <1>3, <2>3
  <2>6. st[i][j] = IF K(i, j) \in 1 .. Len(s) THEN s[K(i, j)] ELSE ns[i][j]
    BY <1>5, <2>3 DEF Row
  <2>7. q - p + 1 \in 1 .. Len(s) <=> q \in p .. p + Len(s) - 1
    BY <1>0, <2>1
  <2> HIDE DEF K
  <2> QED
    BY <2>4, <2>5, <2>6, <2>7
<1> QED
  BY <1>5, <1>6 DEF Stored, st

LEMMA StoreNothing ==
    ASSUME NEW ns \in Lists, NEW cur \in Nat, NEW off \in Nat
    PROVE  Store(ns, cur, off, <<>>) = ns
<1>1. \A i \in 1 .. Len(ns) : ns[i] \in [1 .. m_node_size -> Byte]
  BY DEF Lists
<1>2. Store(ns, cur, off, <<>>) = [i \in 1 .. Len(ns) |-> [j \in 1 .. m_node_size |-> ns[i][j]]]
  BY DEF Store
<1>3. \A i \in 1 .. Len(ns) : [j \in 1 .. m_node_size |-> ns[i][j]] = ns[i]
  BY <1>1
<1>4. ns = [i \in 1 .. Len(ns) |-> ns[i]]
  BY DEF Lists
<1> QED
  BY <1>2, <1>3, <1>4

-----------------------------------------------------------------------------
(* The cursor and the growth of the list.                                  *)

\* The three sizes, as CursorAgrees has them.
LEMMA Sizes ==
    ASSUME CursorAgrees
    PROVE  /\ nodes \in Lists /\ Len(nodes) \in 1 .. MaxNodes /\ m_node_size \in Nat \ {0} /\ MaxNodes \in Nat
           /\ m_position \in Nat /\ m_data_size \in Nat /\ m_total_size \in Nat
           /\ m_total_size = m_node_size * Len(nodes)
           /\ m_position <= m_data_size /\ m_data_size <= m_total_size
           /\ m_cur = IF m_position = m_total_size THEN Null ELSE (m_position \div m_node_size) + 1
BY ByteArrayAssumption DEF CursorAgrees, TypeOK, Lists

\* Behind the last byte the next node begins.
LEMMA EndIs ==
    ASSUME CursorAgrees, m_position = m_total_size
    PROVE  m_position \div m_node_size = Len(nodes) /\ Offset = 0
<1>1. Len(nodes) \in Nat /\ m_position = m_node_size * Len(nodes) + 0 /\ 0 \in 0 .. m_node_size - 1
  BY Sizes
<1>2. (m_node_size * Len(nodes) + 0) \div m_node_size = Len(nodes) /\ (m_node_size * Len(nodes) + 0) % m_node_size = 0
  BY <1>1, NodeSize, DivUnique
<1> QED
  BY <1>1, <1>2 DEF Offset

LEMMA NewNodesIs ==
    ASSUME CursorAgrees, NEW size \in Nat
    PROVE  /\ NewNodes(size) \in Nat
           /\ m_position + size <= m_total_size + m_node_size * NewNodes(size)
           /\ NewNodes(size) = 0 <=> m_position + size <= m_total_size
<1>1. m_position \in Nat /\ m_total_size \in Nat /\ m_position <= m_total_size
  BY Sizes
<1>2. CASE GetRemainSize >= size
  BY <1>1, <1>2, NodeSize DEF NewNodes, GetRemainSize
<1>3. CASE ~ (GetRemainSize >= size)
  <2> DEFINE need == size - GetRemainSize
             x == need + m_node_size - 1
             k == x \div m_node_size
             r == x % m_node_size
  <2>1. need \in Nat \ {0} /\ need = m_position + size - m_total_size /\ x \in Nat
    BY <1>1, <1>3, NodeSize DEF GetRemainSize
  <2>2. NewNodes(size) = k
    BY <1>3 DEF NewNodes
  <2>3. x = need + m_node_size - 1
    OBVIOUS
  <2> HIDE DEF need, x
  <2>4. k \in Nat /\ r \in 0 .. m_node_size - 1 /\ x = m_node_size * k + r
    BY <2>1, NodeSize, DivIs
  <2> HIDE DEF k, r
  <2>5. m_node_size * k \in Nat /\ (k = 0 => m_node_size * k = 0)
    BY <2>4, NodeSize
  <2>6. m_node_size * k >= need
    BY <2>1, <2>3, <2>4, <2>5, NodeSize
  <2>7. k # 0
    BY <2>1, <2>5, <2>6
  <2> QED
    BY <1>1, <2>1, <2>2, <2>4, <2>5, <2>6, <2>7
<1> QED
  BY <1>2, <1>3

LEMMA GrownIs ==
    ASSUME CursorAgrees, NEW size \in Nat, NEW j \in Fresh
    PROVE  /\ Grown(size, j) \in Lists /\ Len(Grown(size, j)) = Len(nodes) + NewNodes(size)
           /\ m_total_size + m_node_size * NewNodes(size) = m_node_size * Len(Grown(size, j))
           /\ \A q \in 0 .. m_total_size - 1 : At(Grown(size, j), q) = At(nodes, q)
<1> DEFINE k == NewNodes(size)
           more == [i \in 1 .. k |-> NewNode(j)]
           ns == Grown(size, j)
<1>1. k \in Nat
  BY NewNodesIs
<1>2. NewNode(j) \in [1 .. m_node_size -> Byte]
  BY StringAssumption DEF NewNode
<1> HIDE DEF k
<1>3. more \in Lists /\ Len(more) = k
  BY <1>1, <1>2 DEF Lists
<1>4. ns = nodes \o more
  BY DEF Grown, k
<1> HIDE DEF more, ns
<1>5. nodes \in Lists /\ Len(nodes) \in Nat
  BY Sizes
<1>6. ns \in Lists /\ Len(ns) = Len(nodes) + k /\ \A i \in 1 .. Len(nodes) : ns[i] = nodes[i]
  <2> DEFINE N == [1 .. m_node_size -> Byte]
  <2>1. nodes \in Seq(N) /\ more \in Seq(N)
    BY <1>3, <1>5 DEF Lists
  <2> HIDE DEF N
  <2>2. ns \in Seq(N) /\ Len(ns) = Len(nodes) + Len(more) /\ \A i \in 1 .. Len(nodes) : ns[i] = nodes[i]
    BY <1>4, <2>1
  <2> QED
    BY <1>3, <2>2 DEF Lists, N
<1>7. m_total_size + m_node_size * k = m_node_size * Len(ns)
  BY <1>1, <1>5, <1>6, Sizes
<1>8. ASSUME NEW q \in 0 .. m_total_size - 1 PROVE At(ns, q) = At(nodes, q)
  <2>1. q \in Nat /\ q < m_node_size * Len(nodes)
    BY Sizes
  <2>2. q \div m_node_size \in Nat /\ q \div m_node_size < Len(nodes)
    BY <1>5, <2>1, NodeSize, DivIs, DivLess
  <2>3. (q \div m_node_size) + 1 \in 1 .. Len(nodes)
    BY <1>5, <2>2
  <2> QED
    BY <1>6, <2>3 DEF At
<1> QED
  BY <1>6, <1>7, <1>8 DEF k, ns

\* The node that a write begins with.
LEMMA CurGrownIs ==
    ASSUME CursorAgrees, NEW size \in Nat
    PROVE  CurGrown(size) = IF size = 0 /\ m_position = m_total_size THEN Null
                            ELSE (m_position \div m_node_size) + 1
<1>1. m_position \in Nat /\ m_total_size \in Nat /\ m_position <= m_total_size
      /\ m_cur = IF m_position = m_total_size THEN Null ELSE (m_position \div m_node_size) + 1
  BY Sizes
<1>2. NewNodes(size) \in Nat /\ (NewNodes(size) = 0 <=> m_position + size <= m_total_size)
  BY NewNodesIs
<1>3. CASE m_position = m_total_size
  BY <1>1, <1>2, <1>3, EndIs DEF CurGrown, GetRemainSize
<1>4. CASE m_position # m_total_size
  BY <1>1, <1>2, <1>4 DEF CurGrown, GetRemainSize
<1> QED
  BY <1>3, <1>4

\* The node of position p in a list with room for it, or null behind its end.
LEMMA NodeAt ==
    ASSUME NEW ns \in Lists, NEW p \in Nat, p <= m_node_size * Len(ns)
    PROVE  NodeOrNull((p \div m_node_size) + 1, ns)
             = IF p = m_node_size * Len(ns) THEN Null ELSE (p \div m_node_size) + 1
<1>1. Len(ns) \in Nat /\ m_node_size * Len(ns) \in Nat
  BY NodeSize DEF Lists
<1>2. p \div m_node_size \in Nat /\ (p < m_node_size * Len(ns) <=> p \div m_node_size < Len(ns))
  BY <1>1, NodeSize, DivIs, DivLess
<1> QED
  BY <1>1, <1>2 DEF NodeOrNull

-----------------------------------------------------------------------------
(* Parts of sequences.                                                     *)

LEMMA SubIs ==
    ASSUME NEW B, NEW s \in Seq(B), NEW m \in Nat \ {0}, NEW n \in Nat, m <= n + 1, n <= Len(s)
    PROVE  /\ SubSeq(s, m, n) \in Seq(B) /\ Len(SubSeq(s, m, n)) = n - m + 1
           /\ \A k \in 1 .. n - m + 1 : SubSeq(s, m, n)[k] = s[m + k - 1]
OBVIOUS

\* The z members behind the first f.
LEMMA PartIs ==
    ASSUME NEW B, NEW s \in Seq(B), NEW f \in Nat, NEW z \in Nat, f + z <= Len(s)
    PROVE  /\ SubSeq(s, f + 1, f + z) \in Seq(B) /\ Len(SubSeq(s, f + 1, f + z)) = z
           /\ \A k \in 1 .. z : SubSeq(s, f + 1, f + z)[k] = s[f + k]
<1>1. f + 1 \in Nat \ {0} /\ f + z \in Nat /\ f + 1 <= (f + z) + 1 /\ (f + z) - (f + 1) + 1 = z
      /\ \A k \in 1 .. z : (f + 1) + k - 1 = f + k
  OBVIOUS
<1> QED
  BY <1>1, SubIs

LEMMA SubEmpty ==
    ASSUME NEW B, NEW s \in Seq(B), NEW m \in Nat \ {0}, NEW n \in Nat, n < m
    PROVE  SubSeq(s, m, n) = <<>>
OBVIOUS

\* Two sequences with the same members.
LEMMA SameSeq ==
    ASSUME NEW B, NEW a \in Seq(B), NEW b \in Seq(B), Len(a) = Len(b), \A k \in 1 .. Len(a) : a[k] = b[k]
    PROVE  a = b
OBVIOUS

\* d is c with other bytes at p + 1 .. p + n.
LEMMA SpliceIs ==
    ASSUME NEW B, NEW c \in Seq(B), NEW d \in Seq(B), NEW p \in Nat, NEW n \in Nat, p <= Len(c),
           Len(d) = Larger(Len(c), p + n),
           \A k \in 1 .. Len(d) : k <= p \/ k > p + n => d[k] = c[k]
    PROVE  d = SubSeq(c, 1, p) \o SubSeq(d, p + 1, p + n) \o SubSeq(c, p + n + 1, Len(c))
<1> DEFINE a == SubSeq(c, 1, p)
           b == SubSeq(d, p + 1, p + n)
           e == SubSeq(c, p + n + 1, Len(c))
           x == SubSeq(d, 1, p + n)
<1>0. Len(c) \in Nat /\ Len(d) \in Nat /\ p + n <= Len(d) /\ (p + n < Len(c) => Len(d) = Len(c))
      /\ (p + n >= Len(c) => Len(d) = p + n)
  BY DEF Larger
<1>1. a \in Seq(B) /\ Len(a) = p /\ \A k \in 1 .. p : a[k] = c[k]
  BY <1>0, SubIs
<1>2. b \in Seq(B) /\ Len(b) = n /\ \A k \in 1 .. n : b[k] = d[p + k]
  BY <1>0, PartIs
<1>3. x \in Seq(B) /\ Len(x) = p + n /\ \A k \in 1 .. p + n : x[k] = d[k]
  BY <1>0, SubIs
<1>4. e \in Seq(B) /\ Len(e) = Len(d) - (p + n) /\ \A k \in 1 .. Len(d) - (p + n) : e[k] = c[p + n + k]
  <2>1. CASE p + n < Len(c)
    <3>1. p + n + 1 \in Nat \ {0} /\ p + n + 1 <= Len(c) + 1 /\ Len(c) - (p + n + 1) + 1 = Len(d) - (p + n)
          /\ \A k \in 1 .. Len(d) - (p + n) : (p + n + 1) + k - 1 = p + n + k
      BY <1>0, <2>1
    <3> QED
      BY <1>0, <3>1, SubIs
  <2>2. CASE p + n >= Len(c)
    <3>1. e = <<>>
      BY <1>0, <2>2, SubEmpty
    <3> QED
      BY <1>0, <2>2, <3>1
  <2> QED
    BY <1>0, <2>1, <2>2
<1> HIDE DEF a, b, e, x
<1>5. x = a \o b
  <2>1. \A k \in 1 .. Len(a) : x[k] = a[k]
    BY <1>0, <1>1, <1>3
  <2>2. \A k \in 1 .. Len(b) : x[Len(a) + k] = b[k]
    BY <1>0, <1>1, <1>2, <1>3
  <2> QED
    BY <1>1, <1>2, <1>3, <2>1, <2>2, ConcatIs
<1>6. d = x \o e
  <2>1. \A k \in 1 .. Len(x) : d[k] = x[k]
    BY <1>3
  <2>2. \A k \in 1 .. Len(e) : d[Len(x) + k] = e[k]
    BY <1>0, <1>3, <1>4
  <2>3. Len(d) = Len(x) + Len(e)
    BY <1>0, <1>3, <1>4
  <2> QED
    BY <1>3, <1>4, <2>1, <2>2, <2>3, ConcatIs
<1> QED
  BY <1>5, <1>6 DEF a, b, e

\* The content of a list.
LEMMA ContentOf ==
    ASSUME NEW ns \in Lists, Len(ns) # 0, NEW d \in Nat, d <= m_node_size * Len(ns)
    PROVE  SubSeq(FlattenSeq(ns), 1, d) = Bytes(ns, d)
<1> DEFINE n == m_node_size * Len(ns)
           f == Bytes(ns, n)
<1>1. n \in Nat
  BY NodeSize DEF Lists
<1>2. f \in Seq(Byte) /\ Len(f) = n /\ FlattenSeq(ns) = f
  BY <1>1, BytesType, FlatIs
<1>3. \A k \in 1 .. n : f[k] = At(ns, k - 1)
  BY DEF Bytes
<1> HIDE DEF f, n
<1>4. SubSeq(f, 1, d) \in Seq(Byte) /\ Len(SubSeq(f, 1, d)) = d /\ \A k \in 1 .. d : SubSeq(f, 1, d)[k] = f[k]
  BY <1>1, <1>2, SubIs DEF n
<1>5. Bytes(ns, d) \in Seq(Byte) /\ Len(Bytes(ns, d)) = d
  BY BytesType
<1>6. \A k \in 1 .. d : Bytes(ns, d)[k] = f[k]
  BY <1>1, <1>3 DEF Bytes, n
<1> QED
  BY <1>2, <1>4, <1>5, <1>6, SameSeq

-----------------------------------------------------------------------------
(* What the operations do to the list.                                     *)

\* The part of CursorAgrees that is about the list.
SoundAt(ns, cur, p, d, t) ==
    /\ ns \in Lists /\ Len(ns) \in 1 .. MaxNodes
    /\ p \in Nat /\ d \in Nat /\ t \in Nat
    /\ t = m_node_size * Len(ns) /\ p <= d /\ d <= t
    /\ cur = IF p = t THEN Null ELSE (p \div m_node_size) + 1
Sound == SoundAt(nodes, m_cur, m_position, m_data_size, m_total_size)

LEMMA CursorIsSound == CursorAgrees => Sound
BY Sizes DEF Sound, SoundAt

\* The cursor is a node of the list.
LEMMA CursorIn ==
    ASSUME NEW ns, NEW cur, NEW p, NEW d, NEW t, SoundAt(ns, cur, p, d, t)
    PROVE  cur \in {Null} \cup 1 .. MaxNodes
<1>1. Len(ns) \in 1 .. MaxNodes /\ MaxNodes \in Nat /\ p \in Nat /\ t \in Nat /\ t = m_node_size * Len(ns) /\ p <= t
      /\ cur = IF p = t THEN Null ELSE (p \div m_node_size) + 1
  BY ByteArrayAssumption DEF SoundAt
<1>2. CASE p = t
  BY <1>1, <1>2
<1>3. CASE p # t
  <2>1. p < m_node_size * Len(ns) /\ Len(ns) \in Nat
    BY <1>1, <1>3
  <2>2. p \div m_node_size \in Nat /\ p \div m_node_size < Len(ns)
    BY <1>1, <2>1, NodeSize, DivIs, DivLess
  <2>3. cur = (p \div m_node_size) + 1
    BY <1>1, <1>3
  <2> DEFINE i == p \div m_node_size
  <2> HIDE DEF i
  <2> QED
    BY <1>1, <2>2, <2>3 DEF i
<1> QED
  BY <1>2, <1>3

LEMMA SoundIsCursor ==
    ASSUME Sound, m_little \in BOOLEAN, calls \in 0 .. MaxCalls, ret \in Seq(Byte) \cup {Throw}
    PROVE  CursorAgrees
<1>1. nodes \in Lists /\ Len(nodes) \in 1 .. MaxNodes /\ m_position \in Nat /\ m_data_size \in Nat
      /\ m_total_size \in Nat /\ m_total_size = m_node_size * Len(nodes)
      /\ m_position <= m_data_size /\ m_data_size <= m_total_size
      /\ m_cur = IF m_position = m_total_size THEN Null ELSE (m_position \div m_node_size) + 1
  BY DEF Sound, SoundAt
<1>2. m_cur \in {Null} \cup 1 .. MaxNodes
  BY CursorIn DEF Sound
<1> QED
  BY <1>1, <1>2 DEF CursorAgrees, TypeOK, Lists

\* Bytes s from the position on: what write() and a read of a stream leave.
Puts(s) ==
    /\ m_position' = m_position + Len(s)
    /\ m_data_size' = Larger(m_data_size, m_position + Len(s))
    /\ \A q \in 0 .. m_data_size' - 1 :
          At(nodes', q) = IF q \in m_position .. m_position + Len(s) - 1 THEN s[q - m_position + 1] ELSE At(nodes, q)

\* The bytes s go into a list that has grown for size bytes.
LEMMA PutIs ==
    ASSUME CursorAgrees, NEW s \in Seq(Byte), NEW size \in Nat, Len(s) <= size, s = <<>> => size = 0,
           NEW j \in Fresh, AddTotalSize(size, j),
           nodes' = Store(Grown(size, j), CurGrown(size), Offset, s),
           m_position' = m_position + Len(s),
           m_data_size' = Larger(m_data_size, m_position + Len(s)),
           m_cur' = NodeOrNull(((m_position + Len(s)) \div m_node_size) + 1, Grown(size, j))
               \/ (s = <<>> /\ m_position = m_total_size /\ m_cur' = Null)
    PROVE  Sound' /\ Puts(s)
<1> DEFINE ns == Grown(size, j)
           n == Len(s)
<1>1. nodes \in Lists /\ Len(nodes) \in 1 .. MaxNodes /\ m_position \in Nat /\ m_data_size \in Nat
      /\ m_total_size \in Nat /\ m_total_size = m_node_size * Len(nodes)
      /\ m_position <= m_data_size /\ m_data_size <= m_total_size /\ MaxNodes \in Nat /\ n \in Nat
  BY Sizes
<1>2. NewNodes(size) \in Nat /\ m_position + size <= m_total_size + m_node_size * NewNodes(size)
      /\ (NewNodes(size) = 0 <=> m_position + size <= m_total_size)
  BY NewNodesIs
<1>3. ns \in Lists /\ Len(ns) = Len(nodes) + NewNodes(size)
      /\ m_total_size + m_node_size * NewNodes(size) = m_node_size * Len(ns)
      /\ \A q \in 0 .. m_total_size - 1 : At(ns, q) = At(nodes, q)
  BY GrownIs
<1>4. m_total_size' = m_node_size * Len(ns) /\ Len(ns) \in 1 .. MaxNodes
  BY <1>1, <1>2, <1>3 DEF AddTotalSize
<1>5. m_node_size * Len(ns) \in Nat /\ m_total_size <= m_node_size * Len(ns)
  <2>1. m_node_size * NewNodes(size) \in Nat
    BY <1>2, NodeSize
  <2> QED
    BY <1>1, <1>3, <2>1
<1> HIDE DEF ns
<1>6. /\ nodes' \in Lists /\ Len(nodes') = Len(ns)
      /\ \A q \in 0 .. m_node_size * Len(ns) - 1 :
            At(nodes', q) = IF q \in m_position .. m_position + n - 1 THEN s[q - m_position + 1] ELSE At(ns, q)
  <2>1. CASE size = 0 /\ m_position = m_total_size
    <3>1. s = <<>> /\ CurGrown(size) = Null /\ Offset \in Nat
      BY <1>1, <2>1, CurGrownIs, EndIs
    <3>2. nodes' = ns
      BY <1>3, <3>1, StoreNothing DEF ns, Null
    <3> QED
      BY <1>1, <1>3, <3>1, <3>2
  <2>2. CASE ~ (size = 0 /\ m_position = m_total_size)
    <3>1. CurGrown(size) = (m_position \div m_node_size) + 1
      BY <2>2, CurGrownIs
    <3>2. nodes' = Store(ns, (m_position \div m_node_size) + 1, m_position % m_node_size, s)
      BY <3>1 DEF Offset, ns
    <3>3. ns \in Lists /\ m_position \in Nat
      BY <1>1, <1>3
    <3>4. Stored(ns, m_position, s, nodes')
      BY <3>2, <3>3, StoreIs
    <3> QED
      BY <3>4 DEF Stored
  <2> QED
    BY <2>1, <2>2
<1>7. m_position' \in Nat /\ m_data_size' \in Nat /\ m_position' <= m_data_size' /\ m_data_size' <= m_node_size * Len(ns)
  <2>1. m_position + n <= m_node_size * Len(ns) /\ m_data_size <= m_node_size * Len(ns)
    BY <1>1, <1>2, <1>3, <1>5
  <2>2. m_position' = m_position + n /\ m_data_size' = IF m_data_size > m_position + n THEN m_data_size ELSE m_position + n
    BY DEF Larger
  <2> QED
    BY <1>1, <2>1, <2>2
<1>8. m_cur' = IF m_position' = m_total_size' THEN Null ELSE (m_position' \div m_node_size) + 1
  <2>1. CASE m_cur' = NodeOrNull(((m_position + Len(s)) \div m_node_size) + 1, ns)
    BY <1>3, <1>4, <1>7, <2>1, NodeAt
  <2>2. CASE s = <<>> /\ m_position = m_total_size /\ m_cur' = Null
    <3>1. size = 0 /\ NewNodes(size) = 0
      BY <1>1, <1>2, <2>2
    <3>2. m_total_size' = m_total_size /\ m_position' = m_position
      BY <1>1, <2>2, <3>1, NodeSize DEF AddTotalSize
    <3> QED
      BY <2>2, <3>2
  <2> QED
    BY <2>1, <2>2 DEF ns
<1>9. Sound'
  BY <1>4, <1>5, <1>6, <1>7, <1>8 DEF Sound, SoundAt
<1>10. ASSUME NEW q \in 0 .. m_data_size' - 1
       PROVE  At(nodes', q) = IF q \in m_position .. m_position + n - 1 THEN s[q - m_position + 1] ELSE At(nodes, q)
  <2>1. q \in 0 .. m_node_size * Len(ns) - 1
    BY <1>5, <1>7
  <2>2. q \notin m_position .. m_position + n - 1 => q \in 0 .. m_total_size - 1
    BY <1>1 DEF Larger
  <2> QED
    BY <1>3, <1>6, <2>1, <2>2
<1> QED
  BY <1>9, <1>10 DEF Puts

LEMMA WriteIs ==
    ASSUME CursorAgrees, NEW s \in Seq(Byte), Write(s)
    PROVE  Sound' /\ Puts(s) /\ ret' = s
<1>1. PICK j \in Fresh :
          /\ AddTotalSize(Len(s), j)
          /\ nodes' = Store(Grown(Len(s), j), CurGrown(Len(s)), Offset, s)
          /\ m_cur' = NodeOrNull(CurGrown(Len(s)) + (Offset + Len(s)) \div m_node_size, Grown(Len(s), j))
          /\ m_position' = m_position + Len(s)
          /\ m_data_size' = Larger(m_data_size, m_position + Len(s))
          /\ ret' = s
  BY DEF Write
<1>2. Len(s) \in Nat /\ m_position \in Nat /\ (s = <<>> => Len(s) = 0) /\ (Len(s) = 0 => s = <<>>)
  BY Sizes
<1>3. m_cur' = NodeOrNull(((m_position + Len(s)) \div m_node_size) + 1, Grown(Len(s), j))
               \/ (s = <<>> /\ m_position = m_total_size /\ m_cur' = Null)
  <2>1. CASE Len(s) = 0 /\ m_position = m_total_size
    <3>1. CurGrown(Len(s)) = 0 /\ Offset = 0
      BY <1>2, <2>1, CurGrownIs, EndIs DEF Null
    <3>2. CurGrown(Len(s)) + (Offset + Len(s)) \div m_node_size = 0
      BY <2>1, <3>1, NodeSize
    <3>3. m_cur' = Null
      BY <1>1, <3>2 DEF NodeOrNull, Null
    <3> QED
      BY <1>2, <2>1, <3>3
  <2>2. CASE ~ (Len(s) = 0 /\ m_position = m_total_size)
    <3>1. CurGrown(Len(s)) = (m_position \div m_node_size) + 1
      BY <1>2, <2>2, CurGrownIs
    <3>2. (m_position \div m_node_size) + ((Offset + Len(s)) \div m_node_size) = (m_position + Len(s)) \div m_node_size
      BY <1>2, NodeSize, DivAdd DEF Offset
    <3>3. m_position \div m_node_size \in Nat /\ Offset \in Nat
      <4>1. m_position \div m_node_size \in Nat /\ m_position % m_node_size \in 0 .. m_node_size - 1
        BY <1>2, NodeSize, DivIs
      <4> QED
        BY <4>1, NodeSize DEF Offset
    <3>4. (Offset + Len(s)) \div m_node_size \in Nat
      <4>1. Offset + Len(s) \in Nat
        BY <1>2, <3>3
      <4> QED
        BY <4>1, NodeSize, DivIs
    <3>5. CurGrown(Len(s)) + (Offset + Len(s)) \div m_node_size = ((m_position + Len(s)) \div m_node_size) + 1
      BY <3>1, <3>2, <3>3, <3>4
    <3>6. m_cur' = NodeOrNull(CurGrown(Len(s)) + (Offset + Len(s)) \div m_node_size, Grown(Len(s), j))
      BY <1>1
    <3> QED
      BY <3>5, <3>6, Zenon
  <2> QED
    BY <2>1, <2>2
<1>4. Sound' /\ Puts(s)
  BY <1>1, <1>2, <1>3, PutIs
<1> QED
  BY <1>1, <1>4

-----------------------------------------------------------------------------
(* The encodings are bytes.                                                *)

LEMMA Widths ==
    /\ Group \in Nat \ {0} /\ Width \in Nat \ {0} /\ Group * Width \in Nat
    /\ Width <= Group * Width /\ Group <= Group * Width
    /\ 2^Width \in Nat \ {0} /\ 2^Group \in Nat \ {0}
    /\ 2^(Group + 1) \in Nat \ {0} /\ 2^(Group + 1) = 2 * 2^Group
<1>1. Group \in Nat \ {0} /\ Width \in Nat \ {0}
  BY ByteArrayAssumption
<1>2. Group * Width \in Nat /\ Width <= Group * Width /\ Group <= Group * Width
  <2>1. PICK g \in Nat : Group = g + 1
    <3>1. Group - 1 \in Nat /\ Group = (Group - 1) + 1
      BY <1>1
    <3> QED
      BY <3>1
  <2>2. PICK w \in Nat : Width = w + 1
    <3>1. Width - 1 \in Nat /\ Width = (Width - 1) + 1
      BY <1>1
    <3> QED
      BY <3>1
  <2>3. (g + 1) * (w + 1) = g * w + g + w + 1 /\ g * w \in Nat
    OBVIOUS
  <2> QED
    BY <2>1, <2>2, <2>3
<1>3. Width \in 0 .. Group * Width + 1 /\ Group \in 0 .. Group * Width + 1 /\ Group + 1 \in 0 .. Group * Width + 1
      /\ Group \in 0 .. Group * Width
  BY <1>1, <1>2
<1>4. 2^Width \in Nat \ {0} /\ 2^Group \in Nat \ {0} /\ 2^(Group + 1) \in Nat \ {0}
  BY <1>3, PowerIs
<1>5. 2^(Group + 1) = 2 * 2^Group
  BY <1>3, PowerAssumption
<1> QED
  BY <1>1, <1>2, <1>4, <1>5

LEMMA ModIs ==
    ASSUME NEW a \in Int, NEW b \in Nat \ {0}
    PROVE  a % b \in 0 .. b - 1
OBVIOUS

\* A number that fits into N groups of G bits.
Fits(n, G, N) ==
    /\ n \in Nat /\ G \in Nat \ {0} /\ N \in Nat \ {0} /\ G * N <= Group * Width /\ n < 2^(G * N)

LEMMA GroupPower ==
    ASSUME NEW G \in Nat \ {0}, NEW N \in Nat \ {0}, G * N <= Group * Width, NEW i \in 0 .. N
    PROVE  G * i \in 0 .. Group * Width /\ G \in 0 .. Group * Width /\ 2^(G * i) \in Nat \ {0} /\ 2^G \in Nat \ {0}
<1>1. G * i \in Nat /\ G * i <= G * N
  <2>1. PICK e \in Nat : N = i + e
    <3>1. N - i \in Nat /\ N = i + (N - i)
      OBVIOUS
    <3> QED
      BY <3>1
  <2>2. G * (i + e) = G * i + G * e /\ G * i \in Nat /\ G * e \in Nat
    OBVIOUS
  <2> QED
    BY <2>1, <2>2
<1>2. G <= G * N
  <2>1. PICK e \in Nat : N = e + 1
    <3>1. N - 1 \in Nat /\ N = (N - 1) + 1
      OBVIOUS
    <3> QED
      BY <3>1
  <2>2. G * (e + 1) = G * e + G /\ G * e \in Nat
    OBVIOUS
  <2> QED
    BY <2>1, <2>2
<1>3. G * N \in Nat /\ Group * Width \in Nat
  BY Widths
<1>4. G * i \in 0 .. Group * Width /\ G \in 0 .. Group * Width
  BY <1>1, <1>2, <1>3
<1>5. G * i \in 0 .. Group * Width + 1 /\ G \in 0 .. Group * Width + 1
  BY <1>3, <1>4
<1> QED
  BY <1>4, <1>5, PowerIs

\* What VarintLen() chooses.
LEMMA VarintLenFits ==
    ASSUME NEW n \in 0 .. 2^Width - 1
    PROVE  Fits(n, Group, VarintLen(n)) /\ VarintLen(n) \in 1 .. Width
           /\ \A j \in 1 .. VarintLen(n) - 1 : n >= 2^(Group * j)
<1> DEFINE P(k) == n < 2^(Group * k) /\ \A j \in 1 .. k - 1 : n >= 2^(Group * j)
           T == {k \in 1 .. Width : n < 2^(Group * k)}
<1>1. n \in Nat /\ n < 2^Width
  BY Widths
<1>2. \A k \in 1 .. Width : 2^(Group * k) \in Nat
  <2>1. \A k \in 1 .. Width : k \in 0 .. Width
    BY Widths
  <2>2. Group * Width <= Group * Width
    BY Widths
  <2> QED
    BY <2>1, <2>2, Widths, GroupPower
<1>3. Width \in T
  <2>1. Group * Width \in 0 .. Group * Width /\ Width \in 0 .. Group * Width
    BY Widths
  <2>2. 2^Width <= 2^(Group * Width)
    BY <2>1, PowerGrows
  <2>3. Width \in 1 .. Width
    BY Widths
  <2>4. 2^(Group * Width) \in Nat
    BY <1>2, <2>3
  <2> QED
    BY <1>1, <2>2, <2>3, <2>4, Widths
<1>4. T \in SUBSET Nat /\ T # {}
  <2>1. Width \in Nat
    BY Widths
  <2>2. \A k \in T : k \in 1 .. Width
    OBVIOUS
  <2> HIDE DEF T
  <2> QED
    BY <1>3, <2>1, <2>2
<1>5. PICK m \in T : \A k \in T : m <= k
  <2> HIDE DEF T
  <2> QED
    BY <1>4, Least
<1>6. m \in 1 .. Width /\ P(m)
  <2>1. ASSUME NEW j \in 1 .. m - 1 PROVE n >= 2^(Group * j)
    <3>1. j \in 1 .. Width /\ j < m /\ m \in Nat
      BY <1>5, Widths
    <3>2. ~ (n < 2^(Group * j))
      BY <1>5, <3>1
    <3> QED
      BY <1>1, <1>2, <3>1, <3>2
  <2> QED
    BY <1>5, <2>1
<1> DEFINE L == VarintLen(n)
<1>7. L = CHOOSE k \in 1 .. Width : P(k)
  BY DEF VarintLen
<1> HIDE DEF P, L
<1>8. L \in 1 .. Width /\ P(L)
  BY <1>6, <1>7, Zenon
<1>9. n < 2^(Group * L) /\ \A j \in 1 .. L - 1 : n >= 2^(Group * j)
  BY <1>8 DEF P
<1>10. L \in Nat \ {0} /\ L \in 0 .. Width
  BY <1>8, Widths
<1>11. Group * L <= Group * Width
  <2>1. Group * Width <= Group * Width
    BY Widths
  <2>2. Group * L \in 0 .. Group * Width
    BY <1>10, <2>1, Widths, GroupPower
  <2> QED
    BY <2>2, Widths
<1>12. Fits(n, Group, L)
  BY <1>1, <1>9, <1>10, <1>11, Widths DEF Fits
<1> QED
  BY <1>8, <1>9, <1>12 DEF L

LEMMA VarintEncodeIs ==
    ASSUME NEW n \in 0 .. 2^Width - 1
    PROVE  VarintEncode(n) \in Seq(Byte)
<1> DEFINE L == VarintLen(n)
           D(i) == (n \div 2^(Group * (i - 1))) % 2^Group
           M(i) == IF i < L THEN 2^Group ELSE 0
<1>1. L \in 1 .. Width /\ n \in Nat
  BY VarintLenFits, Widths
<1> HIDE DEF L
<1>2. ASSUME NEW i \in 1 .. L PROVE D(i) + M(i) \in Byte
  <2>1. Group * (i - 1) \in Nat /\ Group * (i - 1) <= Group * Width
    <3>1. PICK d \in Nat : Width = (i - 1) + d
      <4>1. Width - (i - 1) \in Nat /\ Width = (i - 1) + (Width - (i - 1))
        BY <1>1, Widths
      <4> QED
        BY <4>1
    <3>2. i - 1 \in Nat
      BY <1>1, Widths
    <3>3. Group * ((i - 1) + d) = Group * (i - 1) + Group * d /\ Group * (i - 1) \in Nat /\ Group * d \in Nat
      BY <3>2, Widths
    <3> QED
      BY <3>1, <3>3
  <2>2. Group * (i - 1) \in 0 .. Group * Width + 1
    BY <2>1, Widths
  <2>3. 2^(Group * (i - 1)) \in Nat \ {0}
    BY <2>2, PowerIs
  <2>4. n \div 2^(Group * (i - 1)) \in Nat
    BY <1>1, <2>3, DivIs
  <2>5. D(i) \in 0 .. 2^Group - 1
    <3>1. n \div 2^(Group * (i - 1)) \in Int
      BY <2>4
    <3> QED
      BY <3>1, Widths, ModIs
  <2> HIDE DEF D
  <2>6. M(i) \in {0, 2^Group}
    OBVIOUS
  <2> HIDE DEF M
  <2> QED
    BY <2>5, <2>6, Widths DEF Byte
<1>3. VarintEncode(n) = [i \in 1 .. L |-> D(i) + M(i)]
  BY DEF VarintEncode, L
<1> HIDE DEF D, M
<1>4. L \in Nat
  BY <1>1, Widths
<1> QED
  BY <1>2, <1>3, <1>4

LEMMA ZigZagIs ==
    ASSUME NEW n \in 0 .. 2^Width - 1
    PROVE  ZigZagEncode(Signed(n)) \in 0 .. 2^Width - 1
<1> DEFINE z == Signed(n)
<1>1. 2^Width \in Nat \ {0} /\ n \in Int
  BY Widths
<1>2. z \in Int
  BY <1>1 DEF Signed
<1> HIDE DEF z
<1>3. (2 * z) % 2^Width \in 0 .. 2^Width - 1
  <2>1. 2 * z \in Int
    BY <1>2
  <2> QED
    BY <1>1, <2>1, ModIs
<1>4. ZigZagEncode(z) \in 0 .. 2^Width - 1
  <2> DEFINE s == (2 * z) % 2^Width
  <2>1. ZigZagEncode(z) = IF z < 0 THEN 2^Width - 1 - s ELSE s
    BY DEF ZigZagEncode, Inverted
  <2> HIDE DEF s
  <2> QED
    BY <1>1, <1>3, <2>1 DEF s
<1> QED
  BY <1>4 DEF z

LEMMA ReverseIs ==
    ASSUME NEW B, NEW s \in Seq(B)
    PROVE  Reverse(s) \in Seq(B) /\ Len(Reverse(s)) = Len(s)
BY DEF Reverse

LEMMA FixedIs ==
    ASSUME NEW n \in Nat, NEW count \in {1, WideBytes}
    PROVE  Fixed(n, count) \in Seq(Byte)
<1> DEFINE G == Group + 1
<1>0. G \in Nat \ {0} /\ Width \in Nat
  BY Widths
<1>1. WideBytes \in Nat /\ G * WideBytes <= Width
  <2>1. Width \div G \in Nat /\ Width % G \in 0 .. G - 1 /\ Width = G * (Width \div G) + (Width % G)
    BY <1>0, DivIs
  <2> DEFINE d == Width \div G
             r == Width % G
  <2>2. d \in Nat /\ r \in Nat /\ Width = G * d + r
    BY <1>0, <2>1
  <2> HIDE DEF d, r
  <2>3. G * d \in Nat
    BY <1>0, <2>2
  <2>4. d \in Nat /\ G * d <= Width
    BY <1>0, <2>2, <2>3
  <2> QED
    BY <2>4 DEF WideBytes, d
<1> HIDE DEF G
<1>2. ASSUME NEW i \in 1 .. count PROVE (n \div 2^(G * (i - 1))) % 2^G \in Byte
  <2>1. G * (i - 1) \in Nat /\ G * (i - 1) <= Width
    <3>1. CASE i = 1
      <4>1. G * (1 - 1) = 0
        BY <1>0
      <4> QED
        BY <1>0, <3>1, <4>1
    <3>2. CASE i # 1
      <4>1. i - 1 \in Nat /\ i - 1 < WideBytes
        BY <1>1, <3>2
      <4>2. G * (i - 1) + G <= G * WideBytes /\ G * (i - 1) \in Nat /\ G * WideBytes \in Nat
        BY <1>0, <1>1, <4>1, MulLess
      <4> QED
        BY <1>0, <1>1, <4>2
    <3> QED
      BY <3>1, <3>2
  <2>2. G * (i - 1) \in 0 .. Group * Width + 1
    BY <2>1, Widths
  <2>3. 2^(G * (i - 1)) \in Nat \ {0}
    BY <2>2, PowerIs
  <2>4. n \div 2^(G * (i - 1)) \in Nat
    BY <2>3, DivIs
  <2>5. 2^G \in Nat \ {0}
    BY Widths DEF G
  <2>6. (n \div 2^(G * (i - 1))) % 2^G \in 0 .. 2^G - 1
    <3>1. n \div 2^(G * (i - 1)) \in Int
      BY <2>4
    <3> QED
      BY <2>5, <3>1, ModIs
  <2> QED
    BY <2>6 DEF Byte, G
<1>3. count \in Nat
  BY <1>1
<1>4. Digits(n, count) \in Seq(Byte)
  <2>1. Digits(n, count) = [i \in 1 .. count |-> (n \div 2^(G * (i - 1))) % 2^G]
    BY DEF Digits, G
  <2> QED
    BY <1>2, <1>3, <2>1
<1>5. Image(n, count) \in Seq(Byte)
  BY <1>4, ReverseIs DEF Image
<1> QED
  BY <1>5, ReverseIs DEF Fixed

LEMMA EncodedIs ==
    ASSUME NEW form \in Forms, NEW n \in 0 .. 2^Width - 1
    PROVE  Encoded(form, n) \in Seq(Byte)
<1>1. n \in Nat
  BY Widths
<1>2. CASE form = "uint"
  BY <1>2, VarintEncodeIs DEF Encoded
<1>3. CASE form = "int"
  BY <1>3, ZigZagIs, VarintEncodeIs DEF Encoded
<1>4. CASE form = "fixed"
  BY <1>1, <1>4, FixedIs DEF Encoded
<1>5. CASE form = "byte"
  BY <1>1, <1>5, FixedIs DEF Encoded
<1> QED
  BY <1>2, <1>3, <1>4, <1>5 DEF Forms

LEMMA TakenIs ==
    ASSUME NEW form \in Forms, NEW s \in Seq(Byte)
    PROVE  Taken(form, s) \in Nat
<1>1. MaxVarint \in Nat
  <2>1. Width + Group - 1 \in Nat
    BY Widths
  <2> QED
    BY <2>1, Widths, DivIs DEF MaxVarint
<1>2. WideBytes \in Nat
  <2>1. Group + 1 \in Nat \ {0} /\ Width \in Nat
    BY Widths
  <2> QED
    BY <2>1, DivIs DEF WideBytes
<1>3. VarintTaken(s) \in Nat
  <2> DEFINE P(k) == k > Len(s) \/ s[k] < 2^Group
             Q(k) == P(k) /\ \A j \in 1 .. k - 1 : s[j] >= 2^Group
             T == {k \in 1 .. MaxVarint : P(k)}
  <2>1. CASE T = {}
    <3>1. VarintTaken(s) = MaxVarint
      BY <2>1 DEF VarintTaken
    <3> QED
      BY <1>1, <3>1
  <2>2. CASE T # {}
    <3>1. PICK m \in T : \A k \in T : m <= k
      <4>1. T \in SUBSET Nat
        BY <1>1
      <4> HIDE DEF T
      <4> QED
        BY <2>2, <4>1, Least
    <3>2. m \in 1 .. MaxVarint /\ Q(m)
      <4>1. ASSUME NEW j \in 1 .. m - 1 PROVE s[j] >= 2^Group
        <5>1. j \in 1 .. MaxVarint /\ j < m /\ m \in Nat
          BY <1>1, <3>1
        <5>2. ~ P(j)
          BY <3>1, <5>1
        <5>3. j \in 1 .. Len(s)
          BY <5>1, <5>2
        <5>4. s[j] \in Byte
          BY <5>3
        <5>5. s[j] \in Int
          BY <5>4, Widths DEF Byte
        <5> QED
          BY <5>2, <5>5, Widths
      <4> QED
        BY <3>1, <4>1
    <3>3. VarintTaken(s) = CHOOSE k \in 1 .. MaxVarint : Q(k)
      BY <2>2 DEF VarintTaken
    <3> HIDE DEF Q
    <3>4. VarintTaken(s) \in 1 .. MaxVarint
      BY <3>2, <3>3, Zenon
    <3> QED
      BY <1>1, <3>4
  <2> QED
    BY <2>1, <2>2
<1> QED
  BY <1>2, <1>3 DEF Taken, Forms

-----------------------------------------------------------------------------
(* What was written is decoded.                                            *)

LEMMA PowerAdd ==
    ASSUME NEW a \in Nat, NEW b \in Nat, a + b <= Group * Width
    PROVE  2^(a + b) = 2^a * 2^b
<1> DEFINE T == {k \in Nat : k <= b /\ 2^(a + k) # 2^a * 2^k}
<1>0. Group * Width \in Nat
  BY Widths
<1>1. SUFFICES ASSUME T # {} PROVE FALSE
  OBVIOUS
<1>2. PICK m \in T : \A k \in T : m <= k
  BY <1>1, Least
<1>3. m \in Nat /\ m <= b /\ 2^(a + m) # 2^a * 2^m
  BY <1>2
<1>4. m # 0
  <2>1. a \in 0 .. Group * Width + 1
    BY <1>0
  <2>2. 2^a \in Nat
    BY <2>1, PowerIs
  <2>3. 2^0 = 1 /\ a + 0 = a
    BY PowerAssumption
  <2> DEFINE x == 2^a
             y == 2^0
  <2>4. x \in Nat /\ y = 1
    BY <2>2, <2>3
  <2> HIDE DEF x, y
  <2>5. x * y = x
    BY <2>4
  <2>6. 2^(a + 0) = 2^a * 2^0
    BY <2>3, <2>5 DEF x, y
  <2> QED
    BY <1>3, <2>6
<1>5. m - 1 \in Nat /\ m - 1 \notin T
  BY <1>2, <1>3, <1>4
<1>6. 2^(a + (m - 1)) = 2^a * 2^(m - 1)
  BY <1>3, <1>5
<1>7. /\ a + (m - 1) \in 0 .. Group * Width /\ m - 1 \in 0 .. Group * Width /\ a \in 0 .. Group * Width
      /\ (a + (m - 1)) + 1 = a + m /\ (m - 1) + 1 = m
  BY <1>0, <1>3, <1>5
<1>8. 2^((a + (m - 1)) + 1) = 2 * 2^(a + (m - 1)) /\ 2^((m - 1) + 1) = 2 * 2^(m - 1)
  BY <1>7, PowerAssumption
<1>9. 2^(a + m) = 2 * 2^(a + (m - 1)) /\ 2^m = 2 * 2^(m - 1)
  BY <1>7, <1>8, Zenon
<1>10. 2^a \in Nat /\ 2^(m - 1) \in Nat
  <2>1. m - 1 \in 0 .. Group * Width + 1 /\ a \in 0 .. Group * Width + 1
    BY <1>0, <1>7
  <2> QED
    BY <2>1, PowerIs
<1> DEFINE x == 2^a
           y == 2^(m - 1)
           z == 2^(a + (m - 1))
           u == 2^(a + m)
           w == 2^m
<1>11. x \in Nat /\ y \in Nat /\ z = x * y /\ u = 2 * z /\ w = 2 * y /\ u # x * w
  BY <1>3, <1>6, <1>9, <1>10
<1> HIDE DEF x, y, z, u, w
<1>12. 2 * (x * y) = x * (2 * y)
  BY <1>11
<1> QED
  BY <1>11, <1>12

LEMMA DivDiv ==
    ASSUME NEW n \in Nat, NEW A \in Nat \ {0}, NEW B \in Nat \ {0}
    PROVE  n \div (A * B) = (n \div A) \div B
<1> DEFINE q == n \div A
           r == n % A
           p == q \div B
           s == q % B
           j == A * s + r
<1>1. q \in Nat /\ r \in 0 .. A - 1 /\ n = A * q + r
  BY DivIs
<1>2. p \in Nat /\ s \in 0 .. B - 1 /\ q = B * p + s
  <2> HIDE DEF q
  <2> QED
    BY <1>1, DivIs
<1> HIDE DEF q, r, p, s
<1>3. A * B \in Nat \ {0} /\ A * s \in Nat /\ (A * B) * p \in Nat
  BY <1>2
<1>4. A * (B * p + s) = (A * B) * p + A * s
  BY <1>2
<1>5. A * s + A <= A * B
  BY <1>2, MulLess
<1>6. j \in 0 .. A * B - 1
  BY <1>1, <1>3, <1>5
<1>7. n = (A * B) * p + j
  BY <1>1, <1>2, <1>3, <1>4
<1> HIDE DEF j
<1>8. ((A * B) * p + j) \div (A * B) = p
  BY <1>2, <1>3, <1>6, DivUnique
<1> QED
  BY <1>7, <1>8 DEF p, q

LEMMA MinIs ==
    ASSUME NEW S \in SUBSET Nat, S # {}
    PROVE  Min(S) \in S /\ \A y \in S : Min(S) <= y
<1>1. \E x \in S : \A y \in S : x <= y
  BY Least
<1> QED
  BY <1>1, Zenon DEF Min

\* The least member of an interval and what is left without it.
LEMMA MinFrom ==
    ASSUME NEW a \in Nat, NEW N \in Nat, NEW S \in SUBSET (a .. N), a \in S
    PROVE  Min(S) = a
<1>1. S \in SUBSET Nat /\ S # {}
  OBVIOUS
<1>2. Min(S) \in S /\ \A y \in S : Min(S) <= y
  BY <1>1, MinIs
<1> DEFINE x == Min(S)
<1>3. x \in a .. N /\ x <= a
  BY <1>2
<1> HIDE DEF x
<1> QED
  BY <1>3 DEF x

\* The function FoldRight() is defined by, for the digits d of a number with base B.
Rounds(h, d, B, X) ==
    h = [S \in SUBSET X |-> IF S = {} THEN 0 ELSE d[Min(S)] + B * h[S \ {Min(S)}]]

LEMMA RoundsExist ==
    ASSUME NEW N \in Nat, NEW d, NEW B
    PROVE  \E h : Rounds(h, d, B, 1 .. N)
<1> DEFINE T == {k \in Nat : k <= N /\ ~ \E h : Rounds(h, d, B, N - k + 1 .. N)}
<1>1. SUFFICES ASSUME T # {} PROVE FALSE
  <2>1. N \notin T
    BY <1>1
  <2>2. N - N + 1 = 1
    OBVIOUS
  <2> QED
    BY <2>1, <2>2
<1>2. PICK m \in T : \A k \in T : m <= k
  BY <1>1, Least
<1>3. m \in Nat /\ m <= N /\ ~ \E h : Rounds(h, d, B, N - m + 1 .. N)
  BY <1>2
<1>4. m # 0
  <2>1. N - 0 + 1 .. N = {}
    OBVIOUS
  <2> DEFINE h == [S \in SUBSET {} |-> 0]
  <2>2. Rounds(h, d, B, {})
    <3>1. \A S \in SUBSET {} : S = {}
      OBVIOUS
    <3>2. \A S \in SUBSET {} : 0 = IF S = {} THEN 0 ELSE d[Min(S)] + B * h[S \ {Min(S)}]
      BY <3>1, Zenon
    <3> QED
      BY <3>2, Zenon DEF Rounds
  <2> HIDE DEF h
  <2> QED
    BY <1>3, <2>1, <2>2
<1> DEFINE a == N - m + 1
           X == a + 1 .. N
           Y == a .. N
<1>5. a \in Nat /\ X = Y \ {a} /\ N - (m - 1) + 1 = a + 1
  BY <1>3, <1>4
<1>6. PICK g : Rounds(g, d, B, X)
  <2>1. m - 1 \in Nat /\ m - 1 <= N /\ m - 1 \notin T
    BY <1>2, <1>3, <1>4
  <2> QED
    BY <1>5, <2>1
<1> HIDE DEF a
<1> DEFINE h == [S \in SUBSET Y |-> IF a \in S THEN d[a] + B * g[S \ {a}] ELSE g[S]]
<1>7. \A S \in SUBSET X : S \in SUBSET Y /\ a \notin S /\ h[S] = g[S]
  <2> TAKE S \in SUBSET X
  <2>1. S \in SUBSET Y /\ a \notin S
    BY <1>5
  <2> HIDE DEF Y
  <2> QED
    BY <2>1
<1>8. \A S \in SUBSET X : g[S] = IF S = {} THEN 0 ELSE d[Min(S)] + B * g[S \ {Min(S)}]
  BY <1>6, Zenon DEF Rounds
<1>9. ASSUME NEW S \in SUBSET Y
      PROVE  h[S] = IF S = {} THEN 0 ELSE d[Min(S)] + B * h[S \ {Min(S)}]
  <2>1. CASE a \in S
    <3>1. Min(S) = a
      BY <1>5, <2>1, MinFrom
    <3>2. S \ {a} \in SUBSET X
      BY <1>5
    <3>3. h[S \ {a}] = g[S \ {a}]
      BY <1>7, <3>2
    <3>4. h[S] = d[a] + B * g[S \ {a}]
      <4> HIDE DEF Y
      <4> QED
        BY <2>1
    <3> HIDE DEF h, Y, X
    <3> QED
      BY <2>1, <3>1, <3>3, <3>4
  <2>2. CASE a \notin S
    <3>1. S \in SUBSET X
      BY <1>5, <2>2
    <3>2. S \ {Min(S)} \in SUBSET X
      BY <3>1
    <3>3. h[S] = g[S] /\ h[S \ {Min(S)}] = g[S \ {Min(S)}]
      BY <1>7, <3>1, <3>2
    <3> HIDE DEF h, Y, X
    <3> QED
      BY <1>8, <3>1, <3>3, Zenon
  <2> QED
    BY <2>1, <2>2
<1>10. Rounds(h, d, B, Y)
  <2> DEFINE f == [S \in SUBSET Y |-> IF S = {} THEN 0 ELSE d[Min(S)] + B * h[S \ {Min(S)}]]
  <2>1. \A S \in SUBSET Y : h[S] = f[S]
    BY <1>9, Zenon
  <2>2. h = f
    BY <2>1, Zenon
  <2> QED
    BY <2>2, Zenon DEF Rounds
<1> HIDE DEF h
<1> QED
  BY <1>3, <1>10 DEF a

\* The fold is the value of the digits when v[i] is the value of all behind the i-th.
LEMMA RoundsValue ==
    ASSUME NEW N \in Nat, NEW d, NEW B, NEW h, Rounds(h, d, B, 1 .. N),
           NEW v, v[N] = 0, \A i \in 1 .. N : v[i - 1] = d[i] + B * v[i]
    PROVE  h[1 .. N] = v[0]
<1>0. \A S \in SUBSET (1 .. N) : h[S] = IF S = {} THEN 0 ELSE d[Min(S)] + B * h[S \ {Min(S)}]
  BY Zenon DEF Rounds
<1> DEFINE T == {k \in Nat : k <= N /\ h[N - k + 1 .. N] # v[N - k]}
<1>1. SUFFICES ASSUME T # {} PROVE FALSE
  <2>1. N \notin T
    BY <1>1
  <2>2. N - N + 1 = 1 /\ N - N = 0
    OBVIOUS
  <2> QED
    BY <2>1, <2>2
<1>2. PICK m \in T : \A k \in T : m <= k
  BY <1>1, Least
<1>3. m \in Nat /\ m <= N /\ h[N - m + 1 .. N] # v[N - m]
  BY <1>2
<1>4. m # 0
  <2>1. N - 0 + 1 .. N = {} /\ N - 0 = N
    OBVIOUS
  <2>2. h[{}] = 0
    BY <1>0
  <2> QED
    BY <1>3, <2>1, <2>2
<1> DEFINE a == N - m + 1
<1>5. a \in 1 .. N /\ N - (m - 1) + 1 = a + 1 /\ N - (m - 1) = a /\ N - m = a - 1
  BY <1>3, <1>4
<1>6. h[a + 1 .. N] = v[a]
  <2>1. m - 1 \in Nat /\ m - 1 <= N /\ m - 1 \notin T
    BY <1>2, <1>3, <1>4
  <2> QED
    BY <1>5, <2>1
<1>7. h[a .. N] # v[a - 1]
  BY <1>3, <1>5
<1> HIDE DEF a
<1> DEFINE S == a .. N
<1>8. S \in SUBSET (1 .. N) /\ S # {} /\ S \ {a} = a + 1 .. N
  <2>1. a \in 1 .. N
    BY <1>5
  <2>2. S \in SUBSET (1 .. N) /\ a \in S
    BY <2>1
  <2>3. \A x : x \in S \ {a} <=> x \in a + 1 .. N
    BY <2>1
  <2>4. S \ {a} = a + 1 .. N
    BY <2>3, Zenon
  <2> QED
    BY <2>2, <2>4
<1>9. Min(S) = a
  <2>1. a \in Nat /\ S \in SUBSET (a .. N) /\ a \in S
    BY <1>5
  <2> QED
    BY <2>1, MinFrom
<1> HIDE DEF S
<1>10. h[S] = d[a] + B * h[a + 1 .. N]
  BY <1>0, <1>8, <1>9
<1> QED
  BY <1>5, <1>6, <1>7, <1>10 DEF S

\* The value of the digits behind the i-th, of a number in groups of G bits.
Rest(n, G, i) == n \div 2^(G * i)

LEMMA RestIs ==
    ASSUME NEW n, NEW G, NEW N, Fits(n, G, N)
    PROVE  /\ Rest(n, G, 0) = n /\ Rest(n, G, N) = 0
           /\ \A i \in 0 .. N : Rest(n, G, i) \in Nat
           /\ \A i \in 1 .. N : Rest(n, G, i - 1) = (Rest(n, G, i - 1) % 2^G) + 2^G * Rest(n, G, i)
<1>0. n \in Nat /\ G \in Nat \ {0} /\ N \in Nat \ {0} /\ G * N <= Group * Width /\ n < 2^(G * N)
  BY DEF Fits
<1>1. \A i \in 0 .. N : G * i \in 0 .. Group * Width /\ G \in 0 .. Group * Width /\ 2^(G * i) \in Nat \ {0} /\ 2^G \in Nat \ {0}
  BY <1>0, GroupPower
<1>2. Rest(n, G, 0) = n
  <2>1. G * 0 = 0 /\ 2^0 = 1
    BY <1>0, PowerAssumption
  <2>2. n \div 1 = n
    BY <1>0
  <2> QED
    BY <2>1, <2>2 DEF Rest
<1>3. Rest(n, G, N) = 0
  <2> DEFINE P == 2^(G * N)
  <2>1. P \in Nat \ {0} /\ n < P
    BY <1>0, <1>1
  <2> HIDE DEF P
  <2>2. P * 0 + n = n /\ n \in 0 .. P - 1 /\ 0 \in Nat /\ P \in Nat \ {0}
    BY <1>0, <2>1
  <2>3. (P * 0 + n) \div P = 0
    BY <2>2, DivUnique
  <2> QED
    BY <2>2, <2>3 DEF Rest, P
<1>4. \A i \in 0 .. N : Rest(n, G, i) \in Nat
  BY <1>0, <1>1, DivIs DEF Rest
<1>5. ASSUME NEW i \in 1 .. N
      PROVE  Rest(n, G, i - 1) = (Rest(n, G, i - 1) % 2^G) + 2^G * Rest(n, G, i)
  <2>1. i - 1 \in 0 .. N /\ i \in 0 .. N
    BY <1>0
  <2>2. G * i = G * (i - 1) + G
    BY <1>0
  <2>3. G * (i - 1) \in Nat /\ G \in Nat /\ G * (i - 1) + G <= Group * Width
    <3>1. G * i \in 0 .. Group * Width /\ G * (i - 1) \in 0 .. Group * Width /\ Group * Width \in Nat
      BY <1>1, <2>1, Widths
    <3> QED
      BY <1>0, <2>2, <3>1
  <2>4. 2^(G * i) = 2^(G * (i - 1)) * 2^G
    BY <2>2, <2>3, PowerAdd
  <2>5. 2^(G * (i - 1)) \in Nat \ {0} /\ 2^G \in Nat \ {0}
    BY <1>1, <2>1
  <2>6. Rest(n, G, i) = Rest(n, G, i - 1) \div 2^G
    <3> DEFINE A == 2^(G * (i - 1))
               C == 2^G
    <3>1. A \in Nat \ {0} /\ C \in Nat \ {0}
      BY <2>5
    <3> HIDE DEF A, C
    <3>2. n \div (A * C) = (n \div A) \div C
      BY <1>0, <3>1, DivDiv
    <3> QED
      BY <2>4, <3>2, Zenon DEF Rest, A, C
  <2> DEFINE q == Rest(n, G, i - 1)
             B == 2^G
  <2>7. q \in Nat /\ B \in Nat \ {0}
    BY <1>4, <2>1, <2>5
  <2> HIDE DEF q, B
  <2>8. q = B * (q \div B) + (q % B) /\ q \div B \in Nat /\ q % B \in 0 .. B - 1
    BY <2>7, DivIs
  <2>9. B * (q \div B) \in Nat
    BY <2>7, <2>8
  <2>10. q = (q % B) + B * (q \div B)
    BY <2>7, <2>8, <2>9
  <2> QED
    BY <2>6, <2>10 DEF q, B
<1> QED
  BY <1>2, <1>3, <1>4, <1>5

\* The fold over the digits of a number is the number.
LEMMA FoldIs ==
    ASSUME NEW n, NEW G, NEW N, Fits(n, G, N), NEW d, \A i \in 1 .. N : d[i] = Rest(n, G, i - 1) % 2^G,
           NEW h, Rounds(h, d, 2^G, 1 .. N)
    PROVE  h[1 .. N] = n
<1> DEFINE v == [i \in 0 .. N |-> Rest(n, G, i)]
<1>0. N \in Nat
  BY DEF Fits
<1>1. Rest(n, G, 0) = n /\ Rest(n, G, N) = 0
  BY RestIs
<1>2. \A i \in 1 .. N : Rest(n, G, i - 1) = (Rest(n, G, i - 1) % 2^G) + 2^G * Rest(n, G, i)
  BY RestIs
<1>3. v[0] = n /\ v[N] = 0
  BY <1>0, <1>1
<1>4. \A i \in 1 .. N : v[i - 1] = Rest(n, G, i - 1) /\ v[i] = Rest(n, G, i)
  BY <1>0
<1> HIDE DEF v
<1>5. \A i \in 1 .. N : v[i - 1] = d[i] + 2^G * v[i]
  BY <1>2, <1>4, Zenon
<1> DEFINE B == 2^G
<1>6. Rounds(h, d, B, 1 .. N) /\ \A i \in 1 .. N : v[i - 1] = d[i] + B * v[i]
  BY <1>5
<1> HIDE DEF B
<1>7. h[1 .. N] = v[0]
  BY <1>0, <1>3, <1>6, RoundsValue
<1> QED
  BY <1>3, <1>7

\* The bytes that writeUInt32() leaves: seven bits each, and a mark on all but the last.
Marked(e, n) ==
    /\ e \in Seq(Byte) /\ Len(e) = VarintLen(n)
    /\ \A i \in 1 .. Len(e) : e[i] % 2^Group = Rest(n, Group, i - 1) % 2^Group
    /\ \A i \in 1 .. Len(e) - 1 : e[i] >= 2^Group
    /\ e[Len(e)] < 2^Group

LEMMA VarintMarked ==
    ASSUME NEW n \in 0 .. 2^Width - 1
    PROVE  Marked(VarintEncode(n), n)
<1> DEFINE L == VarintLen(n)
           D(i) == Rest(n, Group, i - 1) % 2^Group
           e == VarintEncode(n)
           B == 2^Group
<1>1. L \in 1 .. Width /\ L \in Nat \ {0} /\ Fits(n, Group, L)
  BY VarintLenFits, Widths
<1>2. \A i \in 0 .. L : Rest(n, Group, i) \in Nat
  BY <1>1, RestIs
<1>3. e = [i \in 1 .. L |-> D(i) + (IF i < L THEN B ELSE 0)]
  BY DEF VarintEncode, Rest
<1>4. e \in Seq(Byte)
  BY VarintEncodeIs
<1>5. B \in Nat \ {0}
  BY Widths
<1>6. \A i \in 1 .. L : D(i) \in 0 .. B - 1
  <2> TAKE i \in 1 .. L
  <2>1. i - 1 \in 0 .. L
    BY <1>1
  <2>2. Rest(n, Group, i - 1) \in Int
    BY <1>2, <2>1
  <2> HIDE DEF B
  <2> QED
    BY <1>5, <2>2, ModIs DEF B
<1> HIDE DEF L, D, e, B
<1>7. Len(e) = L /\ \A i \in 1 .. L : e[i] = D(i) + (IF i < L THEN B ELSE 0)
  BY <1>1, <1>3
<1>8. \A i \in 1 .. L - 1 : e[i] = D(i) + B /\ i \in 1 .. L
  BY <1>1, <1>7
<1>9. e[L] = D(L) + 0 /\ L \in 1 .. L
  BY <1>1, <1>7
<1>10. \A i \in 1 .. L - 1 : e[i] >= B
  BY <1>5, <1>6, <1>8
<1>11. e[L] < B
  BY <1>5, <1>6, <1>9
<1>12. ASSUME NEW i \in 1 .. L PROVE e[i] % B = D(i)
  <2>1. (B * 1 + D(i)) % B = D(i) /\ (B * 0 + D(i)) % B = D(i)
    BY <1>5, <1>6, DivUnique
  <2>2. e[i] = B * 1 + D(i) \/ e[i] = B * 0 + D(i)
    BY <1>5, <1>6, <1>7
  <2> QED
    BY <2>1, <2>2
<1> QED
  BY <1>4, <1>7, <1>10, <1>11, <1>12 DEF Marked, L, e, D, B

LEMMA VarintBack ==
    ASSUME NEW n \in 0 .. 2^Width - 1, NEW e, Marked(e, n)
    PROVE  VarintDecode(e) = n
<1> DEFINE N == VarintLen(n)
           B == 2^Group
           d == [i \in 1 .. N |-> e[i] % B]
           Eq(h) == h = [S \in SUBSET (DOMAIN e) |-> IF S = {} THEN 0
                          ELSE (e[Min(S)] % 2^Group) + 2^Group * h[S \ {Min(S)}]]
<1>1. N \in Nat /\ Fits(n, Group, N)
  BY VarintLenFits, Widths
<1>2. DOMAIN e = 1 .. N /\ \A i \in 1 .. N : e[i] % 2^Group = Rest(n, Group, i - 1) % 2^Group
  BY DEF Marked
<1>3. VarintDecode(e) = (CHOOSE h : Eq(h))[1 .. N] % 2^Width
  BY <1>2, Zenon DEF VarintDecode, FoldRight, MapThenFoldSet
<1>4. \A S \in SUBSET (1 .. N) : S # {} => Min(S) \in 1 .. N
  <2> TAKE S \in SUBSET (1 .. N)
  <2>1. S \in SUBSET Nat
    BY <1>1
  <2> QED
    BY <2>1, MinIs
<1>5. \A S \in SUBSET (1 .. N) : S # {} => e[Min(S)] % 2^Group = d[Min(S)]
  BY <1>4
<1> HIDE DEF d, N
<1>6. ASSUME NEW h PROVE Eq(h) <=> Rounds(h, d, B, 1 .. N)
  <2> DEFINE f == [S \in SUBSET (1 .. N) |-> IF S = {} THEN 0 ELSE (e[Min(S)] % B) + B * h[S \ {Min(S)}]]
             g == [S \in SUBSET (1 .. N) |-> IF S = {} THEN 0 ELSE d[Min(S)] + B * h[S \ {Min(S)}]]
  <2>1. \A S \in SUBSET (1 .. N) : f[S] = g[S]
    BY <1>5, Zenon
  <2>2. f = g
    BY <2>1, Zenon
  <2>3. (Eq(h) <=> h = f) /\ (Rounds(h, d, B, 1 .. N) <=> h = g)
    BY <1>2, Zenon DEF Rounds
  <2> HIDE DEF f, g, Eq, B
  <2> QED
    BY <2>2, <2>3
<1> HIDE DEF Eq
<1>7. \E h : Eq(h)
  BY <1>1, <1>6, RoundsExist
<1> DEFINE f == CHOOSE h : Eq(h)
<1>8. Eq(f)
  BY <1>7, Zenon
<1> HIDE DEF f
<1>9. Rounds(f, d, 2^Group, 1 .. N)
  BY <1>6, <1>8
<1>10. \A i \in 1 .. N : d[i] = Rest(n, Group, i - 1) % 2^Group
  BY <1>2 DEF d
<1>11. f[1 .. N] = n
  BY <1>1, <1>9, <1>10, FoldIs
<1>12. n % 2^Width = n
  <2> DEFINE P == 2^Width
  <2>1. P \in Nat \ {0} /\ n \in 0 .. P - 1
    BY Widths
  <2> HIDE DEF P
  <2>2. (P * 0 + n) % P = n /\ P * 0 + n = n
    BY <2>1, DivUnique
  <2> QED
    BY <2>2 DEF P
<1> QED
  BY <1>3, <1>11, <1>12 DEF f

\* The loop of readUInt32() has a round for every byte of a number.
LEMMA VarintShort ==
    ASSUME NEW n \in 0 .. 2^Width - 1
    PROVE  VarintLen(n) <= MaxVarint /\ MaxVarint \in Nat /\ VarintLen(n) \in Nat \ {0}
<1> DEFINE M == MaxVarint
           L == VarintLen(n)
           c == Width + Group - 1
<1>1. c \in Nat /\ Group \in Nat \ {0} /\ Width \in Nat \ {0} /\ Group * Width \in Nat
  BY Widths
<1>2. M \in Nat /\ c % Group \in 0 .. Group - 1 /\ c = Group * M + (c % Group)
  <2> HIDE DEF c
  <2>1. c \div Group \in Nat /\ c % Group \in 0 .. Group - 1 /\ c = Group * (c \div Group) + (c % Group)
    BY <1>1, DivIs
  <2>2. M = c \div Group
    BY DEF MaxVarint, c
  <2> HIDE DEF M
  <2> QED
    BY <2>1, <2>2
<1> DEFINE r == c % Group
           x == Group * M
<1>3. r \in 0 .. Group - 1 /\ Width + Group - 1 = x + r /\ x \in Int
  <2> HIDE DEF M
  <2> QED
    BY <1>1, <1>2
<1> HIDE DEF r, M, L
<1>4. Width <= Group * M
  <2> HIDE DEF x
  <2>1. Width <= x
    BY <1>1, <1>3
  <2> QED
    BY <2>1 DEF x
<1>5. L \in 1 .. Width /\ L \in Nat \ {0} /\ \A j \in 1 .. L - 1 : n >= 2^(Group * j)
  BY VarintLenFits, Widths DEF L
<1>6. L <= M
  <2> SUFFICES ASSUME M < L PROVE FALSE
    BY <1>2, <1>5
  <2>1. M # 0
    BY <1>1, <1>4
  <2>2. M \in 1 .. L - 1 /\ M \in 0 .. Width
    BY <1>1, <1>2, <1>5, <2>1
  <2>3. n >= 2^(Group * M)
    BY <1>5, <2>2
  <2>4. Group * M \in 0 .. Group * Width
    BY <1>1, <2>2, GroupPower
  <2>5. Width \in 0 .. Group * M
    BY <1>1, <1>4, <2>4
  <2>6. 2^Width <= 2^(Group * M)
    BY <2>4, <2>5, PowerGrows
  <2>7. 2^(Group * M) \in Nat \ {0}
    <3>1. Group * M \in 0 .. Group * Width + 1
      BY <1>1, <2>4
    <3> QED
      BY <3>1, PowerIs
  <2> QED
    BY <2>3, <2>6, <2>7, Widths
<1> QED
  BY <1>2, <1>5, <1>6 DEF M, L

\* Bytes that the reads of a form take as a whole.
Whole(form, e) ==
    CASE form \in {"uint", "int"} -> /\ Len(e) \in 1 .. MaxVarint
                                     /\ \A i \in 1 .. Len(e) - 1 : e[i] >= 2^Group
                                     /\ e[Len(e)] < 2^Group
      [] form = "fixed" -> Len(e) = WideBytes
      [] form = "byte"  -> Len(e) = 1

LEMMA TakenWhole ==
    ASSUME NEW form \in Forms, NEW e \in Seq(Byte), Whole(form, e),
           NEW s \in Seq(Byte), Len(e) <= Len(s), \A k \in 1 .. Len(e) : s[k] = e[k]
    PROVE  Taken(form, s) = Len(e)
<1>1. CASE form \in {"uint", "int"}
  <2> DEFINE P(k) == k > Len(s) \/ s[k] < 2^Group
             Q(k) == P(k) /\ \A j \in 1 .. k - 1 : s[j] >= 2^Group
             L == Len(e)
             B == 2^Group
  <2>1. L \in 1 .. MaxVarint /\ (\A i \in 1 .. L - 1 : e[i] >= B) /\ e[L] < B
    BY <1>1 DEF Whole
  <2>2. L \in Nat /\ Len(s) \in Nat /\ L <= Len(s) /\ \A k \in 1 .. L : s[k] = e[k]
    OBVIOUS
  <2>3. B \in Nat /\ MaxVarint \in Int
    BY Widths DEF MaxVarint
  <2>4. \A k \in 1 .. Len(s) : s[k] \in Int
    BY Widths DEF Byte
  <2> HIDE DEF L, B
  <2>5. s[L] < B /\ \A j \in 1 .. L - 1 : s[j] >= B
    BY <2>1, <2>2, <2>3
  <2>6. Q(L)
    BY <2>5 DEF B
  <2>7. ASSUME NEW k \in 1 .. MaxVarint, Q(k) PROVE k = L
    <3>1. (k > Len(s) \/ s[k] < B) /\ \A j \in 1 .. k - 1 : s[j] >= B
      BY <2>7 DEF B
    <3>2. ~ (k < L)
      <4> SUFFICES ASSUME k < L PROVE FALSE
        OBVIOUS
      <4>1. k \in 1 .. L - 1 /\ k \in 1 .. Len(s)
        BY <2>2, <2>3
      <4>2. s[k] >= B /\ s[k] < B
        BY <2>2, <2>5, <3>1, <4>1
      <4> QED
        BY <2>3, <2>4, <4>1, <4>2
    <3>3. ~ (L < k)
      <4> SUFFICES ASSUME L < k PROVE FALSE
        OBVIOUS
      <4>1. L \in 1 .. k - 1 /\ L \in 1 .. Len(s)
        BY <2>1, <2>2, <2>3
      <4>2. s[L] >= B /\ s[L] < B
        BY <2>5, <3>1, <4>1
      <4> QED
        BY <2>3, <2>4, <4>1, <4>2
    <3> QED
      BY <2>2, <2>3, <3>2, <3>3
  <2>8. VarintTaken(s) = CHOOSE k \in 1 .. MaxVarint : Q(k)
    <3>1. \E k \in 1 .. MaxVarint : P(k)
      BY <2>1, <2>6
    <3> QED
      BY <3>1 DEF VarintTaken
  <2> HIDE DEF Q
  <2>9. (CHOOSE k \in 1 .. MaxVarint : Q(k)) = L
    <3>1. \E k \in 1 .. MaxVarint : Q(k)
      BY <2>1, <2>6
    <3> DEFINE x == CHOOSE k \in 1 .. MaxVarint : Q(k)
    <3>2. x \in 1 .. MaxVarint /\ Q(x)
      BY <3>1, Zenon
    <3> HIDE DEF x
    <3>3. x = L
      BY <2>7, <3>2
    <3> QED
      BY <3>3 DEF x
  <2> QED
    BY <1>1, <2>8, <2>9 DEF Taken, L
<1>2. CASE form = "fixed"
  BY <1>2 DEF Whole, Taken
<1>3. CASE form = "byte"
  BY <1>3 DEF Whole, Taken
<1> QED
  BY <1>1, <1>2, <1>3 DEF Forms

LEMMA ReverseTwice ==
    ASSUME NEW B, NEW s \in Seq(B)
    PROVE  Reverse(Reverse(s)) = s
<1> DEFINE r == Reverse(s)
           t == Reverse(r)
           n == Len(s)
<1>1. n \in Nat /\ r \in Seq(B) /\ Len(r) = n
  BY ReverseIs
<1>2. \A i \in 1 .. n : r[i] = s[(n - i) + 1]
  BY DEF Reverse
<1> HIDE DEF r
<1>3. t \in Seq(B) /\ Len(t) = n /\ \A i \in 1 .. n : t[i] = r[(n - i) + 1]
  BY <1>1, ReverseIs DEF Reverse
<1> HIDE DEF t, n
<1>4. \A i \in 1 .. n : (n - i) + 1 \in 1 .. n /\ (n - ((n - i) + 1)) + 1 = i
  BY <1>1
<1>5. \A i \in 1 .. n : t[i] = s[i]
  <2> TAKE i \in 1 .. n
  <2>1. t[i] = r[(n - i) + 1]
    BY <1>3
  <2>2. r[(n - i) + 1] = s[(n - ((n - i) + 1)) + 1]
    BY <1>2, <1>4
  <2> QED
    BY <1>4, <2>1, <2>2
<1>6. t = s
  BY <1>3, <1>5, SameSeq DEF n
<1> QED
  BY <1>6 DEF t, r

\* Whatever the machine's own order is, the order of the array decides.
LEMMA FixedOrder ==
    ASSUME NEW n, NEW count, Digits(n, count) \in Seq(Byte), m_little \in BOOLEAN
    PROVE  Fixed(n, count) = IF m_little THEN Digits(n, count) ELSE Reverse(Digits(n, count))
<1>1. LittleMachine \in BOOLEAN
  BY ByteArrayAssumption
<1>2. Reverse(Reverse(Digits(n, count))) = Digits(n, count)
  BY ReverseTwice
<1> DEFINE D == Digits(n, count)
<1> HIDE DEF D
<1>3. Image(n, count) = IF LittleMachine THEN D ELSE Reverse(D)
  BY DEF Image, D
<1>4. Fixed(n, count) = IF m_little = LittleMachine THEN Image(n, count) ELSE Reverse(Image(n, count))
  BY DEF Fixed
<1>5. CASE LittleMachine
  BY <1>3, <1>4, <1>5, Zenon DEF D
<1>6. CASE ~ LittleMachine
  <2>1. Image(n, count) = Reverse(D)
    BY <1>3, <1>6
  <2>2. CASE m_little
    <3>1. m_little # LittleMachine
      BY <1>1, <1>6, <2>2
    <3>2. Fixed(n, count) = Reverse(Reverse(D))
      BY <1>4, <2>1, <3>1
    <3> QED
      BY <1>2, <2>2, <3>2 DEF D
  <2>3. CASE ~ m_little
    <3>1. m_little = LittleMachine
      BY <1>1, <1>6, <2>3
    <3> QED
      BY <1>4, <2>1, <2>3, <3>1 DEF D
  <2> QED
    BY <2>2, <2>3
<1> QED
  BY <1>5, <1>6

LEMMA WideIs ==
    Group + 1 \in Nat \ {0} /\ WideBytes \in Nat \ {0} /\ (Group + 1) * WideBytes = Width
<1> DEFINE G == Group + 1
           d == Width \div G
<1>1. G \in Nat \ {0} /\ Width \in Nat \ {0} /\ Width % G = 0
  BY Widths, ByteArrayAssumption
<1> HIDE DEF G
<1>2. d \in Nat /\ Width = G * d + (Width % G)
  BY <1>1, DivIs
<1> HIDE DEF d
<1>3. G * d \in Nat
  BY <1>1, <1>2
<1>4. Width = G * d
  BY <1>1, <1>2, <1>3
<1>5. d # 0
  BY <1>1, <1>4
<1> QED
  BY <1>1, <1>2, <1>4, <1>5 DEF WideBytes, d, G

LEMMA DigitsIs ==
    ASSUME NEW n \in 0 .. 2^Width - 1
    PROVE  /\ Fits(n, Group + 1, WideBytes)
           /\ Digits(n, WideBytes) \in Seq(Byte) /\ Len(Digits(n, WideBytes)) = WideBytes
           /\ \A i \in 1 .. WideBytes : Digits(n, WideBytes)[i] = Rest(n, Group + 1, i - 1) % 2^(Group + 1)
<1> DEFINE G == Group + 1
           N == WideBytes
           D(i) == Rest(n, G, i - 1) % 2^G
<1>1. G \in Nat \ {0} /\ N \in Nat \ {0} /\ G * N = Width
  BY WideIs
<1>2. n \in Nat /\ n < 2^Width /\ Width <= Group * Width /\ 2^G \in Nat \ {0}
  BY Widths
<1>3. Digits(n, N) = [i \in 1 .. N |-> D(i)]
  BY DEF Digits, Rest
<1>4. Byte = 0 .. 2^G - 1
  BY DEF Byte
<1> HIDE DEF G, N
<1>5. Fits(n, G, N)
  BY <1>1, <1>2 DEF Fits
<1>6. \A i \in 0 .. N : Rest(n, G, i) \in Nat
  BY <1>5, RestIs
<1>7. ASSUME NEW i \in 1 .. N PROVE D(i) \in Byte
  <2>1. i - 1 \in 0 .. N
    BY <1>1
  <2>2. Rest(n, G, i - 1) \in Int
    BY <1>6, <2>1
  <2> QED
    BY <1>2, <1>4, <2>2, ModIs
<1> HIDE DEF D
<1>8. Digits(n, N) \in Seq(Byte) /\ Len(Digits(n, N)) = N /\ \A i \in 1 .. N : Digits(n, N)[i] = D(i)
  BY <1>1, <1>3, <1>7
<1> QED
  BY <1>5, <1>8 DEF D, G, N

\* FixedDecode() of bytes in the order of a little endian machine.
LEMMA DigitsBack ==
    ASSUME NEW n \in 0 .. 2^Width - 1
    PROVE  FixedDecode(Digits(n, WideBytes), TRUE) = n
<1> DEFINE N == WideBytes
           G == Group + 1
           e == Digits(n, WideBytes)
           Eq(h) == Rounds(h, e, 2^(Group + 1), DOMAIN e)
<1>1. /\ Fits(n, G, N) /\ e \in Seq(Byte) /\ Len(e) = N
      /\ \A i \in 1 .. N : e[i] = Rest(n, G, i - 1) % 2^G
  BY DigitsIs
<1>2. N \in Nat
  BY WideIs
<1>3. FixedDecode(e, TRUE) = (CHOOSE h : Eq(h))[DOMAIN e]
  <2> HIDE DEF e
  <2> QED
    BY Zenon DEF FixedDecode, FoldRight, MapThenFoldSet, Rounds
<1> HIDE DEF e, N, G
<1>4. DOMAIN e = 1 .. N
  BY <1>1
<1>5. \E h : Eq(h)
  <2>1. \E h : Rounds(h, e, 2^(Group + 1), 1 .. N)
    BY <1>2, RoundsExist
  <2> QED
    BY <1>4, <2>1
<1> DEFINE f == CHOOSE h : Eq(h)
<1>6. Eq(f)
  <2> HIDE DEF Eq
  <2> QED
    BY <1>5, Zenon
<1> HIDE DEF f
<1>7. Rounds(f, e, 2^G, 1 .. N)
  BY <1>4, <1>6 DEF G
<1>8. f[1 .. N] = n
  BY <1>1, <1>7, FoldIs
<1> QED
  BY <1>3, <1>4, <1>8 DEF f, e

LEMMA FixedBack ==
    ASSUME NEW n \in 0 .. 2^Width - 1, m_little \in BOOLEAN
    PROVE  FixedDecode(Fixed(n, WideBytes), m_little) = n /\ Len(Fixed(n, WideBytes)) = WideBytes
<1> DEFINE D == Digits(n, WideBytes)
<1>1. D \in Seq(Byte) /\ Len(D) = WideBytes
  BY DigitsIs
<1>2. Fixed(n, WideBytes) = IF m_little THEN D ELSE Reverse(D)
  BY <1>1, FixedOrder
<1>3. FixedDecode(D, TRUE) = n
  BY DigitsBack
<1>4. Reverse(Reverse(D)) = D /\ Len(Reverse(D)) = Len(D)
  BY <1>1, ReverseTwice, ReverseIs
<1> HIDE DEF D
<1>5. CASE m_little
  <2>1. m_little = TRUE
    BY <1>5
  <2> QED
    BY <1>1, <1>2, <1>3, <2>1
<1>6. CASE ~ m_little
  <2>1. m_little = FALSE
    BY <1>6
  <2>2. FixedDecode(Reverse(D), FALSE) = FixedDecode(Reverse(Reverse(D)), TRUE)
    BY Zenon DEF FixedDecode
  <2> QED
    BY <1>1, <1>2, <1>3, <1>4, <2>1, <2>2
<1> QED
  BY <1>5, <1>6

\* The remainder of a negative number that is not below minus the divisor.
LEMMA ModBelow ==
    ASSUME NEW P \in Nat \ {0}, NEW r \in 0 .. P - 1
    PROVE  (r - P) % P = r
<1> DEFINE a == r - P
           q == a \div P
           m == a % P
<1>1. a \in Int /\ q \in Int /\ m \in 0 .. P - 1 /\ a = P * q + m
  OBVIOUS
<1>2. a = r - P
  OBVIOUS
<1> HIDE DEF a, q, m
<1>3. ~ (q >= 0)
  <2> SUFFICES ASSUME q >= 0 PROVE FALSE
    OBVIOUS
  <2>1. P * q >= 0
    BY <1>1
  <2> QED
    BY <1>1, <1>2, <2>1
<1>4. ~ (q <= -2)
  <2> SUFFICES ASSUME q <= -2 PROVE FALSE
    OBVIOUS
  <2>1. PICK e \in Nat : q = -2 - e
    <3>1. -2 - q \in Nat /\ q = -2 - (-2 - q)
      BY <1>1
    <3> QED
      BY <3>1
  <2>2. P * (-2 - e) = - (2 * P) - P * e /\ P * e \in Nat
    OBVIOUS
  <2> QED
    BY <1>1, <1>2, <2>1, <2>2
<1>5. q = -1
  BY <1>1, <1>3, <1>4
<1>6. m = r
  BY <1>1, <1>2, <1>5
<1> QED
  BY <1>6 DEF m, a

LEMMA ZigZagBack ==
    ASSUME NEW n \in 0 .. 2^Width - 1
    PROVE  ZigZagDecode(ZigZagEncode(Signed(n))) = Signed(n)
<1> DEFINE H == 2^(Width - 1)
           P == 2^Width
<1>1. H \in Nat \ {0} /\ P = 2 * H
  <2>1. Width - 1 \in 0 .. Group * Width /\ Width - 1 \in 0 .. Group * Width + 1 /\ (Width - 1) + 1 = Width
    BY Widths
  <2>2. 2^((Width - 1) + 1) = 2 * 2^(Width - 1)
    BY <2>1, PowerAssumption
  <2> QED
    BY <2>1, <2>2, PowerIs
<1>2. n \in 0 .. P - 1 /\ P \in Nat \ {0}
  BY Widths
<1>3. \A x : Signed(x) = IF x < H THEN x ELSE x - P
  BY DEF Signed
<1>4. \A x : Inverted(x) = P - 1 - x
  BY DEF Inverted
<1>5. \A z : ZigZagEncode(z) = IF z < 0 THEN Inverted((2 * z) % P) ELSE (2 * z) % P
  BY DEF ZigZagEncode
<1>6. \A x : ZigZagDecode(x) = Signed(IF x % 2 = 1 THEN Inverted(x \div 2) ELSE x \div 2)
  BY DEF ZigZagDecode
<1> HIDE DEF H, P
<1>7. CASE n < H
  <2>1. Signed(n) = n /\ ~ (n < 0) /\ 2 * n \in 0 .. P - 1
    BY <1>1, <1>2, <1>3, <1>7
  <2>2. (2 * n) % P = 2 * n
    <3> DEFINE x == 2 * n
    <3>1. x \in 0 .. P - 1
      BY <2>1
    <3> HIDE DEF x
    <3>2. (P * 0 + x) % P = x
      BY <1>2, <3>1, DivUnique
    <3>3. P * 0 + x = x
      BY <1>2, <3>1
    <3> QED
      BY <3>2, <3>3 DEF x
  <2>3. ZigZagEncode(n) = 2 * n
    BY <1>5, <2>1, <2>2
  <2>4. (2 * n) % 2 = 0 /\ (2 * n) \div 2 = n
    BY <1>2
  <2>5. ZigZagDecode(2 * n) = Signed(n)
    BY <1>6, <2>4
  <2> QED
    BY <2>1, <2>3, <2>5
<1>8. CASE ~ (n < H)
  <2> DEFINE z == n - P
             r == 2 * n - P
             y == 2 * P - 1 - 2 * n
  <2>1. Signed(n) = z /\ z < 0 /\ 2 * z = r - P /\ r \in 0 .. P - 1
    BY <1>1, <1>2, <1>3, <1>8
  <2>2. (2 * z) % P = r
    <3> HIDE DEF r, z
    <3>1. (r - P) % P = r
      BY <1>2, <2>1, ModBelow
    <3> QED
      BY <2>1, <3>1
  <2>3. ZigZagEncode(z) = P - 1 - r
    <3> HIDE DEF r, z
    <3> QED
      BY <1>4, <1>5, <2>1, <2>2
  <2>4. P - 1 - r = y
    BY <1>2
  <2>5. y % 2 = 1 /\ y \div 2 = P - 1 - n
    BY <1>2
  <2>6. Inverted(P - 1 - n) = n
    <3>1. P - 1 - (P - 1 - n) = n
      BY <1>2
    <3> QED
      BY <1>4, <3>1
  <2>7. ZigZagDecode(y) = Signed(n)
    <3> HIDE DEF y
    <3> QED
      BY <1>6, <2>5, <2>6
  <2> HIDE DEF y, r
  <2> QED
    BY <2>1, <2>3, <2>4, <2>7
<1> QED
  BY <1>7, <1>8

\* Every form, read from where it was written with the order it was written in,
\* takes its own bytes and gives the number.
Value(form, n) == IF form = "int" THEN Signed(n) ELSE n
Means(form, e, little, val) == form = "byte" \/ Decoded(form, e, little) = val

LEMMA EncodedBack ==
    ASSUME NEW form \in Forms, NEW n \in 0 .. 2^Width - 1, m_little \in BOOLEAN
    PROVE  Whole(form, Encoded(form, n)) /\ Means(form, Encoded(form, n), m_little, Value(form, n))
<1>1. ASSUME NEW x \in 0 .. 2^Width - 1, form \in {"uint", "int"}
      PROVE  Whole(form, VarintEncode(x)) /\ VarintDecode(VarintEncode(x)) = x
  <2> DEFINE e == VarintEncode(x)
  <2>1. Marked(e, x)
    BY VarintMarked
  <2>2. VarintLen(x) <= MaxVarint /\ MaxVarint \in Nat /\ VarintLen(x) \in Nat \ {0}
    BY VarintShort
  <2> HIDE DEF e
  <2>3. VarintDecode(e) = x
    BY <2>1, VarintBack
  <2>4. Len(e) \in 1 .. MaxVarint /\ (\A i \in 1 .. Len(e) - 1 : e[i] >= 2^Group) /\ e[Len(e)] < 2^Group
    BY <2>1, <2>2 DEF Marked
  <2>5. Whole(form, e)
    BY <1>1, <2>4, Zenon DEF Whole
  <2> QED
    BY <2>3, <2>5 DEF e
<1>2. CASE form = "uint"
  <2>1. Encoded(form, n) = VarintEncode(n) /\ Value(form, n) = n
    BY <1>2 DEF Encoded, Value
  <2>2. Whole(form, VarintEncode(n)) /\ VarintDecode(VarintEncode(n)) = n
    BY <1>1, <1>2
  <2>3. Decoded(form, VarintEncode(n), m_little) = VarintDecode(VarintEncode(n))
    BY <1>2 DEF Decoded
  <2> QED
    BY <2>1, <2>2, <2>3 DEF Means
<1>3. CASE form = "int"
  <2> DEFINE x == ZigZagEncode(Signed(n))
  <2>0. x \in 0 .. 2^Width - 1 /\ ZigZagDecode(x) = Signed(n)
    BY ZigZagIs, ZigZagBack
  <2>1. Encoded(form, n) = VarintEncode(x) /\ Value(form, n) = Signed(n)
    BY <1>3 DEF Encoded, Value
  <2> HIDE DEF x
  <2>2. Whole(form, VarintEncode(x)) /\ VarintDecode(VarintEncode(x)) = x
    BY <1>1, <1>3, <2>0
  <2>3. Decoded(form, VarintEncode(x), m_little) = ZigZagDecode(VarintDecode(VarintEncode(x)))
    BY <1>3 DEF Decoded
  <2> QED
    BY <2>0, <2>1, <2>2, <2>3 DEF Means
<1>4. CASE form = "fixed"
  <2> DEFINE e == Fixed(n, WideBytes)
  <2>1. FixedDecode(e, m_little) = n /\ Len(e) = WideBytes
    BY FixedBack
  <2>2. Encoded(form, n) = e /\ Value(form, n) = n
    BY <1>4 DEF Encoded, Value
  <2> HIDE DEF e
  <2>3. Whole(form, e) /\ Decoded(form, e, m_little) = FixedDecode(e, m_little)
    BY <1>4, <2>1 DEF Whole, Decoded
  <2> QED
    BY <2>1, <2>2, <2>3 DEF Means
<1>5. CASE form = "byte"
  <2> DEFINE e == Fixed(n, 1)
             D == Digits(n, 1)
  <2>1. Len(D) = 1
    BY DEF Digits
  <2>2. Len(Reverse(D)) = 1 /\ Len(Reverse(Reverse(D))) = 1
    <3> HIDE DEF D
    <3> QED
      BY <2>1 DEF Reverse
  <2> HIDE DEF D
  <2>3. e \in {D, Reverse(D), Reverse(Reverse(D))}
    BY Zenon DEF Fixed, Image, D
  <2>4. Len(e) = 1
    BY <2>1, <2>2, <2>3
  <2>5. Encoded(form, n) = e
    BY <1>5 DEF Encoded
  <2> HIDE DEF e
  <2>6. Whole(form, e)
    BY <1>5, <2>4 DEF Whole
  <2> QED
    BY <1>5, <2>5, <2>6 DEF Means
<1> QED
  BY <1>2, <1>3, <1>4, <1>5 DEF Forms

-----------------------------------------------------------------------------
(* Reading and seeking.                                                    *)

\* The bytes that can be read.
LEMMA AheadIs ==
    ASSUME CursorAgrees
    PROVE  /\ GetReadSize \in Nat /\ Ahead \in Seq(Byte) /\ Len(Ahead) = GetReadSize
           /\ \A k \in 1 .. GetReadSize : Ahead[k] = At(nodes, m_position + k - 1)
<1> DEFINE n == GetReadSize
           f == [k \in 1 .. n |-> At(nodes, m_position + k - 1)]
<1>1. nodes \in Lists /\ m_position \in Nat /\ m_data_size \in Nat /\ m_total_size \in Nat
      /\ m_total_size = m_node_size * Len(nodes) /\ m_position <= m_data_size /\ m_data_size <= m_total_size
      /\ m_cur = IF m_position = m_total_size THEN Null ELSE (m_position \div m_node_size) + 1
  BY Sizes
<1>2. n \in Nat /\ n = m_data_size - m_position
  BY <1>1 DEF GetReadSize
<1>3. Ahead = f
  <2>1. CASE m_position = m_total_size
    <3>1. n = 0
      BY <1>1, <1>2, <2>1
    <3> QED
      BY <3>1 DEF Ahead, Load
  <2>2. CASE m_position # m_total_size
    <3>1. m_cur = (m_position \div m_node_size) + 1
      BY <1>1, <2>2
    <3>2. Ahead = Load(nodes, (m_position \div m_node_size) + 1, m_position % m_node_size, n)
      BY <3>1 DEF Ahead, Offset
    <3> HIDE DEF n
    <3> QED
      BY <1>1, <1>2, <3>2, LoadIs
  <2> QED
    BY <2>1, <2>2
<1> HIDE DEF n
<1>4. \A k \in 1 .. n : At(nodes, m_position + k - 1) \in Byte
  <2> TAKE k \in 1 .. n
  <2>1. m_position + k - 1 \in Nat /\ m_position + k - 1 < m_node_size * Len(nodes)
    BY <1>1, <1>2
  <2> QED
    BY <1>1, <2>1, AtIs
<1>5. f \in Seq(Byte) /\ Len(f) = n
  BY <1>2, <1>4
<1> QED
  BY <1>2, <1>3, <1>5 DEF n

LEMMA ContentIs ==
    ASSUME CursorAgrees
    PROVE  /\ Content = Bytes(nodes, m_data_size) /\ Content \in Seq(Byte) /\ Len(Content) = m_data_size
           /\ \A k \in 1 .. m_data_size : Content[k] = At(nodes, k - 1)
<1>1. nodes \in Lists /\ Len(nodes) # 0 /\ m_data_size \in Nat /\ m_data_size <= m_node_size * Len(nodes)
  BY Sizes
<1>2. Content = Bytes(nodes, m_data_size)
  BY <1>1, ContentOf DEF Content
<1>3. Bytes(nodes, m_data_size) \in Seq(Byte) /\ Len(Bytes(nodes, m_data_size)) = m_data_size
  BY <1>1, BytesType
<1>4. \A k \in 1 .. m_data_size : Bytes(nodes, m_data_size)[k] = At(nodes, k - 1)
  BY DEF Bytes
<1> QED
  BY <1>2, <1>3, <1>4

LEMMA ContentNext ==
    ASSUME Sound'
    PROVE  /\ Content' \in Seq(Byte) /\ Len(Content') = m_data_size'
           /\ \A k \in 1 .. m_data_size' : Content'[k] = At(nodes', k - 1)
<1>1. nodes' \in Lists /\ Len(nodes') # 0 /\ m_data_size' \in Nat /\ m_data_size' <= m_node_size * Len(nodes')
  BY DEF Sound, SoundAt
<1>2. Content' = Bytes(nodes', m_data_size')
  <2>1. SubSeq(FlattenSeq(nodes'), 1, m_data_size') = Bytes(nodes', m_data_size')
    BY <1>1, ContentOf
  <2> QED
    BY <2>1 DEF Content
<1>3. Bytes(nodes', m_data_size') \in Seq(Byte) /\ Len(Bytes(nodes', m_data_size')) = m_data_size'
  BY <1>1, BytesType
<1>4. \A k \in 1 .. m_data_size' : Bytes(nodes', m_data_size')[k] = At(nodes', k - 1)
  BY DEF Bytes
<1> QED
  BY <1>2, <1>3, <1>4

LEMMA SkipIs ==
    ASSUME CursorAgrees, NEW n \in 0 .. GetReadSize, Skip(n)
    PROVE  Sound'
<1>1. nodes \in Lists /\ m_position \in Nat /\ m_data_size \in Nat /\ m_total_size \in Nat
      /\ m_total_size = m_node_size * Len(nodes) /\ m_position <= m_data_size /\ m_data_size <= m_total_size
      /\ m_cur = IF m_position = m_total_size THEN Null ELSE (m_position \div m_node_size) + 1
  BY Sizes
<1>2. n \in Nat /\ m_position + n <= m_data_size
  BY <1>1 DEF GetReadSize
<1>3. m_position' = m_position + n /\ nodes' = nodes /\ m_data_size' = m_data_size /\ m_total_size' = m_total_size
      /\ m_cur' = IF n = 0 THEN m_cur ELSE NodeOrNull(m_cur + (Offset + n) \div m_node_size, nodes)
  BY DEF Skip
<1>4. m_cur' = IF m_position' = m_total_size THEN Null ELSE (m_position' \div m_node_size) + 1
  <2>1. CASE n = 0
    BY <1>1, <1>3, <2>1
  <2>2. CASE n # 0
    <3>1. m_cur = (m_position \div m_node_size) + 1
      BY <1>1, <1>2, <2>2
    <3>2. (m_position \div m_node_size) + ((Offset + n) \div m_node_size) = (m_position + n) \div m_node_size
      BY <1>1, <1>2, NodeSize, DivAdd DEF Offset
    <3>3. m_position \div m_node_size \in Nat /\ (Offset + n) \div m_node_size \in Nat
      <4>1. m_position \div m_node_size \in Nat /\ m_position % m_node_size \in 0 .. m_node_size - 1
        BY <1>1, NodeSize, DivIs
      <4>2. Offset + n \in Nat
        BY <1>2, <4>1, NodeSize DEF Offset
      <4> QED
        BY <4>1, <4>2, NodeSize, DivIs
    <3>4. m_cur + (Offset + n) \div m_node_size = ((m_position + n) \div m_node_size) + 1
      BY <3>1, <3>2, <3>3
    <3>5. m_cur' = NodeOrNull(((m_position + n) \div m_node_size) + 1, nodes)
      BY <1>3, <2>2, <3>4
    <3>6. m_position + n \in Nat /\ m_position + n <= m_node_size * Len(nodes)
      BY <1>1, <1>2
    <3> QED
      BY <1>1, <1>3, <3>5, <3>6, NodeAt
  <2> QED
    BY <2>1, <2>2
<1> QED
  BY <1>1, <1>2, <1>3, <1>4, Sizes DEF Sound, SoundAt

LEMMA SeekIs ==
    ASSUME CursorAgrees, NEW pos \in Nat, pos <= m_total_size, Seek(pos)
    PROVE  Sound'
<1>1. nodes \in Lists /\ m_data_size \in Nat /\ m_total_size \in Nat
      /\ m_total_size = m_node_size * Len(nodes) /\ m_data_size <= m_total_size
  BY Sizes
<1>2. m_position' = pos /\ nodes' = nodes /\ m_data_size' = Larger(m_data_size, pos) /\ m_total_size' = m_total_size
      /\ m_cur' = NodeOrNull((pos \div m_node_size) + 1, nodes)
  BY DEF Seek
<1>3. m_cur' = IF pos = m_total_size THEN Null ELSE (pos \div m_node_size) + 1
  BY <1>1, <1>2, NodeAt
<1>4. m_data_size' \in Nat /\ pos <= m_data_size' /\ m_data_size' <= m_total_size
  BY <1>1, <1>2 DEF Larger
<1> QED
  BY <1>1, <1>2, <1>3, <1>4, Sizes DEF Sound, SoundAt

LEMMA ClearIs ==
    ASSUME CursorAgrees, Clear
    PROVE  Sound'
<1>1. nodes \in Lists /\ Len(nodes) \in 1 .. MaxNodes /\ MaxNodes \in Nat
  BY Sizes
<1>2. SubSeq(nodes, 1, 1) \in Lists /\ Len(SubSeq(nodes, 1, 1)) = 1
  <2> DEFINE N == [1 .. m_node_size -> Byte]
  <2>1. nodes \in Seq(N)
    BY <1>1 DEF Lists
  <2> HIDE DEF N
  <2>2. SubSeq(nodes, 1, 1) \in Seq(N) /\ Len(SubSeq(nodes, 1, 1)) = 1
    BY <1>1, <2>1, SubIs
  <2> QED
    BY <2>2 DEF Lists, N
<1>3. 0 \div m_node_size = 0 /\ m_node_size * 1 = m_node_size
  <2>1. (m_node_size * 0 + 0) \div m_node_size = 0
    BY NodeSize, DivUnique
  <2> QED
    BY <2>1, NodeSize
<1>4. nodes' = SubSeq(nodes, 1, 1) /\ m_cur' = 1 /\ m_position' = 0 /\ m_data_size' = 0 /\ m_total_size' = m_node_size
  BY DEF Clear
<1> QED
  BY <1>1, <1>2, <1>3, <1>4, NodeSize DEF Sound, SoundAt

LEMMA ReserveIs ==
    ASSUME CursorAgrees, NEW size \in Nat \ {0}, Reserve(size)
    PROVE  Sound' /\ \A q \in 0 .. m_data_size - 1 : At(nodes', q) = At(nodes, q)
<1>1. PICK j \in Fresh : /\ AddTotalSize(size, j)
                         /\ nodes' = Grown(size, j) /\ m_cur' = CurGrown(size)
                         /\ m_position' = m_position /\ m_data_size' = m_data_size
  BY DEF Reserve
<1>2. nodes \in Lists /\ Len(nodes) \in 1 .. MaxNodes /\ MaxNodes \in Nat
      /\ m_position \in Nat /\ m_data_size \in Nat /\ m_total_size \in Nat
      /\ m_total_size = m_node_size * Len(nodes) /\ m_position <= m_data_size /\ m_data_size <= m_total_size
  BY Sizes
<1>3. NewNodes(size) \in Nat /\ m_position + size <= m_total_size + m_node_size * NewNodes(size)
  BY NewNodesIs
<1>4. nodes' \in Lists /\ Len(nodes') = Len(nodes) + NewNodes(size)
      /\ m_total_size + m_node_size * NewNodes(size) = m_node_size * Len(nodes')
      /\ \A q \in 0 .. m_total_size - 1 : At(nodes', q) = At(nodes, q)
  BY <1>1, GrownIs
<1>5. m_total_size' = m_node_size * Len(nodes') /\ Len(nodes') \in 1 .. MaxNodes
  BY <1>1, <1>2, <1>3, <1>4 DEF AddTotalSize
<1>6. m_node_size * NewNodes(size) \in Nat
  BY <1>3, NodeSize
<1>7. m_total_size' \in Nat /\ m_total_size <= m_total_size' /\ m_position < m_total_size'
  BY <1>2, <1>3, <1>4, <1>5, <1>6
<1>8. m_cur' = (m_position \div m_node_size) + 1
  BY <1>1, CurGrownIs
<1>9. Sound'
  BY <1>1, <1>2, <1>4, <1>5, <1>7, <1>8 DEF Sound, SoundAt
<1> QED
  BY <1>2, <1>4, <1>9

-----------------------------------------------------------------------------
(* The calls, as steps of the plain buffer.                                *)

LEMMA PutStep ==
    ASSUME CursorAgrees, NEW s \in Seq(Byte), Sound', Puts(s), ret' = s
    PROVE  Flat!Put
<1> DEFINE c == Content
           d == Content'
           n == Len(s)
           p == m_position
<1>1. c \in Seq(Byte) /\ Len(c) = m_data_size /\ (\A k \in 1 .. m_data_size : c[k] = At(nodes, k - 1))
      /\ p \in Nat /\ m_data_size \in Nat /\ p <= m_data_size
  BY ContentIs, Sizes
<1>2. d \in Seq(Byte) /\ Len(d) = m_data_size' /\ (\A k \in 1 .. m_data_size' : d[k] = At(nodes', k - 1))
  BY ContentNext
<1>3. m_position' = p + n /\ m_data_size' = Larger(m_data_size, p + n) /\ n \in Nat
      /\ (\A q \in 0 .. m_data_size' - 1 : At(nodes', q) = IF q \in p .. p + n - 1 THEN s[q - p + 1] ELSE At(nodes, q))
  BY DEF Puts
<1> HIDE DEF c, d, n, p
<1>4. m_data_size' \in Nat /\ p + n <= m_data_size' /\ (m_data_size' > p + n => m_data_size' = m_data_size)
  BY <1>1, <1>3 DEF Larger
<1>5. ASSUME NEW k \in 1 .. Len(d), k <= p \/ k > p + n PROVE d[k] = c[k]
  <2>1. k - 1 \in 0 .. m_data_size' - 1 /\ k \in 1 .. m_data_size /\ k - 1 \notin p .. p + n - 1
    BY <1>1, <1>2, <1>3, <1>4, <1>5
  <2> QED
    BY <1>1, <1>2, <1>3, <2>1
<1>6. d = SubSeq(c, 1, p) \o SubSeq(d, p + 1, p + n) \o SubSeq(c, p + n + 1, Len(c))
  <2>1. \A k \in 1 .. Len(d) : k <= p \/ k > p + n => d[k] = c[k]
    BY <1>5
  <2>2. p <= Len(c) /\ Len(d) = Larger(Len(c), p + n)
    BY <1>1, <1>2, <1>3
  <2> QED
    BY <1>1, <1>2, <1>3, <2>1, <2>2, SpliceIs
<1>7. SubSeq(d, p + 1, p + n) = s
  <2>1. SubSeq(d, p + 1, p + n) \in Seq(Byte) /\ Len(SubSeq(d, p + 1, p + n)) = n
        /\ \A k \in 1 .. n : SubSeq(d, p + 1, p + n)[k] = d[p + k]
    <3>1. p \in Nat /\ n \in Nat /\ p + n <= Len(d)
      BY <1>1, <1>2, <1>3, <1>4
    <3> QED
      BY <1>2, <3>1, PartIs
  <2>2. ASSUME NEW k \in 1 .. n PROVE d[p + k] = s[k]
    <3>1. p + k \in 1 .. m_data_size' /\ (p + k) - 1 \in 0 .. m_data_size' - 1 /\ (p + k) - 1 \in p .. p + n - 1
          /\ ((p + k) - 1) - p + 1 = k
      BY <1>1, <1>3, <1>4
    <3> QED
      BY <1>2, <1>3, <3>1
  <2>3. Len(s) = n
    BY DEF n
  <2> QED
    BY <2>1, <2>2, <2>3, SameSeq
<1>8. n \in 0 .. m_position' - p /\ n = m_position' - p
  BY <1>1, <1>3
<1> QED
  BY <1>6, <1>7, <1>8 DEF Flat!Put, c, d, p

LEMMA SameContent ==
    ASSUME CursorAgrees, Sound', m_data_size' = m_data_size,
           \A q \in 0 .. m_data_size - 1 : At(nodes', q) = At(nodes, q)
    PROVE  Content' = Content
<1>1. Content \in Seq(Byte) /\ Len(Content) = m_data_size /\ \A k \in 1 .. m_data_size : Content[k] = At(nodes, k - 1)
  BY ContentIs
<1>2. Content' \in Seq(Byte) /\ Len(Content') = m_data_size /\ \A k \in 1 .. m_data_size : Content'[k] = At(nodes', k - 1)
  BY ContentNext
<1>3. m_data_size \in Nat
  BY Sizes
<1>4. \A k \in 1 .. m_data_size : k - 1 \in 0 .. m_data_size - 1
  BY <1>3
<1> QED
  BY <1>1, <1>2, <1>4, SameSeq

LEMMA TakeStep ==
    ASSUME CursorAgrees, NEW n \in 0 .. GetReadSize, Skip(n), ret' = SubSeq(Ahead, 1, n)
    PROVE  Flat!Take /\ ret' \in Seq(Byte)
<1> DEFINE c == Content
           p == m_position
<1>1. c \in Seq(Byte) /\ Len(c) = m_data_size /\ (\A k \in 1 .. m_data_size : c[k] = At(nodes, k - 1))
      /\ p \in Nat /\ m_data_size \in Nat /\ p <= m_data_size
  BY ContentIs, Sizes
<1>2. n \in Nat /\ p + n <= m_data_size /\ n <= GetReadSize
  BY <1>1 DEF GetReadSize
<1>3. GetReadSize \in Nat /\ Ahead \in Seq(Byte) /\ Len(Ahead) = GetReadSize
      /\ \A k \in 1 .. GetReadSize : Ahead[k] = At(nodes, p + k - 1)
  BY AheadIs
<1>4. m_position' = p + n /\ c' = c
  BY DEF Skip, Content
<1> HIDE DEF c, p
<1>5. ret' \in Seq(Byte) /\ Len(ret') = n /\ \A k \in 1 .. n : ret'[k] = Ahead[k]
  BY <1>2, <1>3, SubIs
<1>6. SubSeq(c, p + 1, p + n) \in Seq(Byte) /\ Len(SubSeq(c, p + 1, p + n)) = n
      /\ \A k \in 1 .. n : SubSeq(c, p + 1, p + n)[k] = c[p + k]
  <2>1. c \in Seq(Byte) /\ p \in Nat /\ n \in Nat /\ p + n <= Len(c)
    BY <1>1, <1>2
  <2> QED
    BY <2>1, PartIs
<1>7. ASSUME NEW k \in 1 .. n PROVE ret'[k] = c[p + k]
  <2>1. k \in 1 .. GetReadSize /\ p + k \in 1 .. m_data_size /\ (p + k) - 1 = p + k - 1
    BY <1>1, <1>2, <1>3
  <2> QED
    BY <1>1, <1>3, <1>5, <2>1
<1>8. ret' = SubSeq(c, p + 1, p + n)
  BY <1>5, <1>6, <1>7, SameSeq
<1>9. m_position' \in p .. Len(c)
  BY <1>1, <1>2, <1>4
<1> QED
  BY <1>4, <1>5, <1>8, <1>9 DEF Flat!Take, c, p

LEMMA FailStep ==
    ASSUME CursorAgrees, ret' = Throw,
           UNCHANGED arrayVars \/ \E n \in 0 .. GetReadSize : Skip(n)
    PROVE  Flat!Fail /\ Sound'
<1>1. Len(Content) = m_data_size /\ m_position \in Nat /\ m_data_size \in Nat /\ m_position <= m_data_size
  BY ContentIs, Sizes
<1>2. Sound
  BY CursorIsSound
<1>3. CASE UNCHANGED arrayVars
  <2>1. nodes' = nodes /\ m_cur' = m_cur /\ m_position' = m_position /\ m_data_size' = m_data_size /\ m_total_size' = m_total_size
    BY <1>3 DEF arrayVars
  <2>2. m_position' \in m_position .. Len(Content)
    BY <1>1, <2>1
  <2>3. Content' = Content
    BY <2>1 DEF Content
  <2>4. Sound'
    BY <1>2, <2>1 DEF Sound
  <2> QED
    BY <2>2, <2>3, <2>4 DEF Flat!Fail, Throw, Flat!Throw
<1>4. ASSUME NEW n \in 0 .. GetReadSize, Skip(n) PROVE Flat!Fail /\ Sound'
  <2>1. m_position' \in m_position .. Len(Content)
    BY <1>1, <1>4 DEF Skip, GetReadSize
  <2>2. Content' = Content
    BY <1>4 DEF Skip, Content
  <2>3. Sound'
    BY <1>4, SkipIs
  <2> QED
    BY <2>1, <2>2, <2>3 DEF Flat!Fail, Throw, Flat!Throw
<1> QED
  BY <1>3, <1>4

LEMMA RestStep ==
    ASSUME CursorAgrees, Content' = Content, m_position' = m_position, ret' = <<>>
    PROVE  Flat!Take
<1>1. Content \in Seq(Byte) /\ Len(Content) = m_data_size /\ m_position \in Nat /\ m_data_size \in Nat /\ m_position <= m_data_size
  BY ContentIs, Sizes
<1>2. m_position' \in m_position .. Len(Content)
  BY <1>1
<1>3. SubSeq(Content, m_position + 1, m_position) = <<>>
  <2>1. m_position + 1 \in Nat \ {0} /\ m_position < m_position + 1
    BY <1>1
  <2> QED
    BY <1>1, <2>1, SubEmpty
<1> QED
  BY <1>2, <1>3 DEF Flat!Take

LEMMA SeekStep ==
    ASSUME CursorAgrees, NEW pos \in Nat, pos <= m_total_size, Seek(pos), ret' = <<>>
    PROVE  Flat!Seek
<1> DEFINE c == Content
           d == Content'
<1>1. c \in Seq(Byte) /\ Len(c) = m_data_size /\ (\A k \in 1 .. m_data_size : c[k] = At(nodes, k - 1)) /\ m_data_size \in Nat
  BY ContentIs, Sizes
<1>2. Sound'
  BY SeekIs
<1>3. d \in Seq(Byte) /\ Len(d) = m_data_size' /\ (\A k \in 1 .. m_data_size' : d[k] = At(nodes', k - 1))
  BY <1>2, ContentNext
<1>4. m_position' = pos /\ nodes' = nodes /\ m_data_size' = Larger(m_data_size, pos)
  BY DEF Seek
<1> HIDE DEF c, d
<1>5. m_data_size' = IF m_position' > Len(c) THEN m_position' ELSE Len(c)
  BY <1>1, <1>4 DEF Larger
<1>6. m_data_size <= m_data_size' /\ m_data_size' \in Nat
  BY <1>1, <1>4 DEF Larger
<1>7. SubSeq(d, 1, Len(c)) = c
  <2>1. SubSeq(d, 1, m_data_size) \in Seq(Byte) /\ Len(SubSeq(d, 1, m_data_size)) = m_data_size
        /\ \A k \in 1 .. m_data_size : SubSeq(d, 1, m_data_size)[k] = d[k]
    BY <1>1, <1>3, <1>6, SubIs
  <2>2. \A k \in 1 .. m_data_size : d[k] = c[k]
    BY <1>1, <1>3, <1>4, <1>6
  <2> QED
    BY <1>1, <2>1, <2>2, SameSeq
<1> QED
  BY <1>3, <1>4, <1>5, <1>7 DEF Flat!Seek, c, d

LEMMA DropStep ==
    ASSUME CursorAgrees, Clear
    PROVE  Flat!Drop
<1>1. Sound' /\ m_data_size' = 0 /\ m_position' = 0 /\ ret' = <<>>
  BY ClearIs DEF Clear
<1>2. Content' \in Seq(Byte) /\ Len(Content') = 0
  BY <1>1, ContentNext
<1>3. Content' = <<>>
  BY <1>2
<1> QED
  BY <1>1, <1>3 DEF Flat!Drop

-----------------------------------------------------------------------------
(* The two theorems.                                                       *)

\* What each call has to show: the list stays sound, and the buffer steps.
Goes == Sound' /\ Flat!Next /\ ret' \in Seq(Byte) \cup {Throw}

LEMMA WriteStep ==
    ASSUME CursorAgrees, NEW s \in Seq(Byte), Write(s)
    PROVE  Goes
<1>1. Sound' /\ Puts(s) /\ ret' = s
  BY WriteIs
<1>2. Flat!Put
  BY <1>1, PutStep
<1> QED
  BY <1>1, <1>2 DEF Goes, Flat!Next

LEMMA ThrowStep ==
    ASSUME CursorAgrees, ret' = Throw, UNCHANGED arrayVars \/ \E n \in 0 .. GetReadSize : Skip(n)
    PROVE  Goes
<1>1. Flat!Fail /\ Sound'
  BY FailStep
<1> QED
  BY <1>1 DEF Goes, Flat!Next

LEMMA ReadStep ==
    ASSUME CursorAgrees, NEW n \in Nat, Read(n)
    PROVE  Goes
<1>1. CASE n > GetReadSize
  BY <1>1, ThrowStep DEF Read
<1>2. CASE ~ (n > GetReadSize)
  <2>1. n \in 0 .. GetReadSize /\ Skip(n) /\ ret' = SubSeq(Ahead, 1, n)
    BY <1>2, AheadIs DEF Read
  <2>2. Sound' /\ Flat!Take /\ ret' \in Seq(Byte)
    BY <2>1, SkipIs, TakeStep
  <2> QED
    BY <2>2 DEF Goes, Flat!Next
<1> QED
  BY <1>1, <1>2

LEMMA NumberStep ==
    ASSUME CursorAgrees, NEW form \in Forms, ReadNumber(form)
    PROVE  Goes
<1> DEFINE n == Taken(form, Ahead)
<1>1. GetReadSize \in Nat /\ n \in Nat
  BY AheadIs, TakenIs
<1>2. IF n <= GetReadSize THEN Read(n) ELSE ret' = Throw /\ Skip(IF form = "fixed" THEN 0 ELSE GetReadSize)
  BY DEF ReadNumber
<1> HIDE DEF n
<1>3. CASE n <= GetReadSize
  BY <1>1, <1>2, <1>3, ReadStep
<1>4. CASE ~ (n <= GetReadSize)
  <2>1. ret' = Throw /\ Skip(IF form = "fixed" THEN 0 ELSE GetReadSize)
    BY <1>2, <1>4
  <2>2. (IF form = "fixed" THEN 0 ELSE GetReadSize) \in 0 .. GetReadSize
    BY <1>1
  <2> QED
    BY <2>1, <2>2, ThrowStep
<1> QED
  BY <1>3, <1>4

LEMMA StringStep ==
    ASSUME CursorAgrees, NEW form \in Lengths, ReadString(form)
    PROVE  Goes
<1>a. form \in Forms
  BY DEF Forms, Lengths
<1>b. SUFFICES ASSUME ~ ReadNumber(form) PROVE Goes
  BY <1>a, NumberStep
<1> DEFINE n == Taken(form, Ahead)
<1>1. GetReadSize \in Nat /\ n \in Nat
  BY <1>a, AheadIs, TakenIs
<1>2. n <= GetReadSize
  BY <1>b DEF ReadString
<1>3. PICK size \in 0 .. 2^Width - 1 :
          IF n + size <= GetReadSize THEN Read(n + size) ELSE ret' = Throw /\ Skip(n)
  BY <1>b DEF ReadString
<1> HIDE DEF n
<1>4. size \in Nat
  BY Widths
<1>5. CASE n + size <= GetReadSize
  <2>1. n + size \in Nat
    BY <1>1, <1>4
  <2> QED
    BY <1>3, <1>5, <2>1, ReadStep
<1>6. CASE ~ (n + size <= GetReadSize)
  <2>1. n \in 0 .. GetReadSize /\ ret' = Throw /\ Skip(n)
    BY <1>1, <1>2, <1>3, <1>6
  <2> QED
    BY <2>1, ThrowStep
<1> QED
  BY <1>5, <1>6

LEMMA PositionStep ==
    ASSUME CursorAgrees, NEW pos \in Nat, SetPosition(pos)
    PROVE  Goes
<1>1. CASE pos > m_total_size
  BY <1>1, ThrowStep DEF SetPosition
<1>2. CASE ~ (pos > m_total_size)
  <2>1. pos <= m_total_size /\ ret' = <<>> /\ Seek(pos)
    BY <1>2, Sizes DEF SetPosition
  <2>2. Sound' /\ Flat!Seek
    BY <2>1, SeekIs, SeekStep
  <2>3. ret' \in Seq(Byte)
    BY <2>1
  <2> QED
    BY <2>2, <2>3 DEF Goes, Flat!Next
<1> QED
  BY <1>1, <1>2

LEMMA ReserveStep ==
    ASSUME CursorAgrees, NEW size \in Nat \ {0}, Reserve(size)
    PROVE  Goes
<1>1. Sound' /\ \A q \in 0 .. m_data_size - 1 : At(nodes', q) = At(nodes, q)
  BY ReserveIs
<1>2. m_position' = m_position /\ m_data_size' = m_data_size /\ ret' = <<>>
  BY DEF Reserve
<1>3. Content' = Content
  BY <1>1, <1>2, SameContent
<1>4. Flat!Take
  BY <1>2, <1>3, RestStep
<1>5. ret' \in Seq(Byte)
  BY <1>2
<1> QED
  BY <1>1, <1>4, <1>5 DEF Goes, Flat!Next

LEMMA ClearStep ==
    ASSUME CursorAgrees, Clear
    PROVE  Goes
<1>1. Sound' /\ Flat!Drop
  BY ClearIs, DropStep
<1>2. ret' \in Seq(Byte)
  BY DEF Clear
<1> QED
  BY <1>1, <1>2 DEF Goes, Flat!Next

LEMMA EndianStep ==
    ASSUME CursorAgrees, NEW b \in BOOLEAN, SetLittleEndian(b)
    PROVE  Goes
<1>1. nodes' = nodes /\ m_cur' = m_cur /\ m_position' = m_position /\ m_data_size' = m_data_size
      /\ m_total_size' = m_total_size /\ ret' = <<>>
  BY DEF SetLittleEndian, arrayVars
<1>2. Sound'
  BY <1>1, CursorIsSound DEF Sound
<1>3. Content' = Content
  BY <1>1 DEF Content
<1>4. Flat!Take
  BY <1>1, <1>3, RestStep
<1>5. ret' \in Seq(Byte)
  BY <1>1
<1> QED
  BY <1>2, <1>4, <1>5 DEF Goes, Flat!Next

LEMMA CallStep ==
    ASSUME CursorAgrees, Call
    PROVE  Goes /\ m_little' \in BOOLEAN
<1>0. m_little \in BOOLEAN /\ m_total_size \in Nat
  BY DEF CursorAgrees, TypeOK
<1>1. ASSUME NEW form \in Forms, NEW n \in Numbers, WriteNumber(form, n)
      PROVE  Goes /\ m_little' \in BOOLEAN
  <2>1. Encoded(form, n) \in Seq(Byte)
    BY ByteArrayAssumption, EncodedIs
  <2> QED
    BY <1>0, <1>1, <2>1, WriteStep DEF WriteNumber
<1>2. ASSUME NEW form \in Lengths, NEW s \in Strings, WriteString(form, s)
      PROVE  Goes /\ m_little' \in BOOLEAN
  <2>1. s \in Seq(Byte) /\ Len(s) < 2^Width /\ form \in Forms
    BY StringAssumption DEF Forms, Lengths
  <2>2. Len(s) \in 0 .. 2^Width - 1
    BY <2>1, Widths
  <2>3. Encoded(form, Len(s)) \in Seq(Byte)
    BY <2>1, <2>2, EncodedIs
  <2>4. Encoded(form, Len(s)) \o s \in Seq(Byte)
    BY <2>1, <2>3
  <2> QED
    BY <1>0, <1>2, <2>4, WriteStep DEF WriteString
<1>3. ASSUME NEW s \in Strings, WriteRaw(s) PROVE Goes /\ m_little' \in BOOLEAN
  <2>1. s \in Seq(Byte)
    BY StringAssumption
  <2> QED
    BY <1>0, <1>3, <2>1, WriteStep DEF WriteRaw
<1>4. ASSUME NEW n \in 1 .. m_total_size, ReadRaw(n) PROVE Goes /\ m_little' \in BOOLEAN
  <2>1. n \in Nat
    BY <1>0
  <2> QED
    BY <1>0, <1>4, <2>1, ReadStep DEF ReadRaw
<1>5. ASSUME NEW form \in Forms, ReadNumber(form) PROVE Goes /\ m_little' \in BOOLEAN
  <2>1. m_little' = m_little
    BY <1>5 DEF ReadNumber
  <2> QED
    BY <1>0, <1>5, <2>1, NumberStep
<1>6. ASSUME NEW form \in Lengths, ReadString(form) PROVE Goes /\ m_little' \in BOOLEAN
  <2>1. m_little' = m_little
    BY <1>6 DEF ReadString, ReadNumber
  <2> QED
    BY <1>0, <1>6, <2>1, StringStep
<1>7. ASSUME NEW pos \in 0 .. m_total_size + 1, SetPosition(pos) PROVE Goes /\ m_little' \in BOOLEAN
  <2>1. pos \in Nat /\ m_little' = m_little
    BY <1>0, <1>7 DEF SetPosition
  <2> QED
    BY <1>0, <1>7, <2>1, PositionStep
<1>8. ASSUME Clear PROVE Goes /\ m_little' \in BOOLEAN
  <2>1. m_little' = m_little
    BY <1>8 DEF Clear
  <2> QED
    BY <1>0, <1>8, <2>1, ClearStep
<1>9. ASSUME NEW size \in 1 .. m_node_size + 1, GetWriteBuffers(size) PROVE Goes /\ m_little' \in BOOLEAN
  <2>1. size \in Nat \ {0} /\ m_little' = m_little /\ Reserve(size)
    BY <1>9, NodeSize DEF GetWriteBuffers
  <2> QED
    BY <1>0, <2>1, ReserveStep
<1>10. ASSUME NEW b \in BOOLEAN, SetLittleEndian(b) PROVE Goes /\ m_little' \in BOOLEAN
  <2>1. m_little' = b
    BY <1>10 DEF SetLittleEndian
  <2> QED
    BY <1>10, <2>1, EndianStep
<1> QED
  BY <1>1, <1>2, <1>3, <1>4, <1>5, <1>6, <1>7, <1>8, <1>9, <1>10 DEF Call

LEMMA InitIs == Init => CursorAgrees /\ Flat!Init
<1> SUFFICES ASSUME Init PROVE CursorAgrees /\ Flat!Init
  OBVIOUS
<1>1. PICK j \in Fresh : nodes = <<NewNode(j)>>
  BY DEF Init
<1>2. m_cur = 1 /\ m_position = 0 /\ m_data_size = 0 /\ m_total_size = m_node_size
      /\ m_little = FALSE /\ ret = <<>> /\ calls = 0
  BY DEF Init
<1>3. NewNode(j) \in [1 .. m_node_size -> Byte]
  BY StringAssumption DEF NewNode
<1>4. nodes \in Lists /\ Len(nodes) = 1
  <2> DEFINE N == [1 .. m_node_size -> Byte]
             v == NewNode(j)
  <2>1. v \in N /\ nodes = <<v>>
    BY <1>1, <1>3
  <2> HIDE DEF N, v
  <2>2. nodes \in Seq(N) /\ Len(nodes) = 1
    BY <2>1
  <2> QED
    BY <2>2 DEF Lists, N
<1>5. 0 \div m_node_size = 0 /\ m_node_size * 1 = m_node_size
  <2>1. (m_node_size * 0 + 0) \div m_node_size = 0
    BY NodeSize, DivUnique
  <2> QED
    BY <2>1, NodeSize
<1>6. MaxNodes \in Nat \ {0} /\ MaxCalls \in Nat
  BY ByteArrayAssumption
<1>7. Sound
  BY <1>2, <1>4, <1>5, <1>6, NodeSize DEF Sound, SoundAt
<1>8. m_little \in BOOLEAN /\ calls \in 0 .. MaxCalls /\ ret \in Seq(Byte) \cup {Throw}
  <2>1. m_little \in BOOLEAN
    BY <1>2
  <2>2. calls \in 0 .. MaxCalls
    BY <1>2, <1>6
  <2>3. ret \in Seq(Byte)
    BY <1>2
  <2> QED
    BY <2>1, <2>2, <2>3
<1>9. CursorAgrees
  BY <1>7, <1>8, SoundIsCursor
<1>10. Content \in Seq(Byte) /\ Len(Content) = 0
  BY <1>2, <1>9, ContentIs
<1>11. Content = <<>>
  BY <1>10
<1> QED
  BY <1>2, <1>9, <1>11 DEF Flat!Init

\* SoundIsCursor, of the state after a step.
LEMMA SoundNext ==
    ASSUME Sound', m_little' \in BOOLEAN, calls' \in 0 .. MaxCalls, ret' \in Seq(Byte) \cup {Throw}
    PROVE  CursorAgrees'
<1>1. nodes' \in Lists /\ Len(nodes') \in 1 .. MaxNodes /\ m_position' \in Nat /\ m_data_size' \in Nat
      /\ m_total_size' \in Nat /\ m_total_size' = m_node_size * Len(nodes')
      /\ m_position' <= m_data_size' /\ m_data_size' <= m_total_size'
      /\ m_cur' = IF m_position' = m_total_size' THEN Null ELSE (m_position' \div m_node_size) + 1
  BY DEF Sound, SoundAt
<1>2. m_cur' \in {Null} \cup 1 .. MaxNodes
  BY CursorIn DEF Sound
<1> QED
  BY <1>1, <1>2 DEF CursorAgrees, TypeOK, Lists

LEMMA NextIs ==
    ASSUME CursorAgrees, [Next]_vars
    PROVE  CursorAgrees' /\ [Flat!Next]_(Flat!vars)
<1>1. CASE Next
  <2>1. Goes /\ m_little' \in BOOLEAN
    BY <1>1, CallStep DEF Next
  <2>2. calls' \in 0 .. MaxCalls
    <3>1. calls \in 0 .. MaxCalls /\ MaxCalls \in Nat
      BY ByteArrayAssumption DEF CursorAgrees, TypeOK
    <3>2. calls < MaxCalls /\ calls' = calls + 1
      BY <1>1 DEF Next
    <3> QED
      BY <3>1, <3>2
  <2>3. CursorAgrees'
    BY <2>1, <2>2, SoundNext DEF Goes
  <2> QED
    BY <2>1, <2>3 DEF Goes
<1>2. CASE UNCHANGED vars
  <2>1. nodes' = nodes /\ m_cur' = m_cur /\ m_position' = m_position /\ m_data_size' = m_data_size
        /\ m_total_size' = m_total_size /\ m_little' = m_little /\ ret' = ret /\ calls' = calls
    BY <1>2 DEF vars, arrayVars
  <2>2. CursorAgrees'
    BY <2>1 DEF CursorAgrees, TypeOK
  <2>3. UNCHANGED Flat!vars
    BY <2>1 DEF Flat!vars, Content
  <2> QED
    BY <2>2, <2>3
<1> QED
  BY <1>1, <1>2

\* However long the nodes are and whatever is called in whatever order, the
\* three sizes stay in order and the cursor is the node of the position, null
\* exactly behind the last byte: no write, read, seek or growth of
\* serializer.cpp leaves the pair of m_position and m_cur pointing at two
\* different places.
THEOREM CursorStays == Spec => []CursorAgrees
<1>1. Init => CursorAgrees
  BY InitIs
<1>2. CursorAgrees /\ [Next]_vars => CursorAgrees'
  BY NextIs
<1> QED
  BY <1>1, <1>2, PTL DEF Spec

\* The list of nodes implements the plain buffer: for every size of node, every
\* string, number and width, each call of serializer.cpp is one step on one
\* string of bytes, and where a node ends shows in none of them.
THEOREM BufferKept == Spec => IsBuffer
<1>1. Init => Flat!Init
  BY InitIs
<1>2. CursorAgrees /\ [Next]_vars => [Flat!Next]_(Flat!vars)
  BY NextIs
<1> QED
  BY <1>1, <1>2, CursorStays, PTL DEF Spec, IsBuffer, Flat!Spec

-----------------------------------------------------------------------------
(* The buffers of the nodes, put together, are the bytes at the position.  *)

\* The number of buffers, where the i-th begins in its node and in the block,
\* and how many bytes it has.
Pieces(off, len) == ((off + len - 1) \div m_node_size) + 1
From(off, i) == IF i = 1 THEN off ELSE 0
Done(off, i) == IF i = 1 THEN 0 ELSE i * m_node_size - m_node_size - off
Size(off, len, i) ==
    IF m_node_size - From(off, i) >= len - Done(off, i) THEN len - Done(off, i)
    ELSE m_node_size - From(off, i)

\* A buffer ends where the next one begins, the last one at the end.
LEMMA SizeIs ==
    ASSUME NEW off \in 0 .. m_node_size - 1, NEW len \in Nat \ {0}, NEW i \in 1 .. Pieces(off, len)
    PROVE  /\ Pieces(off, len) \in Nat \ {0}
           /\ Done(off, i) \in Nat /\ Size(off, len, i) \in Nat
           /\ From(off, i) \in Nat /\ From(off, i) + Size(off, len, i) <= m_node_size
           /\ Done(off, i) + Size(off, len, i) <= len
           /\ i = Pieces(off, len) => Done(off, i) + Size(off, len, i) = len
           /\ i # Pieces(off, len) => Done(off, i + 1) = Done(off, i) + Size(off, len, i)
<1> DEFINE S == m_node_size
           x == off + len - 1
           m == x \div S
           r == x % S
<1>1. S \in Nat \ {0} /\ x \in Nat /\ off \in Nat /\ off < S
  BY NodeSize
<1>2. m \in Nat /\ r \in 0 .. S - 1 /\ x = S * m + r
  <2> HIDE DEF x
  <2> QED
    BY <1>1, DivIs
<1>3. x = off + len - 1 /\ Pieces(off, len) = m + 1
  BY DEF Pieces
<1> HIDE DEF S, x, m, r
<1>4. S * m \in Nat /\ S * m <= off + len - 1 /\ off + len <= S * m + S
  BY <1>1, <1>2, <1>3
<1>5. i \in Nat \ {0} /\ i <= m + 1 /\ m + 1 \in Nat \ {0}
  BY <1>2, <1>3
<1>6. CASE i = 1
  <2>1. Done(off, i) = 0 /\ From(off, i) = off /\ Size(off, len, i) = IF S - off >= len - 0 THEN len - 0 ELSE S - off
    BY <1>6 DEF Done, From, Size, S
  <2>2. Done(off, i + 1) = S - off
    <3>1. i + 1 = 2 /\ 2 * S - S - off = S - off
      BY <1>1, <1>6
    <3> QED
      BY <3>1 DEF Done, S
  <2>3. i = m + 1 => S - off >= len
    <3>1. i = m + 1 => S * m = 0
      BY <1>1, <1>2, <1>6
    <3> QED
      BY <1>1, <1>4, <3>1
  <2>4. i # m + 1 => ~ (S - off >= len)
    <3>1. i # m + 1 => m >= 1
      BY <1>2, <1>6
    <3>2. i # m + 1 => S <= S * m
      <4>1. ASSUME m >= 1 PROVE S <= S * m
        <5>1. S * 0 + S <= S * m
          BY <1>1, <1>2, <4>1, MulLess
        <5> QED
          BY <1>1, <5>1
      <4> QED
        BY <3>1, <4>1
    <3> QED
      BY <1>1, <1>4, <3>2
  <2> QED
    BY <1>1, <1>3, <1>5, <2>1, <2>2, <2>3, <2>4 DEF S
<1>7. CASE i # 1
  <2> DEFINE d == S * (i - 1)
  <2>1. d \in Nat /\ i * S = d + S /\ (i + 1) * S = d + S + S /\ S <= d
    <3>1. i - 1 \in Nat /\ 0 < i - 1
      BY <1>5, <1>7
    <3>2. S * 0 + S <= S * (i - 1)
      BY <1>1, <3>1, MulLess
    <3> QED
      BY <1>1, <1>5, <3>1, <3>2
  <2>2. i # m + 1 => d + S <= S * m
    <3>1. i - 1 \in Nat /\ (i # m + 1 => i - 1 < m)
      BY <1>2, <1>5
    <3>2. ASSUME i - 1 < m PROVE S * (i - 1) + S <= S * m
      BY <1>1, <1>2, <3>1, <3>2, MulLess
    <3> QED
      BY <3>1, <3>2
  <2>3. i = m + 1 => d = S * m
    BY <1>2
  <2> HIDE DEF d
  <2>4. Done(off, i) = d - off /\ Done(off, i + 1) = d + S - off /\ From(off, i) = 0
    <3>1. i + 1 # 1
      BY <1>5
    <3>2. Done(off, i) = i * S - S - off /\ Done(off, i + 1) = (i + 1) * S - S - off /\ From(off, i) = 0
      BY <1>7, <3>1 DEF Done, From, S
    <3> QED
      BY <1>1, <2>1, <3>2
  <2>5. Size(off, len, i) = IF S - 0 >= len - (d - off) THEN len - (d - off) ELSE S - 0
    BY <2>4 DEF Size, S
  <2>6. d <= S * m
    BY <1>1, <1>4, <2>1, <2>2, <2>3
  <2> QED
    BY <1>1, <1>3, <1>4, <1>5, <2>1, <2>2, <2>3, <2>4, <2>5, <2>6 DEF S
<1> QED
  BY <1>6, <1>7

\* The first n bytes at the position.
Coming(n) == [k \in 1 .. n |-> At(nodes, m_position + k - 1)]

LEMMA ComingIs ==
    ASSUME CursorAgrees, NEW n \in 0 .. GetReadSize
    PROVE  Coming(n) \in Seq(Byte) /\ Len(Coming(n)) = n /\ n \in Nat
<1>1. nodes \in Lists /\ m_position \in Nat /\ m_data_size \in Nat /\ m_total_size \in Nat
      /\ m_total_size = m_node_size * Len(nodes) /\ m_position <= m_data_size /\ m_data_size <= m_total_size
  BY Sizes
<1>2. n \in Nat /\ m_position + n <= m_total_size
  BY <1>1 DEF GetReadSize
<1>3. \A k \in 1 .. n : At(nodes, m_position + k - 1) \in Byte
  <2> TAKE k \in 1 .. n
  <2>1. m_position + k - 1 \in Nat /\ m_position + k - 1 < m_node_size * Len(nodes)
    BY <1>1, <1>2
  <2> QED
    BY <1>1, <2>1, AtIs
<1> QED
  BY <1>2, <1>3 DEF Coming

\* One buffer: the bytes of its node that belong to the block.
LEMMA PieceIs ==
    ASSUME CursorAgrees, NEW len \in 1 .. GetReadSize, NEW i \in 1 .. Pieces(Offset, len)
    PROVE  LET piece == SubSeq(nodes[m_cur + i - 1], From(Offset, i) + 1, From(Offset, i) + Size(Offset, len, i)) IN
           /\ piece \in Seq(Byte) /\ Len(piece) = Size(Offset, len, i)
           /\ \A k \in 1 .. Size(Offset, len, i) : piece[k] = At(nodes, m_position + (Done(Offset, i) + k) - 1)
<1> DEFINE S == m_node_size
           p == m_position
           c == p \div S
           f == From(Offset, i)
           z == Size(Offset, len, i)
           d == Done(Offset, i)
           v == nodes[m_cur + i - 1]
<1>0. nodes \in Lists /\ Len(nodes) \in Nat /\ p \in Nat /\ m_data_size \in Nat /\ m_total_size \in Nat
      /\ m_total_size = S * Len(nodes) /\ p <= m_data_size /\ m_data_size <= m_total_size
      /\ m_cur = IF p = m_total_size THEN Null ELSE (p \div S) + 1
  BY Sizes
<1>1. len \in Nat \ {0} /\ p + len <= m_total_size
  BY <1>0 DEF GetReadSize
<1>2. S \in Nat \ {0} /\ c \in Nat /\ Offset \in 0 .. S - 1 /\ p = S * c + Offset
  BY <1>0, NodeSize, DivIs DEF Offset
<1>3. m_cur = c + 1
  BY <1>0, <1>1
<1>4. d \in Nat /\ z \in Nat /\ f \in Nat /\ f + z <= S /\ Pieces(Offset, len) \in Nat
  BY <1>1, <1>2, SizeIs
<1>5. S * (c + (i - 1)) + f = p + d
  <2>1. S * (c + (i - 1)) = S * c + S * (i - 1) /\ S * c \in Nat /\ S * (i - 1) \in Int /\ i * S = S * (i - 1) + S
    BY <1>2, <1>4
  <2>2. CASE i = 1
    <3>1. S * (i - 1) = 0 /\ f = Offset /\ d = 0
      BY <1>2, <2>2 DEF From, Done
    <3> QED
      BY <1>2, <2>1, <3>1
  <2>3. CASE i # 1
    <3>1. f = 0 /\ d = i * S - S - Offset
      BY <2>3 DEF From, Done
    <3> HIDE DEF f, d
    <3> QED
      BY <1>2, <2>1, <3>1
  <2> QED
    BY <2>2, <2>3
<1> HIDE DEF p, c, f, z, d
<1>6. m_cur + i - 1 \in 1 .. Len(nodes)
  <2>1. (p \div S) + ((Offset + (len - 1)) \div S) = (p + (len - 1)) \div S
    <3>1. len - 1 \in Nat /\ Offset = p % S
      BY <1>1 DEF Offset, p
    <3>2. (p \div S) + (((p % S) + (len - 1)) \div S) = (p + (len - 1)) \div S
      BY <1>0, <1>2, <3>1, DivAdd
    <3> QED
      BY <3>1, <3>2, Zenon
  <2>2. p + (len - 1) \in Nat /\ p + (len - 1) < S * Len(nodes)
    BY <1>0, <1>1
  <2>3. (p + (len - 1)) \div S \in Nat /\ (p + (len - 1)) \div S < Len(nodes)
    BY <1>0, <1>2, <2>2, DivIs, DivLess
  <2>4. i <= ((Offset + (len - 1)) \div S) + 1
    <3>1. Offset + len - 1 = Offset + (len - 1)
      BY <1>1, <1>2
    <3>2. Pieces(Offset, len) = ((Offset + (len - 1)) \div S) + 1
      BY <3>1 DEF Pieces
    <3> QED
      BY <1>4, <3>2
  <2>5. (Offset + (len - 1)) \div S \in Nat
    <3>1. Offset + (len - 1) \in Nat
      BY <1>1, <1>2
    <3> QED
      BY <1>2, <3>1, DivIs
  <2> DEFINE x == (Offset + (len - 1)) \div S
             y == (p + (len - 1)) \div S
  <2>6. x \in Nat /\ y \in Nat /\ c + x = y /\ y < Len(nodes) /\ i <= x + 1 /\ i \in Nat \ {0}
    BY <1>4, <2>1, <2>3, <2>4, <2>5 DEF c
  <2>7. c \in Nat /\ Len(nodes) \in Nat
    BY <1>0, <1>2
  <2> HIDE DEF x, y
  <2>8. (c + 1) + i - 1 \in 1 .. Len(nodes)
    BY <2>6, <2>7
  <2> QED
    BY <1>3, <2>8
<1>7. v \in [1 .. S -> Byte] /\ v \in Seq(Byte) /\ Len(v) = S
  <2>1. v \in [1 .. S -> Byte]
    BY <1>0, <1>6 DEF Lists
  <2> HIDE DEF v
  <2> QED
    BY <1>2, <2>1
<1>8. ASSUME NEW k \in 1 .. z PROVE v[f + k] = At(nodes, p + (d + k) - 1)
  <2>1. f + k \in 1 .. S /\ m_cur + i - 1 \in Nat \ {0}
    BY <1>0, <1>2, <1>4, <1>6
  <2>2. At(nodes, S * ((m_cur + i - 1) - 1) + (f + k) - 1) = v[f + k]
    BY <2>1, AtCell
  <2>3. (m_cur + i - 1) - 1 = c + (i - 1)
    BY <1>2, <1>3, <1>4
  <2>4. S * (c + (i - 1)) \in Int
    BY <1>2, <1>4
  <2> DEFINE y == S * (c + (i - 1))
  <2>5. S * (c + (i - 1)) + (f + k) - 1 = p + (d + k) - 1
    <3>1. y \in Int /\ y + f = p + d /\ k \in Nat
      BY <1>4, <1>5, <2>4
    <3> HIDE DEF y
    <3>2. y + (f + k) - 1 = p + (d + k) - 1
      BY <1>0, <1>4, <3>1
    <3> QED
      BY <3>2 DEF y
  <2> QED
    BY <2>2, <2>3, <2>5
<1>9. SubSeq(v, f + 1, f + z) \in Seq(Byte) /\ Len(SubSeq(v, f + 1, f + z)) = z
      /\ \A k \in 1 .. z : SubSeq(v, f + 1, f + z)[k] = v[f + k]
  <2>1. f \in Nat /\ z \in Nat /\ f + z <= Len(v)
    BY <1>4, <1>7
  <2> HIDE DEF v
  <2> QED
    BY <1>7, <2>1, PartIs
<1> QED
  BY <1>8, <1>9 DEF v, f, z, d, p

LEMMA BlockIs ==
    ASSUME CursorAgrees, NEW len \in 1 .. GetReadSize
    PROVE  BytesOf(Buffers(m_cur, Offset, len)) = Coming(len)
<1> DEFINE M == Pieces(Offset, len)
           d(i) == Done(Offset, i)
           z(i) == Size(Offset, len, i)
           e(i) == d(i) + z(i)
           Q(i) == SubSeq(nodes[m_cur + i - 1], From(Offset, i) + 1, From(Offset, i) + z(i))
           seqs == [i \in 1 .. M |-> Q(i)]
           g == [i \in 1 .. M |-> Coming(e(i))]
<1>0. GetReadSize \in Nat /\ len \in Nat \ {0} /\ m_position \in Nat
  BY AheadIs, Sizes
<1>1. Offset \in 0 .. m_node_size - 1
  BY <1>0, NodeSize, DivIs DEF Offset
<1>2. M \in Nat \ {0}
  <2> DEFINE x == Offset + len - 1
  <2>1. x \in Nat
    BY <1>0, <1>1, NodeSize
  <2> HIDE DEF x
  <2>2. x \div m_node_size \in Nat
    BY <2>1, NodeSize, DivIs
  <2> QED
    BY <2>2 DEF Pieces, x
<1>3. \A i \in 1 .. M : /\ d(i) \in Nat /\ z(i) \in Nat /\ e(i) <= len
                        /\ (i = M => e(i) = len) /\ (i # M => d(i + 1) = e(i))
  BY <1>0, <1>1, SizeIs
<1>4. \A i \in 1 .. M : /\ Q(i) \in Seq(Byte) /\ Len(Q(i)) = z(i)
                        /\ \A k \in 1 .. z(i) : Q(i)[k] = At(nodes, m_position + (d(i) + k) - 1)
  BY PieceIs
<1>5. BytesOf(Buffers(m_cur, Offset, len)) = FlattenSeq(seqs)
  <2> DEFINE B == Buffers(m_cur, Offset, len)
  <2>1. B = [i \in 1 .. M |-> [node |-> m_cur + i - 1, from |-> From(Offset, i), len |-> z(i)]]
    BY <1>0 DEF Buffers, Pieces, Size, From, Done
  <2> HIDE DEF B, M
  <2>2. Len(B) = M
    BY <1>2, <2>1
  <2>3. \A i \in 1 .. M : B[i].node = m_cur + i - 1 /\ B[i].from = From(Offset, i) /\ B[i].len = z(i)
    BY <2>1
  <2>4. [i \in 1 .. Len(B) |-> SubSeq(nodes[B[i].node], B[i].from + 1, B[i].from + B[i].len)] = seqs
    BY <2>2, <2>3
  <2> QED
    BY <2>4 DEF BytesOf, B
<1>6. d(1) = 0
  BY DEF Done
<1> HIDE DEF M, d, z, Q
<1>7. \A i \in 1 .. M : e(i) \in 0 .. GetReadSize
  BY <1>0, <1>3
<1>8. \A i \in 1 .. M : Coming(e(i)) \in Seq(Byte) /\ Len(Coming(e(i))) = e(i)
  BY <1>7, ComingIs
<1>9. ASSUME NEW i \in 1 .. M, NEW k \in 1 .. z(i) PROVE Coming(e(i))[d(i) + k] = Q(i)[k]
  <2>1. d(i) + k \in 1 .. e(i)
    BY <1>3
  <2>2. Coming(e(i))[d(i) + k] = At(nodes, m_position + (d(i) + k) - 1)
    BY <2>1 DEF Coming
  <2> QED
    BY <1>4, <2>2
<1>10. Coming(e(1)) = Q(1)
  <2>1. 1 \in 1 .. M /\ z(1) \in Nat
    BY <1>2, <1>3
  <2>2. e(1) = z(1)
    BY <1>6, <2>1
  <2>3. \A k \in 1 .. z(1) : Coming(e(1))[k] = Q(1)[k]
    <3> TAKE k \in 1 .. z(1)
    <3>1. Coming(e(1))[d(1) + k] = Q(1)[k]
      BY <1>9, <2>1
    <3>2. d(1) + k = k
      BY <1>6
    <3> QED
      BY <3>1, <3>2
  <2> HIDE DEF e
  <2> QED
    BY <1>4, <1>8, <2>1, <2>2, <2>3, SameSeq
<1>11. ASSUME NEW i \in 2 .. M PROVE Coming(e(i)) = Coming(e(i - 1)) \o Q(i)
  <2>1. i \in 1 .. M /\ i - 1 \in 1 .. M /\ i - 1 # M /\ (i - 1) + 1 = i
    BY <1>2
  <2>2. d(i) = e(i - 1) /\ d(i) \in Nat /\ z(i) \in Nat
    BY <1>3, <2>1
  <2> DEFINE a == Coming(e(i - 1))
             b == Q(i)
             w == Coming(e(i))
  <2>3. a \in Seq(Byte) /\ Len(a) = d(i) /\ b \in Seq(Byte) /\ Len(b) = z(i) /\ w \in Seq(Byte) /\ Len(w) = d(i) + z(i)
    BY <1>4, <1>8, <2>1, <2>2
  <2>4. \A k \in 1 .. d(i) : w[k] = a[k]
    BY <2>2 DEF Coming
  <2>5. \A k \in 1 .. z(i) : w[d(i) + k] = b[k]
    BY <1>9, <2>1
  <2> HIDE DEF a, b, w
  <2>6. w = a \o b
    <3>1. Len(w) = Len(a) + Len(b) /\ (\A k \in 1 .. Len(a) : w[k] = a[k])
          /\ (\A k \in 1 .. Len(b) : w[Len(a) + k] = b[k])
      BY <2>3, <2>4, <2>5
    <3> QED
      BY <2>3, <3>1, ConcatIs
  <2> QED
    BY <2>6 DEF a, b, w
<1>12. Joins(seqs, g, M, Seq(Byte))
  <2>1. Len(seqs) = M
    BY <1>2
  <2>2. g \in [1 .. M -> Seq(Byte)]
    BY <1>8
  <2>3. 1 \in 1 .. M
    BY <1>2
  <2>4. g[1] = seqs[1]
    BY <1>10, <2>3
  <2>5. ASSUME NEW i \in 2 .. M PROVE g[i] = g[i - 1] \o seqs[i]
    <3>1. i \in 1 .. M /\ i - 1 \in 1 .. M
      BY <1>2
    <3>2. g[i] = Coming(e(i)) /\ g[i - 1] = Coming(e(i - 1)) /\ seqs[i] = Q(i)
      BY <3>1
    <3> QED
      BY <1>11, <3>2
  <2> HIDE DEF g, seqs
  <2> QED
    BY <1>2, <2>1, <2>2, <2>4, <2>5 DEF Joins
<1>13. FlattenSeq(seqs) = g[M]
  <2> HIDE DEF g, seqs
  <2> QED
    BY <1>12, FlattenIs
<1>14. M \in 1 .. M /\ e(M) = len
  BY <1>2, <1>3
<1>15. g[M] = Coming(len)
  BY <1>14
<1> QED
  BY <1>5, <1>13, <1>15

-----------------------------------------------------------------------------
(* The blocks.                                                             *)

Jobs == [kind : {"none", "read", "write"}, memory : BOOLEAN, start : Nat, len : Nat, left : Nat,
         moved : Seq(Byte), state : {"idle", "run", "done", "failed"}]

\* What was moved is what the array has from the start of the block on.
Points ==
    /\ m_position = job.start + Len(job.moved)
    /\ \A k \in 1 .. Len(job.moved) : job.moved[k] = At(nodes, job.start + k - 1)

\* The strengthening of TransferExact: the same of every byte, with what the
\* loops of readF() and writeF() know of the bytes that are left.
Counts ==
    /\ Len(job.moved) = job.len - job.left
    /\ job.state = "run" => job.kind # "none" /\ job.left # 0
    /\ job.state = "done" => job.left = 0
JobInv ==
    /\ job \in Jobs /\ received \in 0 .. Len(Peer)
    /\ Counts
    /\ job.kind # "none" /\ ~ job.memory => Points

LEMMA NoJobIs == NoJob \in Jobs /\ NoJob.kind = "none" /\ NoJob.state = "idle" /\ Len(NoJob.moved) = NoJob.len - NoJob.left
<1>1. <<>> \in Seq(Byte)
  OBVIOUS
<1> QED
  BY <1>1 DEF NoJob, Jobs

LEMMA JobFields ==
    ASSUME JobInv
    PROVE  /\ job.kind \in {"none", "read", "write"} /\ job.memory \in BOOLEAN
           /\ job.start \in Nat /\ job.len \in Nat /\ job.left \in Nat /\ job.moved \in Seq(Byte)
           /\ job.state \in {"idle", "run", "done", "failed"}
           /\ Len(job.moved) = job.len - job.left
BY DEF JobInv, Jobs, Counts

LEMMA MovedIs ==
    ASSUME JobInv, NEW s \in Seq(Byte), Len(s) \in 1 .. job.left, job.state = "run", Moved(s)
    PROVE  /\ job' \in Jobs /\ Counts'
           /\ job'.moved = job.moved \o s /\ job'.start = job.start /\ job'.memory = job.memory /\ job'.kind = job.kind
<1>1. job \in Jobs /\ job.left \in Nat /\ job.len \in Nat /\ job.moved \in Seq(Byte) /\ Len(job.moved) = job.len - job.left
      /\ Len(s) \in Nat /\ job.kind # "none"
  BY JobFields DEF JobInv, Counts
<1>2. job.left - Len(s) \in Nat /\ job.moved \o s \in Seq(Byte) /\ Len(job.moved \o s) = job.len - (job.left - Len(s))
  <2>1. job.left - Len(s) \in Nat
    BY <1>1
  <2> DEFINE m == job.moved
  <2>2. m \in Seq(Byte) /\ Len(m) = job.len - job.left
    BY <1>1
  <2> HIDE DEF m
  <2>3. m \o s \in Seq(Byte) /\ Len(m \o s) = Len(m) + Len(s)
    BY <2>2
  <2> QED
    BY <1>1, <2>1, <2>2, <2>3 DEF m
<1>3. job' = [job EXCEPT !.left = job.left - Len(s), !.moved = job.moved \o s,
                         !.state = IF job.left = Len(s) THEN "done" ELSE "run"]
  BY DEF Moved
<1>4. job' \in Jobs /\ job'.left = job.left - Len(s) /\ job'.moved = job.moved \o s /\ job'.len = job.len
      /\ job'.start = job.start /\ job'.memory = job.memory /\ job'.kind = job.kind
      /\ job'.state = IF job.left = Len(s) THEN "done" ELSE "run"
  <2> DEFINE a == job.left - Len(s)
             b == job.moved \o s
             c == IF job.left = Len(s) THEN "done" ELSE "run"
  <2>1. a \in Nat /\ b \in Seq(Byte) /\ c \in {"idle", "run", "done", "failed"}
    BY <1>2
  <2>2. job' = [job EXCEPT !.left = a, !.moved = b, !.state = c]
    BY <1>3
  <2> HIDE DEF a, b, c
  <2>3. job' \in Jobs /\ job'.left = a /\ job'.moved = b /\ job'.len = job.len
        /\ job'.start = job.start /\ job'.memory = job.memory /\ job'.kind = job.kind /\ job'.state = c
    BY <1>1, <2>1, <2>2 DEF Jobs
  <2> QED
    BY <2>3 DEF a, b, c
<1>5. Len(job'.moved) = job'.len - job'.left
  BY <1>2, <1>4
<1>6. job'.state = "run" => job'.left # 0
  BY <1>1, <1>4
<1>7. job'.state = "done" => job'.left = 0
  BY <1>1, <1>4
<1>8. job'.kind # "none"
  BY <1>1, <1>4
<1> QED
  BY <1>4, <1>5, <1>6, <1>7, <1>8 DEF Counts

\* The bytes s are added to a block at the position.
LEMMA PointsIs ==
    ASSUME JobInv, Points, NEW s \in Seq(Byte), job'.moved = job.moved \o s, job'.start = job.start,
           m_position' = m_position + Len(s),
           \A q \in 0 .. m_position - 1 : At(nodes', q) = At(nodes, q),
           \A k \in 1 .. Len(s) : At(nodes', m_position + k - 1) = s[k]
    PROVE  Points'
<1> DEFINE m == job.moved
           b == job.start
           w == job.moved \o s
<1>1. m \in Seq(Byte) /\ b \in Nat /\ Len(m) \in Nat /\ Len(s) \in Nat
  BY JobFields
<1>2. m_position = b + Len(m) /\ \A k \in 1 .. Len(m) : m[k] = At(nodes, b + k - 1)
  BY DEF Points
<1> HIDE DEF m, b
<1>3. Len(w) = Len(m) + Len(s) /\ (\A k \in 1 .. Len(m) : w[k] = m[k]) /\ \A k \in 1 .. Len(s) : w[Len(m) + k] = s[k]
  <2>1. w = m \o s
    BY DEF m
  <2> HIDE DEF w
  <2> QED
    BY <1>1, <2>1
<1> HIDE DEF w
<1>4. ASSUME NEW k \in 1 .. Len(w) PROVE w[k] = At(nodes', b + k - 1)
  <2>1. CASE k <= Len(m)
    <3>1. k \in 1 .. Len(m) /\ b + k - 1 \in 0 .. m_position - 1
      BY <1>1, <1>2, <2>1
    <3> QED
      BY <1>2, <1>3, <3>1
  <2>2. CASE k > Len(m)
    <3>1. k - Len(m) \in 1 .. Len(s) /\ Len(m) + (k - Len(m)) = k /\ m_position + (k - Len(m)) - 1 = b + k - 1
      BY <1>1, <1>2, <1>3, <2>2
    <3>2. w[Len(m) + (k - Len(m))] = s[k - Len(m)] /\ At(nodes', m_position + (k - Len(m)) - 1) = s[k - Len(m)]
      BY <1>3, <3>1
    <3> QED
      BY <3>1, <3>2
  <2> QED
    BY <1>1, <2>1, <2>2
<1>5. m_position' = b + Len(w)
  BY <1>1, <1>2, <1>3
<1>6. job'.moved = w /\ job'.start = b
  BY DEF w, b
<1> QED
  BY <1>4, <1>5, <1>6 DEF Points

\* A block begins.
LEMMA BeginIs ==
    ASSUME CursorAgrees, JobInv, NEW kind \in {"read", "write"}, NEW memory \in BOOLEAN, NEW len \in Nat,
           Begin(kind, memory, len)
    PROVE  JobInv'
<1> DEFINE c == IF len = 0 THEN "done" ELSE "run"
<1>1. m_position \in Nat /\ <<>> \in Seq(Byte) /\ c \in {"idle", "run", "done", "failed"}
  BY Sizes
<1>2. job' = [kind |-> kind, memory |-> memory, start |-> m_position, len |-> len, left |-> len,
              moved |-> <<>>, state |-> c]
      /\ m_position' = m_position /\ received' = received
  BY DEF Begin, arrayVars
<1> HIDE DEF c
<1>3. job' \in Jobs /\ job'.kind = kind /\ job'.start = m_position /\ job'.len = len /\ job'.left = len
      /\ job'.moved = <<>> /\ job'.state = c
  BY <1>1, <1>2 DEF Jobs
<1>4. Counts'
  <2>1. Len(job'.moved) = job'.len - job'.left
    BY <1>3
  <2>2. job'.state = "run" => job'.left # 0
    BY <1>3 DEF c
  <2>3. job'.state = "done" => job'.left = 0
    BY <1>3 DEF c
  <2>4. job'.kind # "none"
    BY <1>3
  <2> QED
    BY <2>1, <2>2, <2>3, <2>4 DEF Counts
<1>5. Points'
  <2>1. m_position' = job'.start + Len(job'.moved)
    BY <1>1, <1>2, <1>3
  <2>2. \A k \in 1 .. Len(job'.moved) : FALSE
    BY <1>3
  <2> QED
    BY <2>1, <2>2 DEF Points
<1> QED
  BY <1>2, <1>3, <1>4, <1>5 DEF JobInv

LEMMA DataIs ==
    ASSUME JobInv, NEW n \in 1 .. Smaller(job.left, Len(Peer) - received)
    PROVE  /\ Data(n) \in Seq(Byte) /\ Len(Data(n)) = n /\ n \in 1 .. job.left
           /\ received + n \in 0 .. Len(Peer)
<1>1. Peer \in Seq(Byte) /\ received \in 0 .. Len(Peer) /\ job.left \in Nat /\ Len(Peer) \in Nat
  BY JobFields, StreamAssumption DEF JobInv
<1>2. n \in Nat \ {0} /\ n <= job.left /\ n <= Len(Peer) - received
  BY <1>1 DEF Smaller
<1>3. received + 1 \in Nat \ {0} /\ received + n \in Nat /\ received + 1 <= (received + n) + 1
      /\ received + n <= Len(Peer) /\ (received + n) - (received + 1) + 1 = n
  BY <1>1, <1>2
<1>4. Data(n) \in Seq(Byte) /\ Len(Data(n)) = n
  BY <1>1, <1>3, SubIs DEF Data
<1> QED
  BY <1>1, <1>2, <1>3, <1>4

-----------------------------------------------------------------------------
(* The steps of the stream.                                                *)

\* What each step has to show.
Does == CursorAgrees' /\ JobInv' /\ [Flat!Next]_(Flat!vars)

\* The array is as it was.
LEMMA StillIs ==
    ASSUME CursorAgrees, UNCHANGED arrayVars, UNCHANGED <<m_little, ret>>, calls' \in 0 .. MaxCalls
    PROVE  /\ CursorAgrees' /\ UNCHANGED Flat!vars /\ nodes' = nodes /\ m_position' = m_position
<1>1. nodes' = nodes /\ m_cur' = m_cur /\ m_position' = m_position /\ m_data_size' = m_data_size
      /\ m_total_size' = m_total_size /\ m_little' = m_little /\ ret' = ret
  BY DEF arrayVars
<1>2. CursorAgrees'
  BY <1>1 DEF CursorAgrees, TypeOK
<1>3. UNCHANGED Flat!vars
  BY <1>1 DEF Flat!vars, Content
<1> QED
  BY <1>1, <1>2, <1>3

LEMMA LoopIs ==
    ASSUME CursorAgrees, Goes, UNCHANGED <<calls, last, m_little>>
    PROVE  CursorAgrees' /\ [Flat!Next]_(Flat!vars)
<1>1. m_little \in BOOLEAN /\ calls \in 0 .. MaxCalls
  BY DEF CursorAgrees, TypeOK
<1>2. m_little' \in BOOLEAN /\ calls' \in 0 .. MaxCalls
  BY <1>1
<1>3. CursorAgrees'
  BY <1>2, SoundNext DEF Goes
<1> QED
  BY <1>3 DEF Goes

LEMMA ReadRoundDoes ==
    ASSUME CursorAgrees, JobInv, NEW n \in Nat, ReadRound(n)
    PROVE  Does
<1> DEFINE s == Data(n)
<1>1. /\ job.state = "run" /\ job.kind = "read" /\ UNCHANGED <<calls, last, m_little>> /\ ~ job.memory
      /\ n \in 1 .. Smaller(job.left, Len(Peer) - received)
      /\ m_position' = m_position + n /\ m_data_size' = Larger(m_data_size, m_position + n)
      /\ Moved(s) /\ ret' = s /\ received' = received + n
  BY DEF ReadRound, InLoop
<1>2. PICK j \in Fresh : /\ AddTotalSize(job.left, j)
                         /\ nodes' = Store(Grown(job.left, j), CurGrown(job.left), Offset, s)
                         /\ m_cur' = NodeOrNull(((m_position + n) \div m_node_size) + 1, Grown(job.left, j))
  BY DEF ReadRound
<1>3. s \in Seq(Byte) /\ Len(s) = n /\ n \in 1 .. job.left /\ received + n \in 0 .. Len(Peer)
  BY <1>1, DataIs
<1>4. job.left \in Nat /\ s # <<>> /\ Len(s) <= job.left
  BY <1>3, JobFields
<1> HIDE DEF s
<1>5. Sound' /\ Puts(s)
  BY <1>1, <1>2, <1>3, <1>4, PutIs
<1>6. Flat!Put
  BY <1>1, <1>3, <1>5, PutStep
<1>7. CursorAgrees' /\ [Flat!Next]_(Flat!vars)
  <2>1. Goes
    BY <1>1, <1>3, <1>5, <1>6 DEF Goes, Flat!Next
  <2> QED
    BY <1>1, <2>1, LoopIs
<1>8. /\ job' \in Jobs /\ Counts'
      /\ job'.moved = job.moved \o s /\ job'.start = job.start /\ job'.memory = job.memory /\ job'.kind = job.kind
  BY <1>1, <1>3, MovedIs
<1>9. Points'
  <2>0. Len(s) = n
    BY <1>3
  <2>1. Points
    BY <1>1 DEF JobInv
  <2>2. m_position \in Nat /\ m_data_size \in Nat /\ m_position <= m_data_size /\ m_data_size' \in Nat
        /\ m_position + n <= m_data_size' /\ m_data_size <= m_data_size'
    BY <1>1, <1>3, Sizes DEF Larger
  <2>3. \A q \in 0 .. m_data_size' - 1 :
            At(nodes', q) = IF q \in m_position .. m_position + n - 1 THEN s[q - m_position + 1] ELSE At(nodes, q)
    BY <1>5, <2>0 DEF Puts
  <2> DEFINE a == m_position
             z == m_data_size'
  <2>a. a \in Nat /\ z \in Nat /\ a + n <= z
    BY <2>2
  <2> HIDE DEF a, z
  <2>4. ASSUME NEW q \in 0 .. m_position - 1 PROVE At(nodes', q) = At(nodes, q)
    <3>1. q \in 0 .. z - 1 /\ q \notin a .. a + n - 1
      BY <2>a DEF a
    <3> QED
      BY <2>3, <3>1 DEF a, z
  <2>5. ASSUME NEW k \in 1 .. n PROVE At(nodes', m_position + k - 1) = s[k]
    <3>1. a + k - 1 \in 0 .. z - 1 /\ a + k - 1 \in a .. a + n - 1 /\ (a + k - 1) - a + 1 = k
      BY <2>a
    <3> QED
      BY <2>3, <3>1 DEF a, z
  <2> QED
    BY <1>1, <1>3, <1>8, <2>0, <2>1, <2>4, <2>5, PointsIs
<1>10. JobInv'
  BY <1>1, <1>3, <1>8, <1>9 DEF JobInv
<1> QED
  BY <1>7, <1>10 DEF Does

LEMMA ReadMemoryDoes ==
    ASSUME CursorAgrees, JobInv, NEW n \in Nat, ReadMemory(n)
    PROVE  Does
<1> DEFINE s == Data(n)
<1>1. /\ job.state = "run" /\ UNCHANGED <<calls, last, m_little>> /\ job.memory
      /\ n \in 1 .. Smaller(job.left, Len(Peer) - received)
      /\ Moved(s) /\ received' = received + n /\ UNCHANGED arrayVars /\ ret' = ret
  BY DEF ReadMemory, InLoop
<1>2. s \in Seq(Byte) /\ Len(s) = n /\ n \in 1 .. job.left /\ received + n \in 0 .. Len(Peer)
  BY <1>1, DataIs
<1> HIDE DEF s
<1>3. job' \in Jobs /\ Counts' /\ job'.memory = job.memory
  BY <1>1, <1>2, MovedIs
<1>4. JobInv'
  BY <1>1, <1>2, <1>3 DEF JobInv
<1>5. CursorAgrees' /\ UNCHANGED Flat!vars
  <2>1. calls' \in 0 .. MaxCalls
    BY <1>1 DEF CursorAgrees, TypeOK
  <2> QED
    BY <1>1, <2>1, StillIs
<1> QED
  BY <1>4, <1>5 DEF Does

\* setPosition() within the data moves the cursor as a read does.
LEMMA SeekSkips ==
    ASSUME CursorAgrees, NEW n \in 1 .. GetReadSize, Seek(m_position + n)
    PROVE  Skip(n)
<1>1. m_position \in Nat /\ m_data_size \in Nat /\ m_total_size \in Nat /\ m_position <= m_data_size /\ m_data_size <= m_total_size
      /\ m_cur = IF m_position = m_total_size THEN Null ELSE (m_position \div m_node_size) + 1
  BY Sizes
<1>2. n \in Nat /\ n # 0 /\ m_position + n <= m_data_size
  BY <1>1 DEF GetReadSize
<1>3. m_cur = (m_position \div m_node_size) + 1
  BY <1>1, <1>2
<1>4. (m_position \div m_node_size) + ((Offset + n) \div m_node_size) = (m_position + n) \div m_node_size
  BY <1>1, <1>2, NodeSize, DivAdd DEF Offset
<1>5. m_position \div m_node_size \in Nat /\ (Offset + n) \div m_node_size \in Nat
  <2>1. m_position \div m_node_size \in Nat /\ m_position % m_node_size \in 0 .. m_node_size - 1
    BY <1>1, NodeSize, DivIs
  <2>2. Offset + n \in Nat
    BY <1>2, <2>1, NodeSize DEF Offset
  <2> QED
    BY <2>1, <2>2, NodeSize, DivIs
<1>6. m_cur + (Offset + n) \div m_node_size = ((m_position + n) \div m_node_size) + 1
  BY <1>3, <1>4, <1>5
<1>7. m_position' = m_position + n /\ m_cur' = NodeOrNull(((m_position + n) \div m_node_size) + 1, nodes)
      /\ m_data_size' = Larger(m_data_size, m_position + n) /\ UNCHANGED <<nodes, m_total_size>>
  BY DEF Seek
<1>8. m_data_size' = m_data_size
  BY <1>1, <1>2, <1>7 DEF Larger
<1>9. m_cur' = NodeOrNull(m_cur + (Offset + n) \div m_node_size, nodes)
  BY <1>6, <1>7
<1> QED
  BY <1>2, <1>7, <1>8, <1>9 DEF Skip

LEMMA WriteRoundDoes ==
    ASSUME CursorAgrees, JobInv, NEW n \in Nat, WriteRound(n)
    PROVE  Does
<1> DEFINE len == Smaller(job.left, GetReadSize)
           s == SubSeq(BytesOf(Buffers(m_cur, Offset, len)), 1, n)
<1>1. /\ job.state = "run" /\ UNCHANGED <<calls, last, m_little>> /\ ~ job.memory
      /\ n \in 1 .. len /\ Moved(s) /\ ret' = s /\ Seek(m_position + n) /\ received' = received
  BY DEF WriteRound, InLoop
<1>2. GetReadSize \in Nat /\ job.left \in Nat /\ m_position \in Nat
  BY AheadIs, JobFields, Sizes
<1>3. len \in 1 .. GetReadSize /\ n \in 1 .. GetReadSize /\ n \in 1 .. job.left /\ len \in Nat /\ n <= len
  BY <1>1, <1>2 DEF Smaller
<1>4. BytesOf(Buffers(m_cur, Offset, len)) = Coming(len) /\ Coming(len) \in Seq(Byte) /\ Len(Coming(len)) = len
  <2> HIDE DEF len
  <2>1. len \in 0 .. GetReadSize
    BY <1>2, <1>3
  <2> QED
    BY <1>3, <2>1, BlockIs, ComingIs
<1>5. s = SubSeq(Coming(len), 1, n)
  BY <1>4
<1> HIDE DEF s, len
<1>6. s \in Seq(Byte) /\ Len(s) = n /\ \A k \in 1 .. n : s[k] = At(nodes, m_position + k - 1)
  <2>1. s \in Seq(Byte) /\ Len(s) = n /\ \A k \in 1 .. n : s[k] = Coming(len)[k]
    BY <1>3, <1>4, <1>5, SubIs
  <2>2. \A k \in 1 .. n : Coming(len)[k] = At(nodes, m_position + k - 1)
    BY <1>3 DEF Coming
  <2> QED
    BY <2>1, <2>2
<1>7. s = SubSeq(Ahead, 1, n)
  <2>1. Ahead \in Seq(Byte) /\ Len(Ahead) = GetReadSize
        /\ \A k \in 1 .. GetReadSize : Ahead[k] = At(nodes, m_position + k - 1)
    BY AheadIs
  <2>2. SubSeq(Ahead, 1, n) \in Seq(Byte) /\ Len(SubSeq(Ahead, 1, n)) = n /\ \A k \in 1 .. n : SubSeq(Ahead, 1, n)[k] = Ahead[k]
    BY <1>2, <1>3, <2>1, SubIs
  <2>3. \A k \in 1 .. n : s[k] = SubSeq(Ahead, 1, n)[k]
    BY <1>2, <1>3, <1>6, <2>1, <2>2
  <2> QED
    BY <1>6, <2>2, <2>3, SameSeq
<1>8. Skip(n)
  BY <1>1, <1>3, SeekSkips
<1>9. CursorAgrees' /\ [Flat!Next]_(Flat!vars)
  <2>1. n \in 0 .. GetReadSize
    BY <1>2, <1>3
  <2>2. Sound' /\ Flat!Take
    BY <1>1, <1>7, <1>8, <2>1, SkipIs, TakeStep
  <2>3. Goes
    BY <1>1, <1>6, <2>2 DEF Goes, Flat!Next
  <2> QED
    BY <1>1, <2>3, LoopIs
<1>10. /\ job' \in Jobs /\ Counts'
       /\ job'.moved = job.moved \o s /\ job'.start = job.start /\ job'.memory = job.memory /\ job'.kind = job.kind
  BY <1>1, <1>3, <1>6, MovedIs
<1>11. Points'
  <2>1. Points
    BY <1>1 DEF JobInv, Counts
  <2>2. nodes' = nodes /\ m_position' = m_position + n
    BY <1>8 DEF Skip
  <2>3. \A q \in 0 .. m_position - 1 : At(nodes', q) = At(nodes, q)
    BY <2>2
  <2>4. \A k \in 1 .. Len(s) : At(nodes', m_position + k - 1) = s[k]
    BY <1>6, <2>2
  <2> QED
    BY <1>6, <1>10, <2>1, <2>2, <2>3, <2>4, PointsIs
<1>12. JobInv'
  BY <1>1, <1>10, <1>11 DEF JobInv
<1> QED
  BY <1>9, <1>12 DEF Does

LEMMA StopsDoes ==
    ASSUME CursorAgrees, JobInv, Stops
    PROVE  Does
<1>1. /\ job.state = "run" /\ UNCHANGED <<calls, last, m_little>> /\ job' = [job EXCEPT !.state = "failed"]
      /\ received' = received
  BY DEF Stops
<1>2. job.left \in Nat \ {0} /\ calls \in 0 .. MaxCalls
  BY <1>1, JobFields DEF JobInv, Counts, CursorAgrees, TypeOK
<1>3. /\ job' \in Jobs /\ job'.state = "failed" /\ job'.kind = job.kind /\ job'.memory = job.memory
      /\ job'.start = job.start /\ job'.len = job.len /\ job'.left = job.left /\ job'.moved = job.moved
  <2>1. job \in Jobs
    BY DEF JobInv
  <2> QED
    BY <1>1, <2>1 DEF Jobs
<1>4. Counts'
  BY <1>3 DEF JobInv, Counts
<1>5. ASSUME m_position' = m_position, \A q \in 0 .. m_position - 1 : At(nodes', q) = At(nodes, q)
      PROVE  JobInv'
  <2>1. ASSUME Points PROVE Points'
    <3> DEFINE m == job.moved
               b == job.start
    <3>1. m \in Seq(Byte) /\ b \in Nat /\ Len(m) \in Nat
      BY JobFields
    <3>2. m_position = b + Len(m) /\ \A k \in 1 .. Len(m) : m[k] = At(nodes, b + k - 1)
      BY <2>1 DEF Points
    <3>3. job'.moved = m /\ job'.start = b
      BY <1>3
    <3> HIDE DEF m, b
    <3>4. \A k \in 1 .. Len(m) : b + k - 1 \in 0 .. m_position - 1
      BY <3>1, <3>2
    <3>5. \A k \in 1 .. Len(m) : m[k] = At(nodes', b + k - 1)
      BY <1>5, <3>2, <3>4
    <3> QED
      BY <1>5, <3>2, <3>3, <3>5 DEF Points
  <2>2. job.kind # "none" /\ ~ job.memory => Points
    BY DEF JobInv
  <2>3. job'.kind # "none" /\ ~ job'.memory => Points'
    BY <1>3, <2>1, <2>2
  <2>4. received' \in 0 .. Len(Peer)
    BY <1>1 DEF JobInv
  <2> QED
    BY <1>3, <1>4, <2>3, <2>4 DEF JobInv
<1>6. CASE Reserve(job.left)
  <2>1. CursorAgrees' /\ [Flat!Next]_(Flat!vars)
    BY <1>1, <1>2, <1>6, ReserveStep, LoopIs
  <2>2. m_position' = m_position /\ \A q \in 0 .. m_data_size - 1 : At(nodes', q) = At(nodes, q)
    BY <1>2, <1>6, ReserveIs DEF Reserve
  <2>3. \A q \in 0 .. m_position - 1 : q \in 0 .. m_data_size - 1
    BY Sizes
  <2>4. JobInv'
    BY <1>5, <2>2, <2>3
  <2> QED
    BY <2>1, <2>4 DEF Does
<1>7. CASE UNCHANGED <<arrayVars, ret>>
  <2>1. CursorAgrees' /\ UNCHANGED Flat!vars /\ nodes' = nodes /\ m_position' = m_position
    BY <1>1, <1>2, <1>7, StillIs
  <2>2. JobInv'
    BY <1>5, <2>1
  <2> QED
    BY <2>1, <2>2 DEF Does
<1> QED
  BY <1>6, <1>7 DEF Stops

LEMMA BeginDoes ==
    ASSUME CursorAgrees, JobInv, NEW kind \in {"read", "write"}, NEW memory \in BOOLEAN, NEW len \in Nat,
           Begin(kind, memory, len)
    PROVE  Does
<1>1. JobInv'
  BY BeginIs
<1>2. UNCHANGED arrayVars /\ UNCHANGED <<m_little, ret>> /\ calls < MaxCalls /\ calls' = calls + 1
  BY DEF Begin
<1>3. calls \in 0 .. MaxCalls /\ MaxCalls \in Nat
  BY ByteArrayAssumption DEF CursorAgrees, TypeOK
<1>4. calls' \in 0 .. MaxCalls
  BY <1>2, <1>3
<1>5. CursorAgrees' /\ UNCHANGED Flat!vars
  BY <1>2, <1>4, StillIs
<1> QED
  BY <1>1, <1>5 DEF Does

\* Nothing of the array and of the block changes.
LEMMA RestDoes ==
    ASSUME CursorAgrees, JobInv, UNCHANGED vars, UNCHANGED <<received, job>>
    PROVE  Does
<1>1. UNCHANGED arrayVars /\ UNCHANGED <<m_little, ret>> /\ calls' = calls
  BY DEF vars
<1>2. calls' \in 0 .. MaxCalls
  BY <1>1 DEF CursorAgrees, TypeOK
<1>3. CursorAgrees' /\ UNCHANGED Flat!vars /\ nodes' = nodes /\ m_position' = m_position
  BY <1>1, <1>2, StillIs
<1>4. JobInv'
  <2>1. job' = job /\ received' = received
    OBVIOUS
  <2> QED
    BY <1>3, <2>1 DEF JobInv, Counts, Points
<1> QED
  BY <1>3, <1>4 DEF Does

LEMMA StreamStep ==
    ASSUME CursorAgrees, JobInv, [StreamNext]_allVars
    PROVE  Does
<1>1. ASSUME Next, job' = NoJob, received' = received PROVE Does
  <2>1. CursorAgrees' /\ [Flat!Next]_(Flat!vars)
    BY <1>1, NextIs
  <2>2. JobInv'
    <3>1. received' \in 0 .. Len(Peer)
      BY <1>1 DEF JobInv
    <3>2. job' \in Jobs /\ job'.kind = "none" /\ job'.state = "idle" /\ Len(job'.moved) = job'.len - job'.left
      BY <1>1, NoJobIs
    <3> QED
      BY <3>1, <3>2 DEF JobInv, Counts
  <2> QED
    BY <2>1, <2>2 DEF Does
<1>2. ASSUME NEW len \in 0 .. MaxLen, NEW m \in BOOLEAN, Begin("read", m, len) PROVE Does
  <2>1. len \in Nat
    BY StreamAssumption
  <2> QED
    BY <1>2, <2>1, BeginDoes
<1>3. ASSUME NEW len \in 1 .. MaxLen, Begin("write", FALSE, len) PROVE Does
  <2>1. len \in Nat
    BY StreamAssumption
  <2> QED
    BY <1>3, <2>1, BeginDoes
<1>4. ASSUME NEW n \in 1 .. MaxLen, ReadRound(n) \/ ReadMemory(n) \/ WriteRound(n) PROVE Does
  <2>1. n \in Nat
    BY StreamAssumption
  <2> QED
    BY <1>4, <2>1, ReadRoundDoes, ReadMemoryDoes, WriteRoundDoes
<1>5. ASSUME Stops PROVE Does
  BY <1>5, StopsDoes
<1>6. ASSUME Disconnect PROVE Does
  BY <1>6, RestDoes DEF Disconnect
<1>7. ASSUME UNCHANGED allVars PROVE Does
  BY <1>7, RestDoes DEF allVars, streamVars
<1> QED
  BY <1>1, <1>2, <1>3, <1>4, <1>5, <1>6, <1>7 DEF StreamNext

LEMMA StreamInitIs == StreamInit => CursorAgrees /\ JobInv /\ Flat!Init
<1> SUFFICES ASSUME StreamInit PROVE CursorAgrees /\ JobInv /\ Flat!Init
  OBVIOUS
<1>1. CursorAgrees /\ Flat!Init
  BY InitIs DEF StreamInit
<1>2. job = NoJob /\ received = 0
  BY DEF StreamInit
<1>3. received \in 0 .. Len(Peer)
  BY <1>2, StreamAssumption
<1>4. job \in Jobs /\ job.kind = "none" /\ job.state = "idle" /\ Len(job.moved) = job.len - job.left
  BY <1>2, NoJobIs
<1>5. JobInv
  BY <1>3, <1>4 DEF JobInv, Counts
<1> QED
  BY <1>1, <1>5

LEMMA ExactIs == CursorAgrees /\ JobInv => TransferExact
<1> SUFFICES ASSUME CursorAgrees, JobInv, job.kind # "none"
             PROVE  /\ Len(job.moved) = job.len - job.left
                    /\ job.state = "done" => Len(job.moved) = job.len
                    /\ ~ job.memory => /\ m_position = job.start + Len(job.moved)
                                       /\ job.moved = SubSeq(Content, job.start + 1, m_position)
  BY DEF TransferExact
<1> DEFINE m == job.moved
           b == job.start
           p == m_position
<1>1. Len(m) = job.len - job.left /\ job.len \in Nat /\ job.left \in Nat /\ m \in Seq(Byte) /\ b \in Nat /\ Len(m) \in Nat
  BY JobFields
<1>2. job.state = "done" => Len(m) = job.len
  <2>1. job.state = "done" => job.left = 0
    BY DEF JobInv, Counts
  <2> QED
    BY <1>1, <2>1
<1>3. ASSUME ~ job.memory PROVE p = b + Len(m) /\ m = SubSeq(Content, b + 1, p)
  <2>1. p = b + Len(m) /\ \A k \in 1 .. Len(m) : m[k] = At(nodes, b + k - 1)
    BY <1>3 DEF JobInv, Points
  <2>2. Content \in Seq(Byte) /\ Len(Content) = m_data_size /\ (\A k \in 1 .. m_data_size : Content[k] = At(nodes, k - 1))
        /\ p <= m_data_size /\ m_data_size \in Nat /\ p \in Nat
    BY ContentIs, Sizes
  <2> HIDE DEF m, b, p
  <2> DEFINE c == Content
             w == SubSeq(Content, b + 1, p)
  <2>3. w \in Seq(Byte) /\ Len(w) = Len(m) /\ \A k \in 1 .. Len(m) : w[k] = c[b + k]
    <3>1. c \in Seq(Byte) /\ b \in Nat /\ Len(m) \in Nat /\ b + Len(m) <= Len(c) /\ w = SubSeq(c, b + 1, b + Len(m))
      BY <1>1, <2>1, <2>2
    <3> HIDE DEF c, w
    <3> QED
      BY <3>1, PartIs
  <2>4. \A k \in 1 .. Len(m) : b + k \in 1 .. m_data_size /\ (b + k) - 1 = b + k - 1
    <3>1. b \in Nat /\ Len(m) \in Nat /\ m_data_size \in Nat /\ b + Len(m) <= m_data_size
      BY <1>1, <2>1, <2>2
    <3> QED
      BY <3>1
  <2>5. \A k \in 1 .. Len(m) : m[k] = w[k]
    BY <2>1, <2>2, <2>3, <2>4
  <2> HIDE DEF w
  <2>6. m = w
    BY <1>1, <2>3, <2>5, SameSeq
  <2> QED
    BY <2>1, <2>6 DEF w
<1> QED
  BY <1>1, <1>2, <1>3

\* The byte array is sound under the transfers of a socket as well: a recv()
\* that got less than there was room for, or none, leaves the cursor and the
\* sizes in agreement (socketstream.cpp:38).
THEOREM StreamCursor == StreamSpec => []CursorAgrees
<1>1. StreamInit => CursorAgrees /\ JobInv
  BY StreamInitIs
<1>2. CursorAgrees /\ JobInv /\ [StreamNext]_allVars => CursorAgrees' /\ JobInv'
  BY StreamStep DEF Does
<1> QED
  BY <1>1, <1>2, PTL DEF StreamSpec

\* However a socket splits a block, wherever nodes end and whenever it fails,
\* the bytes that readF() or writeF() moved are the ones the array has between
\* the start of the block and its position, and a block reported whole is whole.
THEOREM TransferStays == StreamSpec => []TransferExact
<1>1. StreamInit => CursorAgrees /\ JobInv
  BY StreamInitIs
<1>2. CursorAgrees /\ JobInv /\ [StreamNext]_allVars => CursorAgrees' /\ JobInv'
  BY StreamStep DEF Does
<1>3. CursorAgrees /\ JobInv => TransferExact
  BY ExactIs
<1> QED
  BY <1>1, <1>2, <1>3, PTL DEF StreamSpec

\* With the transfers of a socket between the calls the array still is the
\* plain buffer: a round of a block is a write or a read of the bytes it moved.
THEOREM StreamBuffer == StreamSpec => IsBuffer
<1>1. StreamInit => CursorAgrees /\ JobInv /\ Flat!Init
  BY StreamInitIs
<1>2. CursorAgrees /\ JobInv /\ [StreamNext]_allVars => CursorAgrees' /\ JobInv' /\ [Flat!Next]_(Flat!vars)
  BY StreamStep DEF Does
<1> QED
  BY <1>1, <1>2, PTL DEF StreamSpec, IsBuffer, Flat!Spec

-----------------------------------------------------------------------------
(* The views.                                                              *)

\* What a read of len bytes would return.
LEMMA WantIs ==
    ASSUME CursorAgrees, NEW len \in 0 .. GetReadSize
    PROVE  SubSeq(Content, m_position + 1, m_position + len) = Coming(len)
<1> DEFINE c == Content
           p == m_position
           w == SubSeq(Content, p + 1, p + len)
<1>1. c \in Seq(Byte) /\ Len(c) = m_data_size /\ (\A k \in 1 .. m_data_size : c[k] = At(nodes, k - 1))
      /\ p \in Nat /\ m_data_size \in Nat /\ p <= m_data_size
  BY ContentIs, Sizes
<1>2. len \in Nat /\ p + len <= m_data_size
  BY <1>1 DEF GetReadSize
<1>3. Coming(len) \in Seq(Byte) /\ Len(Coming(len)) = len
  BY ComingIs
<1>4. w = SubSeq(c, p + 1, p + len)
  OBVIOUS
<1> HIDE DEF c, p, w
<1>5. w \in Seq(Byte) /\ Len(w) = len /\ \A k \in 1 .. len : w[k] = c[p + k]
  <2>1. c \in Seq(Byte) /\ p \in Nat /\ len \in Nat /\ p + len <= Len(c)
    BY <1>1, <1>2
  <2> QED
    BY <1>4, <2>1, PartIs
<1>6. ASSUME NEW k \in 1 .. len PROVE w[k] = Coming(len)[k]
  <2>1. p + k \in 1 .. m_data_size /\ (p + k) - 1 = p + k - 1
    BY <1>1, <1>2
  <2>2. Coming(len)[k] = At(nodes, p + k - 1)
    BY DEF Coming, p
  <2> QED
    BY <1>1, <1>5, <2>1, <2>2
<1>7. w = Coming(len)
  BY <1>3, <1>5, <1>6, SameSeq
<1> QED
  BY <1>7 DEF w, p

LEMMA BlockEmpty == BytesOf(Buffers(m_cur, Offset, 0)) = <<>>
<1> DEFINE B == Buffers(m_cur, Offset, 0)
<1>1. B = <<>>
  BY DEF Buffers
<1> HIDE DEF B
<1>2. [i \in 1 .. Len(B) |-> SubSeq(nodes[B[i].node], B[i].from + 1, B[i].from + B[i].len)] = <<>>
  BY <1>1
<1>3. BytesOf(B) = FlattenSeq(<<>>)
  BY <1>2 DEF BytesOf
<1>4. FlattenSeq(<<>>) = <<>>
  BY DEF FlattenSeq
<1> QED
  BY <1>3, <1>4 DEF B

\* The loop of writeToFile() from the start of a node.
LEMMA FileLoopIs ==
    ASSUME CursorAgrees, m_position < m_total_size, Offset = 0
    PROVE  FileLoop[MaxNodes].left = 0 /\ FileLoop[MaxNodes].out = Coming(GetReadSize)
<1> DEFINE S == m_node_size
           p == m_position
           R == GetReadSize
           T == {k \in Nat : R <= S * k}
<1>1. S \in Nat \ {0} /\ MaxNodes \in Nat /\ Len(nodes) \in 1 .. MaxNodes /\ p \in Nat /\ m_data_size \in Nat /\ m_total_size \in Nat
      /\ m_total_size = S * Len(nodes) /\ p <= m_data_size /\ m_data_size <= m_total_size
      /\ m_cur = (p \div S) + 1
  BY Sizes
<1>2. R \in Nat /\ R <= S * Len(nodes)
  BY <1>1 DEF GetReadSize
<1> DEFINE c == p \div S
<1>3. c \in Nat /\ p = S * c /\ m_cur = c + 1
  <2>1. c \in Nat /\ p % S \in 0 .. S - 1 /\ p = S * c + (p % S)
    BY <1>1, DivIs
  <2>2. p % S = 0
    BY DEF Offset
  <2>3. S * c \in Nat
    BY <1>1, <2>1
  <2> QED
    BY <1>1, <2>1, <2>2, <2>3
<1> HIDE DEF p, R, c, S
<1>4. PICK M \in T : \A k \in T : M <= k
  <2>1. Len(nodes) \in T
    BY <1>1, <1>2
  <2>2. T \in SUBSET Nat /\ T # {}
    BY <2>1
  <2> HIDE DEF T
  <2> QED
    BY <2>2, Least
<1>5. M \in Nat /\ R <= S * M /\ M <= MaxNodes
  <2>1. Len(nodes) \in T /\ Len(nodes) <= MaxNodes /\ Len(nodes) \in Nat
    BY <1>1, <1>2
  <2>2. M \in Nat /\ R <= S * M /\ M <= Len(nodes)
    BY <1>4, <2>1
  <2> QED
    BY <1>1, <2>1, <2>2
<1>6. ASSUME NEW k \in Nat, k < M PROVE S * k \in Nat /\ S * k < R
  <2>1. k \notin T
    BY <1>4, <1>5, <1>6
  <2>2. S * k \in Nat
    BY <1>1
  <2> QED
    BY <1>2, <2>1, <2>2
<1> HIDE DEF T
<1> DEFINE e(k) == IF k < M THEN S * k ELSE R
           n(k) == IF k < M THEN k ELSE M
           G(k) == [cur |-> m_cur + n(k), pos |-> p + e(k), left |-> R - e(k), out |-> Coming(e(k))]
           Off(s) == s.pos % S
           Take(s) == (IF s.left > S THEN S ELSE s.left) - Off(s)
           Step(s) == IF s.left = 0 THEN s
                      ELSE [cur |-> s.cur + 1, pos |-> s.pos + Take(s), left |-> s.left - Take(s),
                            out |-> s.out \o Load(nodes, s.cur, Off(s), Take(s))]
           First == [cur |-> m_cur, pos |-> m_position, left |-> GetReadSize, out |-> <<>>]
           Eq(f) == f = [k \in 0 .. MaxNodes |-> IF k = 0 THEN First ELSE Step(f[k - 1])]
<1>7. \A k \in Nat : e(k) \in 0 .. R /\ n(k) \in Nat
  BY <1>2, <1>5, <1>6
<1>8. \A k \in Nat : Coming(e(k)) \in Seq(Byte) /\ Len(Coming(e(k))) = e(k)
  <2> TAKE k \in Nat
  <2>1. e(k) \in 0 .. GetReadSize
    BY <1>7 DEF R
  <2> HIDE DEF e
  <2> QED
    BY <2>1, ComingIs
<1>9. G(0) = First
  <2>1. e(0) = 0
    BY <1>1, <1>2, <1>5
  <2>2. n(0) = 0
    BY <1>5
  <2>3. Coming(0) = <<>>
    BY DEF Coming
  <2>4. m_cur + 0 = m_cur /\ p + 0 = m_position /\ R - 0 = GetReadSize
    BY <1>1, <1>2, <1>3 DEF p, R
  <2> HIDE DEF e, n
  <2> QED
    BY <2>1, <2>2, <2>3, <2>4
<1>10. ASSUME NEW k \in Nat \ {0} PROVE G(k) = Step(G(k - 1))
  <2> DEFINE i == k - 1
             s == G(k - 1)
  <2>1. i \in Nat /\ k = i + 1
    OBVIOUS
  <2>2. s.cur = m_cur + n(i) /\ s.pos = p + e(i) /\ s.left = R - e(i) /\ s.out = Coming(e(i))
    OBVIOUS
  <2>3. CASE ~ (i < M)
    <3>1. ~ (k < M)
      BY <1>5, <2>1, <2>3
    <3>2. e(i) = R /\ e(k) = R /\ n(i) = M /\ n(k) = M
      BY <2>3, <3>1
    <3>3. s.left = 0
      BY <1>2, <2>2, <3>2
    <3>4. G(k) = s
      BY <3>2
    <3> HIDE DEF s, G
    <3> QED
      BY <3>3, <3>4 DEF s
  <2>4. CASE i < M
    <3>1. e(i) = S * i /\ n(i) = i /\ S * i \in Nat /\ S * i < R
      BY <1>6, <2>1, <2>4
    <3>2. n(k) = k
      BY <1>5, <2>1, <2>4
    <3>3. s.left # 0 /\ s.left = R - S * i
      BY <1>2, <2>2, <3>1
    <3>4. S * k = S * i + S
      BY <1>1, <2>1
    <3> DEFINE t == IF k < M THEN S ELSE R - S * i
    <3>5. t \in Nat /\ e(k) = S * i + t /\ (IF R - S * i > S THEN S ELSE R - S * i) = t
      <4>1. CASE k < M
        <5>1. S * k < R
          BY <1>6, <4>1
        <5> QED
          BY <1>1, <1>2, <3>1, <3>4, <4>1, <5>1
      <4>2. CASE ~ (k < M)
        <5>1. k = M
          BY <1>5, <2>1, <2>4, <4>2
        <5>2. R <= S * i + S
          BY <1>5, <3>4, <5>1
        <5> QED
          BY <1>1, <1>2, <3>1, <4>2, <5>2
      <4> QED
        BY <4>1, <4>2
    <3> DEFINE a == p + S * i
    <3>6. a \in Nat /\ a \div S = c + i /\ a % S = 0
      <4>1. c + i \in Nat /\ 0 \in 0 .. S - 1
        BY <1>1, <1>3, <2>1
      <4>2. (S * (c + i) + 0) \div S = c + i /\ (S * (c + i) + 0) % S = 0
        BY <1>1, <4>1, DivUnique
      <4>3. S * (c + i) + 0 = a /\ a \in Nat
        BY <1>1, <1>3, <2>1
      <4> QED
        BY <4>2, <4>3
    <3>7. Off(s) = 0 /\ Take(s) = t
      <4>1. Off(s) = 0
        BY <2>2, <3>1, <3>6
      <4>2. (IF s.left > S THEN S ELSE s.left) = t
        BY <3>3, <3>5
      <4>3. Take(s) = t - 0
        <5> HIDE DEF s, t, Off
        <5> QED
          BY <4>1, <4>2
      <4> HIDE DEF s, t, Take
      <4> QED
        BY <3>5, <4>1, <4>3
    <3>8. Load(nodes, s.cur, 0, t) = [j \in 1 .. t |-> At(nodes, a + j - 1)]
      <4>1. s.cur = (a \div S) + 1 /\ a % S = 0
        <5>1. s.cur = (c + 1) + i /\ a \div S = c + i /\ a % S = 0
          BY <1>3, <2>2, <3>1, <3>6
        <5>2. (c + 1) + i = (c + i) + 1
          BY <1>3, <2>1
        <5> HIDE DEF s, a
        <5> QED
          BY <5>1, <5>2
      <4>2. Load(nodes, (a \div S) + 1, a % S, t) = [j \in 1 .. t |-> At(nodes, a + j - 1)]
        <5> HIDE DEF a, t
        <5> QED
          BY <3>5, <3>6, LoadIs DEF S
      <4> HIDE DEF a, t, s
      <4> QED
        BY <4>1, <4>2
    <3>9. Coming(e(k)) = Coming(e(i)) \o Load(nodes, s.cur, 0, t)
      <4> DEFINE x == Coming(e(i))
                 y == Load(nodes, s.cur, 0, t)
                 z == Coming(e(k))
      <4>1. x \in Seq(Byte) /\ Len(x) = S * i /\ z \in Seq(Byte) /\ Len(z) = S * i + t
        <5>1. e(i) = S * i /\ e(k) = S * i + t
          BY <3>1, <3>5
        <5> HIDE DEF e, t
        <5> QED
          BY <1>8, <2>1, <5>1
      <4>2. \A j \in 1 .. S * i : x[j] = At(nodes, p + j - 1) /\ z[j] = At(nodes, p + j - 1)
        <5>1. e(i) = S * i /\ e(k) = S * i + t /\ t \in Nat
          BY <3>1, <3>5
        <5> HIDE DEF e, t
        <5> QED
          BY <3>1, <5>1 DEF Coming, p
      <4>3. \A j \in 1 .. t : z[S * i + j] = At(nodes, a + j - 1) /\ y[j] = At(nodes, a + j - 1)
        <5>1. e(k) = S * i + t /\ t \in Nat
          BY <3>5
        <5> HIDE DEF e, t
        <5>2. \A j \in 1 .. t : z[S * i + j] = At(nodes, p + (S * i + j) - 1) /\ p + (S * i + j) - 1 = a + j - 1
          BY <1>1, <3>1, <5>1 DEF Coming, p
        <5> HIDE DEF a, z, y
        <5>3. \A j \in 1 .. t : y[j] = At(nodes, a + j - 1)
          BY <3>8 DEF y
        <5> QED
          BY <5>2, <5>3
      <4>4. y \in Seq(Byte) /\ Len(y) = t
        <5>1. t \in Nat
          BY <3>5
        <5>2. y = [j \in 1 .. t |-> z[S * i + j]]
          <6> HIDE DEF z, t, a
          <6> QED
            BY <3>8, <4>3
        <5> HIDE DEF y, z, t
        <5>3. \A j \in 1 .. t : z[S * i + j] \in Byte
          <6>1. \A j \in 1 .. t : S * i + j \in 1 .. Len(z)
            BY <3>1, <4>1, <5>1
          <6> QED
            BY <4>1, <6>1
        <5> QED
          BY <5>1, <5>2, <5>3
      <4> HIDE DEF x, y, z, t
      <4>5. Len(z) = Len(x) + Len(y) /\ (\A j \in 1 .. Len(x) : z[j] = x[j]) /\ \A j \in 1 .. Len(y) : z[Len(x) + j] = y[j]
        BY <4>1, <4>2, <4>3, <4>4
      <4>6. z = x \o y
        BY <4>1, <4>4, <4>5, ConcatIs
      <4> QED
        BY <4>6 DEF x, y, z
    <3>10. s.cur + 1 = m_cur + n(k) /\ s.pos + t = p + e(k) /\ s.left - t = R - e(k)
      <4> DEFINE u == S * i
      <4>1. s.cur = m_cur + i /\ s.pos = p + u /\ s.left = R - u /\ n(k) = k /\ e(k) = u + t
        BY <2>2, <3>1, <3>2, <3>5
      <4>2. u \in Nat /\ t \in Nat /\ m_cur \in Nat /\ p \in Nat /\ R \in Nat
        BY <1>1, <1>2, <1>3, <3>1, <3>5
      <4> HIDE DEF s, t, e, n, u
      <4>3. s.cur + 1 = m_cur + k
        BY <4>1, <4>2
      <4>4. s.pos + t = p + (u + t) /\ s.left - t = R - (u + t)
        BY <4>1, <4>2
      <4> QED
        BY <4>1, <4>3, <4>4
    <3>11. Step(s) = [cur |-> s.cur + 1, pos |-> s.pos + t, left |-> s.left - t, out |-> s.out \o Load(nodes, s.cur, 0, t)]
      <4> HIDE DEF s, t, Off, Take
      <4> QED
        BY <3>3, <3>7
    <3>12. s.out = Coming(e(i))
      BY <2>2
    <3> HIDE DEF s, t, e, n, Step
    <3> QED
      BY <3>9, <3>10, <3>11, <3>12 DEF s
  <2> QED
    BY <2>3, <2>4
<1> HIDE DEF e, n, G, Step, First
<1> DEFINE g == [k \in 0 .. MaxNodes |-> G(k)]
<1>11. Eq(g)
  <2>1. ASSUME NEW k \in 0 .. MaxNodes PROVE G(k) = IF k = 0 THEN First ELSE Step(g[k - 1])
    <3>1. CASE k = 0
      BY <1>9, <3>1
    <3>2. CASE k # 0
      <4>1. k \in Nat \ {0} /\ k - 1 \in 0 .. MaxNodes
        BY <1>1, <3>2
      <4>2. g[k - 1] = G(k - 1)
        BY <4>1
      <4> QED
        BY <1>10, <3>2, <4>1, <4>2
    <3> QED
      BY <3>1, <3>2
  <2> QED
    BY <2>1
<1> DEFINE f == CHOOSE h : Eq(h)
<1>12. Eq(f)
  BY <1>11, Zenon
<1>13. FileLoop = f
  BY DEF FileLoop, Step, First, Off, Take, S
<1> HIDE DEF f
<1>14. f[0] = First /\ \A k \in 1 .. MaxNodes : f[k] = Step(f[k - 1])
  <2>1. 0 \in 0 .. MaxNodes /\ \A k \in 1 .. MaxNodes : k \in 0 .. MaxNodes /\ k # 0
    BY <1>1
  <2>2. \A k \in 0 .. MaxNodes : f[k] = IF k = 0 THEN First ELSE Step(f[k - 1])
    BY <1>12, Zenon
  <2> QED
    BY <2>1, <2>2, Zenon
<1>15. f[MaxNodes] = G(MaxNodes)
  <2> DEFINE U == {k \in Nat : k \in 0 .. MaxNodes /\ f[k] # G(k)}
  <2> SUFFICES ASSUME U # {} PROVE FALSE
    BY <1>1
  <2>1. PICK m \in U : \A k \in U : m <= k
    <3>1. U \in SUBSET Nat
      OBVIOUS
    <3> HIDE DEF U
    <3> QED
      BY <3>1, Least
  <2>2. m \in 1 .. MaxNodes /\ m - 1 \in Nat /\ m - 1 \in 0 .. MaxNodes /\ m - 1 \notin U
    <3>1. m # 0
      BY <1>9, <1>14, <2>1
    <3> QED
      BY <1>1, <2>1, <3>1
  <2>3. f[m - 1] = G(m - 1)
    BY <2>2
  <2>4. f[m] = Step(G(m - 1))
    BY <1>14, <2>2, <2>3
  <2>5. G(m) = Step(G(m - 1))
    BY <1>10, <2>2
  <2> QED
    BY <2>1, <2>4, <2>5
<1>16. e(MaxNodes) = R
  BY <1>1, <1>5 DEF e
<1>17. G(MaxNodes).left = 0 /\ G(MaxNodes).out = Coming(R)
  BY <1>2, <1>16 DEF G
<1> QED
  BY <1>13, <1>15, <1>17 DEF R

LEMMA ViewsAre == CursorAgrees => ViewsAgree
<1> SUFFICES ASSUME CursorAgrees, m_position < m_total_size, NEW len \in 0 .. GetReadSize
             PROVE  LET want == SubSeq(Content, m_position + 1, m_position + len) IN
                    /\ Load(nodes, m_cur, Offset, len) = want
                    /\ BytesOf(Buffers(m_cur, Offset, len)) = want
                    /\ Offset = 0 /\ len = GetReadSize =>
                           FileLoop[MaxNodes].left = 0 /\ FileLoop[MaxNodes].out = want
  BY DEF ViewsAgree
<1>1. GetReadSize \in Nat /\ len \in Nat
  BY AheadIs
<1>2. m_position \in Nat /\ m_cur = (m_position \div m_node_size) + 1
  BY Sizes
<1>3. SubSeq(Content, m_position + 1, m_position + len) = Coming(len)
  BY WantIs
<1>4. Load(nodes, m_cur, Offset, len) = Coming(len)
  <2>1. Load(nodes, (m_position \div m_node_size) + 1, m_position % m_node_size, len) = [k \in 1 .. len |-> At(nodes, m_position + k - 1)]
    BY <1>1, <1>2, LoadIs
  <2> QED
    BY <1>2, <2>1 DEF Coming, Offset
<1>5. BytesOf(Buffers(m_cur, Offset, len)) = Coming(len)
  <2>1. CASE len = 0
    <3>1. Coming(0) = <<>>
      BY DEF Coming
    <3> QED
      BY <2>1, <3>1, BlockEmpty
  <2>2. CASE len # 0
    <3>1. len \in 1 .. GetReadSize
      BY <1>1, <2>2
    <3> QED
      BY <3>1, BlockIs
  <2> QED
    BY <2>1, <2>2
<1>6. Offset = 0 => FileLoop[MaxNodes].left = 0 /\ FileLoop[MaxNodes].out = Coming(GetReadSize)
  BY FileLoopIs
<1> QED
  BY <1>3, <1>4, <1>5, <1>6

-----------------------------------------------------------------------------
(* The number that was written last.                                       *)

\* The bytes of a list at the place of the number l, and that they still are it.
Kept(ns, l) == [k \in 1 .. l.end - l.at |-> At(ns, l.at + k - 1)]
Holds(ns, size, l) ==
    /\ l.kind \in Forms /\ l.at \in Nat /\ l.end \in Nat /\ l.at <= l.end /\ l.end <= size
    /\ Whole(l.kind, Kept(ns, l))
    /\ Means(l.kind, Kept(ns, l), l.little, l.val)

\* The strengthening of NumberBack: the bytes of the number are in the list, in
\* front of m_data_size, and no block is read into the array before it is forgotten.
LastInv ==
    /\ last.kind # "none" => Holds(nodes, m_data_size, last)
    /\ job.state = "run" => last.kind = "none"

\* The bytes of the number are as they were.
LEMMA HoldsOn ==
    ASSUME NEW ns, NEW ms, NEW size \in Nat, NEW more \in Nat, size <= more, NEW l, Holds(ns, size, l),
           \A q \in l.at .. l.end - 1 : At(ms, q) = At(ns, q)
    PROVE  Holds(ms, more, l)
<1>1. l.kind \in Forms /\ l.at \in Nat /\ l.end \in Nat /\ l.at <= l.end /\ l.end <= size
  BY DEF Holds
<1>2. Kept(ms, l) = Kept(ns, l)
  <2> DEFINE a == l.at
             z == l.end
  <2>1. a \in Nat /\ z \in Nat /\ \A q \in a .. z - 1 : At(ms, q) = At(ns, q)
    BY <1>1
  <2> HIDE DEF a, z
  <2>2. \A k \in 1 .. z - a : a + k - 1 \in a .. z - 1
    BY <2>1
  <2>3. \A k \in 1 .. z - a : At(ms, a + k - 1) = At(ns, a + k - 1)
    BY <2>1, <2>2, Zenon
  <2>4. Kept(ms, l) = [k \in 1 .. z - a |-> At(ms, a + k - 1)] /\ Kept(ns, l) = [k \in 1 .. z - a |-> At(ns, a + k - 1)]
    BY DEF Kept, a, z
  <2> QED
    BY <2>3, <2>4, Zenon
<1>3. l.end <= more
  BY <1>1
<1> QED
  BY <1>1, <1>2, <1>3, Zenon DEF Holds

\* Nothing in front of m_data_size changes.
LEMMA LeftAlone ==
    ASSUME CursorAgrees, LastInv, last' = last, m_data_size' \in Nat, m_data_size <= m_data_size',
           \A q \in 0 .. m_data_size - 1 : At(nodes', q) = At(nodes, q)
    PROVE  last'.kind # "none" => Holds(nodes', m_data_size', last')
<1> SUFFICES ASSUME last.kind # "none" PROVE Holds(nodes', m_data_size', last)
  OBVIOUS
<1>1. Holds(nodes, m_data_size, last) /\ m_data_size \in Nat
  BY Sizes DEF LastInv
<1>2. last.at \in Nat /\ last.end \in Nat /\ last.end <= m_data_size
  BY <1>1 DEF Holds
<1>3. \A q \in last.at .. last.end - 1 : q \in 0 .. m_data_size - 1
  BY <1>1, <1>2
<1>4. \A q \in last.at .. last.end - 1 : At(nodes', q) = At(nodes, q)
  BY <1>3
<1> DEFINE d == m_data_size'
           ns == nodes'
<1>5. d \in Nat /\ m_data_size <= d /\ \A q \in last.at .. last.end - 1 : At(ns, q) = At(nodes, q)
  BY <1>4
<1> HIDE DEF d, ns
<1>6. Holds(ns, d, last)
  BY <1>1, <1>5, HoldsOn
<1> QED
  BY <1>6 DEF d, ns

LEMMA NumberWritten ==
    ASSUME CursorAgrees, NEW form \in Forms, NEW n \in Numbers, WriteNumber(form, n)
    PROVE  Holds(nodes', m_data_size', last')
<1> DEFINE e == Encoded(form, n)
           p == m_position
           ns == nodes'
           d == m_data_size'
           l == last'
<1>1. n \in 0 .. 2^Width - 1 /\ m_little \in BOOLEAN
  BY ByteArrayAssumption DEF CursorAgrees, TypeOK
<1>2. e \in Seq(Byte) /\ Whole(form, e) /\ Means(form, e, m_little, Value(form, n))
  BY <1>1, EncodedIs, EncodedBack
<1>3. Write(e) /\ l = [kind |-> form, at |-> p, end |-> p + Len(e), val |-> Value(form, n), little |-> m_little]
  BY DEF WriteNumber, Remember, Value
<1> HIDE DEF e
<1>4. Puts(e)
  BY <1>2, <1>3, WriteIs
<1>5. p \in Nat /\ m_data_size \in Nat
  BY Sizes
<1>6. d = Larger(m_data_size, p + Len(e))
      /\ \A q \in 0 .. d - 1 : At(ns, q) = IF q \in p .. p + Len(e) - 1 THEN e[q - p + 1] ELSE At(nodes, q)
  BY <1>4 DEF Puts
<1> HIDE DEF p, ns, d, l
<1>7. l.kind = form /\ l.at = p /\ l.end = p + Len(e) /\ l.val = Value(form, n) /\ l.little = m_little
  BY <1>3
<1>8. d \in Nat /\ p + Len(e) <= d /\ Len(e) \in Nat
  BY <1>2, <1>5, <1>6 DEF Larger
<1>9. \A k \in 1 .. Len(e) : At(ns, p + k - 1) = e[k]
  <2> TAKE k \in 1 .. Len(e)
  <2>1. p + k - 1 \in 0 .. d - 1 /\ p + k - 1 \in p .. p + Len(e) - 1 /\ (p + k - 1) - p + 1 = k
    BY <1>5, <1>8
  <2> QED
    BY <1>6, <2>1
<1>10. Kept(ns, l) = e
  <2>1. l.end - l.at = Len(e)
    BY <1>5, <1>7, <1>8
  <2>2. Kept(ns, l) = [k \in 1 .. Len(e) |-> At(ns, p + k - 1)]
    BY <1>7, <2>1 DEF Kept
  <2>3. Kept(ns, l) = [k \in 1 .. Len(e) |-> e[k]]
    BY <1>9, <2>2, Zenon
  <2>4. [k \in 1 .. Len(e) |-> e[k]] = e
    BY <1>2
  <2> QED
    BY <2>3, <2>4
<1>11. l.kind \in Forms /\ l.at \in Nat /\ l.end \in Nat /\ l.at <= l.end /\ l.end <= d
  BY <1>5, <1>7, <1>8
<1>12. Whole(l.kind, Kept(ns, l)) /\ Means(l.kind, Kept(ns, l), l.little, l.val)
  BY <1>2, <1>7, <1>10, Zenon
<1>13. Holds(ns, d, l)
  BY <1>11, <1>12 DEF Holds
<1> QED
  BY <1>13 DEF ns, d, l

\* write() over a part of the number forgets it, write() beside it leaves it.
LEMMA RawWritten ==
    ASSUME CursorAgrees, LastInv, NEW s \in Seq(Byte), WriteRaw(s)
    PROVE  last'.kind # "none" => Holds(nodes', m_data_size', last')
<1> DEFINE p == m_position
           ns == nodes'
           d == m_data_size'
<1>1. last' = (IF p < last.end /\ last.at < p + Len(s) THEN Nothing ELSE last) /\ Write(s)
  BY DEF WriteRaw, Forget
<1>2. Puts(s)
  BY <1>1, WriteIs
<1>3. p \in Nat /\ m_data_size \in Nat /\ Len(s) \in Nat
  BY Sizes
<1>4. d = Larger(m_data_size, p + Len(s))
      /\ \A q \in 0 .. d - 1 : At(ns, q) = IF q \in p .. p + Len(s) - 1 THEN s[q - p + 1] ELSE At(nodes, q)
  BY <1>2 DEF Puts
<1> HIDE DEF p, ns, d
<1>5. SUFFICES ASSUME last'.kind # "none" PROVE Holds(ns, d, last')
  BY DEF ns, d
<1>6. last' = last /\ ~ (p < last.end /\ last.at < p + Len(s))
  <2>1. Nothing.kind = "none"
    BY DEF Nothing
  <2> QED
    BY <1>1, <1>5, <2>1
<1>7. Holds(nodes, m_data_size, last)
  BY <1>5, <1>6 DEF LastInv
<1>8. d \in Nat /\ m_data_size <= d
  BY <1>3, <1>4 DEF Larger
<1>9. last.at \in Nat /\ last.end \in Nat /\ last.end <= m_data_size
  BY <1>7 DEF Holds
<1>10. \A q \in last.at .. last.end - 1 : q \in 0 .. d - 1 /\ q \notin p .. p + Len(s) - 1
  BY <1>3, <1>6, <1>8, <1>9
<1>11. \A q \in last.at .. last.end - 1 : At(ns, q) = At(nodes, q)
  BY <1>4, <1>10
<1>12. Holds(ns, d, last)
  BY <1>3, <1>7, <1>8, <1>11, HoldsOn
<1> QED
  BY <1>6, <1>12

\* The calls.
LEMMA LastCall ==
    ASSUME CursorAgrees, LastInv, Call
    PROVE  last'.kind # "none" => Holds(nodes', m_data_size', last')
<1> DEFINE Still == last'.kind # "none" => Holds(nodes', m_data_size', last')
<1>0. m_data_size \in Nat /\ m_total_size \in Nat
  BY Sizes
<1>a. ASSUME last' = Nothing PROVE Still
  BY <1>a DEF Nothing
<1>b. ASSUME last' = last, nodes' = nodes, m_data_size' = m_data_size PROVE Still
  <2>1. m_data_size' \in Nat /\ m_data_size <= m_data_size'
    BY <1>0, <1>b
  <2>2. \A q \in 0 .. m_data_size - 1 : At(nodes', q) = At(nodes, q)
    BY <1>b
  <2> QED
    BY <1>b, <2>1, <2>2, LeftAlone
<1>1. ASSUME NEW form \in Forms, NEW n \in Numbers, WriteNumber(form, n) PROVE Still
  BY <1>1, NumberWritten
<1>2. ASSUME NEW form \in Lengths, NEW s \in Strings, WriteString(form, s) PROVE Still
  BY <1>2, <1>a DEF WriteString
<1>3. ASSUME NEW s \in Strings, WriteRaw(s) PROVE Still
  <2>1. s \in Seq(Byte)
    BY StringAssumption
  <2> QED
    BY <1>3, <2>1, RawWritten
<1>4. ASSUME NEW n \in 1 .. m_total_size, ReadRaw(n) PROVE Still
  <2> HIDE DEF Still
  <2> QED
    BY <1>4, <1>b DEF ReadRaw, Read, Skip, arrayVars
<1>5. ASSUME NEW form \in Forms, ReadNumber(form) PROVE Still
  <2> HIDE DEF Still
  <2>1. last' = last
    BY <1>5 DEF ReadNumber
  <2>2. nodes' = nodes /\ m_data_size' = m_data_size
    BY <1>5 DEF ReadNumber, Read, Skip, arrayVars
  <2> QED
    BY <1>b, <2>1, <2>2
<1>6. ASSUME NEW form \in Lengths, ReadString(form) PROVE Still
  <2> HIDE DEF Still
  <2>1. last' = last
    BY <1>6 DEF ReadString, ReadNumber
  <2>2. nodes' = nodes /\ m_data_size' = m_data_size
    BY <1>6 DEF ReadString, ReadNumber, Read, Skip, arrayVars
  <2> QED
    BY <1>b, <2>1, <2>2
<1>7. ASSUME NEW pos \in 0 .. m_total_size + 1, SetPosition(pos) PROVE Still
  <2>1. last' = last
    BY <1>7 DEF SetPosition
  <2>2. nodes' = nodes
    BY <1>7 DEF SetPosition, Seek, arrayVars
  <2>3. m_data_size' = m_data_size \/ m_data_size' = Larger(m_data_size, pos)
    BY <1>7 DEF SetPosition, Seek, arrayVars
  <2>4. m_data_size' \in Nat /\ m_data_size <= m_data_size'
    BY <1>0, <2>3 DEF Larger
  <2>5. \A q \in 0 .. m_data_size - 1 : At(nodes', q) = At(nodes, q)
    BY <2>2
  <2> QED
    BY <2>1, <2>4, <2>5, LeftAlone
<1>8. ASSUME Clear PROVE Still
  BY <1>8, <1>a DEF Clear
<1>9. ASSUME NEW size \in 1 .. m_node_size + 1, GetWriteBuffers(size) PROVE Still
  <2>1. size \in Nat \ {0} /\ Reserve(size) /\ last' = last
    BY <1>9, NodeSize DEF GetWriteBuffers
  <2>2. \A q \in 0 .. m_data_size - 1 : At(nodes', q) = At(nodes, q)
    BY <2>1, ReserveIs
  <2>3. m_data_size' = m_data_size
    BY <2>1 DEF Reserve
  <2>4. m_data_size' \in Nat /\ m_data_size <= m_data_size'
    BY <1>0, <2>3
  <2> QED
    BY <2>1, <2>2, <2>4, LeftAlone
<1>10. ASSUME NEW b \in BOOLEAN, SetLittleEndian(b) PROVE Still
  <2> HIDE DEF Still
  <2> QED
    BY <1>10, <1>b DEF SetLittleEndian, arrayVars
<1> HIDE DEF Still
<1>11. Still
  BY <1>1, <1>2, <1>3, <1>4, <1>5, <1>6, <1>7, <1>8, <1>9, <1>10 DEF Call
<1> QED
  BY <1>11 DEF Still

LEMMA LastStep ==
    ASSUME CursorAgrees, JobInv, LastInv, [StreamNext]_allVars
    PROVE  LastInv'
<1>0. m_data_size \in Nat
  BY Sizes
<1>a. ASSUME last'.kind = "none" PROVE LastInv'
  BY <1>a DEF LastInv
<1>1. ASSUME Next, job' = NoJob PROVE LastInv'
  <2>1. last'.kind # "none" => Holds(nodes', m_data_size', last')
    BY <1>1, LastCall DEF Next
  <2>2. job'.state # "run"
    BY <1>1, NoJobIs
  <2> QED
    BY <2>1, <2>2 DEF LastInv
<1>2. ASSUME NEW kind, NEW memory, NEW len, Begin(kind, memory, len) PROVE LastInv'
  BY <1>2, <1>a DEF Begin, Nothing
<1>3. ASSUME job.state = "run", last' = last PROVE LastInv'
  BY <1>3, <1>a DEF LastInv
<1>4. ASSUME NEW n \in 1 .. MaxLen, ReadRound(n) \/ ReadMemory(n) \/ WriteRound(n) PROVE LastInv'
  <2>1. job.state = "run" /\ last' = last
    BY <1>4 DEF ReadRound, ReadMemory, WriteRound, InLoop
  <2> QED
    BY <1>3, <2>1
<1>5. ASSUME Stops PROVE LastInv'
  BY <1>3, <1>5 DEF Stops
<1>6. ASSUME UNCHANGED vars, job' = job PROVE LastInv'
  <2>1. nodes' = nodes /\ m_data_size' = m_data_size /\ last' = last
    BY <1>6 DEF vars, arrayVars
  <2>2. (last.kind # "none" => Holds(nodes, m_data_size, last)) /\ (job.state = "run" => last.kind = "none")
    BY DEF LastInv
  <2>3. (last'.kind # "none" => Holds(nodes', m_data_size', last')) /\ (job'.state = "run" => last'.kind = "none")
    BY <1>6, <2>1, <2>2, Zenon
  <2> QED
    BY <2>3 DEF LastInv
<1>7. ASSUME Disconnect PROVE LastInv'
  BY <1>6, <1>7 DEF Disconnect
<1>8. ASSUME UNCHANGED allVars PROVE LastInv'
  BY <1>6, <1>8 DEF allVars, streamVars
<1> QED
  BY <1>1, <1>2, <1>4, <1>5, <1>7, <1>8 DEF StreamNext

LEMMA LastBack == CursorAgrees /\ LastInv => NumberBack
<1> SUFFICES ASSUME CursorAgrees, LastInv, last.kind # "none"
             PROVE  LET s == SubSeq(Content, last.at + 1, m_data_size)
                        n == Taken(last.kind, s)
                    IN  /\ n = last.end - last.at
                        /\ last.kind = "byte" \/ Decoded(last.kind, SubSeq(s, 1, n), last.little) = last.val
  BY DEF NumberBack
<1> DEFINE a == last.at
           z == last.end
           d == m_data_size
           e == Kept(nodes, last)
           s == SubSeq(Content, a + 1, d)
<1>1. last.kind \in Forms /\ a \in Nat /\ z \in Nat /\ a <= z /\ z <= d /\ Whole(last.kind, e)
      /\ Means(last.kind, e, last.little, last.val)
  BY DEF LastInv, Holds
<1>2. d \in Nat /\ Content \in Seq(Byte) /\ Len(Content) = d /\ \A k \in 1 .. d : Content[k] = At(nodes, k - 1)
  BY ContentIs, Sizes
<1>3. e = [k \in 1 .. z - a |-> At(nodes, a + k - 1)]
  BY DEF Kept
<1> DEFINE c == Content
<1>c. c \in Seq(Byte) /\ Len(c) = d /\ (\A k \in 1 .. d : c[k] = At(nodes, k - 1)) /\ s = SubSeq(c, a + 1, d)
  BY <1>2
<1> HIDE DEF a, z, d, e, s, c
<1>4. s \in Seq(Byte) /\ Len(s) = d - a /\ \A k \in 1 .. d - a : s[k] = c[a + k]
  <2>1. d - a \in Nat /\ a + (d - a) = d
    BY <1>1, <1>2
  <2> QED
    BY <1>1, <1>c, <2>1, PartIs
<1>5. ASSUME NEW k \in 1 .. z - a PROVE s[k] = At(nodes, a + k - 1) /\ s[k] \in Byte
  <2>1. k \in 1 .. d - a /\ a + k \in 1 .. d /\ (a + k) - 1 = a + k - 1
    BY <1>1, <1>2
  <2> QED
    BY <1>4, <1>c, <2>1
<1>6. e \in Seq(Byte) /\ Len(e) = z - a /\ \A k \in 1 .. z - a : s[k] = e[k]
  <2>1. z - a \in Nat
    BY <1>1
  <2> QED
    BY <1>3, <1>5, <2>1
<1>7. Len(e) <= Len(s)
  BY <1>1, <1>2, <1>4, <1>6
<1>8. Taken(last.kind, s) = z - a
  <2>1. \A k \in 1 .. Len(e) : s[k] = e[k]
    BY <1>6
  <2> QED
    BY <1>1, <1>4, <1>6, <1>7, <2>1, TakenWhole
<1>9. SubSeq(s, 1, z - a) = e
  <2>1. z - a \in Nat /\ z - a <= Len(s) /\ (z - a) - 1 + 1 = z - a /\ \A k \in 1 .. z - a : 1 + k - 1 = k
    BY <1>1, <1>6, <1>7
  <2>2. SubSeq(s, 1, z - a) \in Seq(Byte) /\ Len(SubSeq(s, 1, z - a)) = z - a
        /\ \A k \in 1 .. z - a : SubSeq(s, 1, z - a)[k] = s[k]
    BY <1>4, <2>1, SubIs
  <2> QED
    BY <1>6, <2>2, SameSeq
<1>10. last.kind = "byte" \/ Decoded(last.kind, SubSeq(s, 1, z - a), last.little) = last.val
  BY <1>1, <1>9 DEF Means
<1> QED
  BY <1>8, <1>10 DEF a, z, s, d

LEMMA LastInit == StreamInit => LastInv
<1> SUFFICES ASSUME StreamInit PROVE LastInv
  OBVIOUS
<1>1. last.kind = "none"
  BY DEF StreamInit, Init, Nothing
<1> QED
  BY <1>1 DEF LastInv

\* A number that was written is read back: whatever calls and transfers come
\* between, as long as nothing is written over it, the read takes exactly its
\* bytes and returns its value, with nodes of any size, numbers of any width,
\* groups of any number of bits and either byte order.  No view of the array
\* shows anything else.
THEOREM ReadsBack == StreamSpec => []ReadBack
<1>1. StreamInit => CursorAgrees /\ JobInv /\ LastInv
  BY StreamInitIs, LastInit
<1>2. CursorAgrees /\ JobInv /\ LastInv /\ [StreamNext]_allVars => CursorAgrees' /\ JobInv' /\ LastInv'
  BY StreamStep, LastStep DEF Does
<1>3. CursorAgrees /\ LastInv => ReadBack
  BY LastBack, ViewsAre DEF ReadBack
<1> QED
  BY <1>1, <1>2, <1>3, PTL DEF StreamSpec
=============================================================================
