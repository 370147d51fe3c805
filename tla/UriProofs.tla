------------------------------- MODULE UriProofs -------------------------------
(***************************************************************************)
(* For inputs of any length: what the machine accepts it saves where RFC   *)
(* 3986 has it, and it decides as the RFC does but for the named cases.    *)
(***************************************************************************)
EXTENDS Uri, WellFoundedInduction, TLAPS

PlaceFields == {"at", "abs", "pct", "k", "d", "o"}
SavedFields == {"scheme", "userinfo", "host", "path", "query", "fragment"}
UriFields == SavedFields \cup {"mark", "num", "port", "thrown"}
RefFields ==
    {"part", "pct", "valid", "maybe", "scheme", "auth", "at", "colon", "num", "digits", "end", "q", "f",
     "closed", "lit", "stx", "mid", "octet2", "future", "numeric"}
LitFields == {"n", "d", "val", "dots", "dbl", "prev", "future"}

\* The places, by the part of the grammar.
Openings == {"start", "scheme", "first", "hier", "slash"}
Names == {"auth0", "name", "host0", "host", "v4"}
Passwords == {"colon", "digits", "user"}
Ports == {"end", "port0", "port"}
Literals == {"head", "tail", "colon1", "lead", "quad", "future"}
Authorities == Names \cup Passwords \cup Ports \cup Literals
Segs == {"segments", "path"}
Queries == {"query0", "query"}
Fragments == {"fragment0", "fragment"}

-----------------------------------------------------------------------------
(* The invariant: what holds of a place s of the machine, the position i,  *)
(* what was saved u, and the reference r, as long as characters are read.  *)

\* What may be accepted, and what may be rejected.
Tolerated(r) == r.valid \/ r.stx \/ r.future
Excused(r) == ~ r.valid \/ r.mid \/ r.octet2 \/ r.future

\* The scheme and the userinfo, wherever the machine is.
Named(u, r) ==
    /\ u.scheme = (IF r.scheme = None THEN NoSpan ELSE <<0, r.scheme>>)
    /\ NumericPassword(r) \/ u.userinfo = (IF r.at = None THEN NoSpan ELSE <<r.auth, r.at>>)

\* Nothing of a path, a query or a fragment was read.
Headed(u, r) == r.q = None /\ r.f = None /\ u.path = NoSpan /\ u.query = NoSpan /\ u.fragment = NoSpan

\* No port was read, or its number is not saved yet.
Unported(u, r) == u.port = 0 /\ r.digits
Portless(u, r) == Unported(u, r) /\ r.num = 0

\* Before an authority.
NoAuthority(u, r) ==
    /\ r.auth = None /\ r.at = None /\ r.colon = None /\ Portless(u, r)
    /\ ~ r.closed /\ r.lit = NoLiteral /\ u.host = NoSpan

Opening(s, i, u, r) ==
    /\ NoAuthority(u, r) /\ Headed(u, r) /\ r.valid
    /\ s.at \in {"start", "scheme", "first"} => r.part = "first" /\ r.scheme = None
    /\ s.at = "start" => i = 0 /\ r.maybe /\ s.pct = 0
    /\ s.at = "scheme" => i > 0 /\ r.maybe /\ u.mark = 0 /\ s.pct = 0
    /\ s.at = "first" => i > 0 /\ ~ r.maybe
    /\ s.at = "hier" => r.part = "hier" /\ s.abs /\ r.scheme \in Nat /\ s.pct = 0
    /\ s.at = "slash" => r.part = "slash" /\ (s.abs <=> r.scheme # None) /\ r.scheme \in Nat \cup {None} /\ s.pct = 0

\* In an authority.
InAuthority(s, i, u, r) ==
    /\ Headed(u, r) /\ (s.abs <=> r.scheme # None) /\ r.scheme \in Nat \cup {None}
    /\ r.auth \in Nat /\ r.auth <= i /\ (r.at = None \/ (r.at \in Nat /\ r.auth <= r.at /\ r.at < i))
    /\ HostStart(r) <= i
    /\ u.port = 0
    /\ s.at \in Literals \/ r.lit = NoLiteral
    /\ r.lit.future => s.at = "future"

\* A name, a userinfo or a host, before any ":".
Naming(s, i, u, r) ==
    /\ r.part = "auth" /\ Portless(u, r) /\ r.colon = None /\ ~ r.closed
    /\ s.at \in {"auth0", "name"} => r.at = None
    /\ s.at \in {"host0", "host"} => r.at # None
    /\ s.at \in {"auth0", "host0"} => HostStart(r) = i /\ s.pct = 0
    /\ s.at \in {"name", "host", "v4"} => u.mark = HostStart(r) /\ HostStart(r) < i
    /\ s.at = "v4" => ~ r.valid /\ r.stx /\ s.pct = 0
    /\ s.at # "v4" => r.valid

\* After the first ":".
Password(s, i, u, r) ==
    /\ r.part = "auth" /\ r.at = None /\ ~ r.closed /\ r.valid /\ r.colon \in r.auth .. i - 1
    /\ s.at \in {"colon", "digits"} => Unported(u, r) /\ u.host = <<r.auth, r.colon>> /\ s.pct = 0 /\ u.num = r.num
    /\ s.at = "colon" => r.colon = i - 1 /\ u.mark = r.auth /\ r.num = 0
    /\ s.at = "digits" => r.colon < i - 1 /\ u.mark = r.colon + 1 /\ r.numeric /\ r.num \in Nat
    /\ s.at = "user" => ~ r.digits /\ (u.mark = r.auth \/ r.numeric)

\* After a host that is no name any more.
Porting(s, i, u, r) ==
    /\ r.part = "auth" /\ Tolerated(r) /\ Unported(u, r) /\ s.pct = 0
    /\ s.at = "end" => r.closed /\ r.colon = None /\ u.mark = HostStart(r) /\ r.num = 0 /\ HostStart(r) < i
    /\ s.at \in {"port0", "port"} => /\ r.colon \in HostStart(r) .. i - 1 /\ u.host = <<HostStart(r), r.colon>>
                                     /\ Fixed(r) \/ ~ r.valid
                                     /\ u.num = r.num
    /\ s.at = "port0" => r.colon = i - 1 /\ r.num = 0
    /\ s.at = "port" => r.colon < i - 1 /\ u.mark = r.colon + 1 /\ r.num \in Nat

-----------------------------------------------------------------------------
(* In an IP literal.                                                       *)

\* The digits of a group, as the number of an octet.
OctetOf(o, l) ==
    CASE o = "two" -> l.val = 1 /\ l.d = 1
      [] o = "200" -> l.val = 2 /\ l.d = 1
      [] o = "25"  -> l.val = 25 /\ l.d = 2
      [] o = "one" -> (l.val \in {3, 5, 6} /\ l.d = 1) \/ (l.val \in 10 .. 19 /\ l.d = 2)
      [] o = "full" -> (l.val = 0 \/ l.val \in 20 .. 24 \/ l.val \in 26 .. 255) /\ l.d \in 1 .. 3
      [] o = "no" -> l.val = -1 \/ l.val \in 200 .. 249
      [] OTHER -> FALSE

\* Groups of hex digits; quad: an IPv4 address may come here.
Grouping(s, l, quad) ==
    /\ l.dots = 0 /\ l.n \in Nat /\ l.d = s.d
    /\ s.d > 0 => l.prev = "h"
    /\ s.d = 0 => s.o = "no" /\ l.val = 0
    /\ s.d > 0 /\ quad => OctetOf(s.o, l)
    /\ ~ quad => s.o = "no"

InLit(s, r) ==
    LET l == r.lit IN
    /\ s.at \in {"head", "tail", "colon1", "lead"} => r.valid
    /\ s.at = "head" => /\ Grouping(s, l, s.k = 2) /\ l.dbl = "none" /\ s.k \in 1 .. 8 /\ l.n + s.k = 8
                        /\ s.k = 8 /\ s.d = 0 => l = NoLiteral
                        /\ s.k < 8 /\ s.d = 0 => l.prev = ":"
    /\ s.at = "tail" => /\ Grouping(s, l, s.k = 2) /\ l.dbl = "mid" /\ l.n + s.k = 7 /\ l.n > 0
                        /\ s.d > 0 => s.k > 0
                        /\ s.d = 0 => l.prev = "::" \/ (l.prev = ":" /\ s.k > 0)
    /\ s.at = "colon1" => l.n = 0 /\ l.d = 0 /\ l.val = 0 /\ l.dots = 0 /\ l.dbl = "none" /\ l.prev = ":"
    /\ s.at = "lead" => /\ Grouping(s, l, s.k > 1) /\ l.dbl = "lead" /\ s.k \in 1 .. 7 /\ l.n + s.k = 7
                        /\ s.d = 0 => l.prev = (IF s.k = 7 THEN "::" ELSE ":")
    /\ s.at = "quad" => /\ r.valid \/ r.stx
                        /\ s.k \in 1 .. 4
                        /\ r.valid => /\ s.k > 1 /\ l.dots = s.k - 1 /\ l.n \in Nat
                                      /\ l.n <= (IF l.dbl = "none" THEN 6 ELSE 5)
                                      /\ l.dbl = "none" => l.n = 6
                                      /\ s.o = "start" => l.d = 0 /\ l.val = 0 /\ l.prev = "."
                                      /\ s.o # "start" => s.o # "no" /\ OctetOf(s.o, l) /\ l.prev = "h"
    /\ s.at = "future" => r.future /\ l.future

Literal(s, i, u, r) ==
    /\ r.part = "lit" /\ Portless(u, r) /\ r.colon = None /\ ~ r.closed /\ s.pct = 0
    /\ u.mark = HostStart(r) /\ HostStart(r) < i
    /\ InLit(s, r)

-----------------------------------------------------------------------------
(* After the authority.                                                    *)

OrElse(j, k) == IF j = None THEN k ELSE j

\* The host and the port are saved.
Settled(u, r) ==
    /\ u.host = (IF r.auth = None THEN NoSpan ELSE <<HostStart(r), OrElse(r.colon, r.end)>>)
    /\ u.port = r.num % PortRange
    /\ Tolerated(r)

\* The path goes up to j, if it is saved at all.
PathSaved(u, r, j) == u.path = (IF r.auth # None /\ r.scheme # None THEN <<r.end, j>> ELSE NoSpan)

Segmented(s, i, u, r) ==
    /\ Settled(u, r) /\ Headed(u, r) /\ r.part = "path"
    /\ s.at = "segments" => r.auth = None \/ r.scheme = None
    /\ s.at = "path" => /\ r.auth # None /\ r.scheme # None /\ r.end \in 0 .. i
                        /\ u.mark = r.end \/ (u.mark = NULL /\ r.colon # None /\ r.end = r.colon + 1)

Querying(s, i, u, r) ==
    /\ Settled(u, r) /\ PathSaved(u, r, r.q) /\ r.part = "query" /\ r.f = None
    /\ r.q \in 0 .. i - 1 /\ u.query = NoSpan /\ u.fragment = NoSpan
    /\ s.at = "query0" => r.q = i - 1 /\ s.pct = 0
    /\ s.at = "query" => u.mark = r.q + 1

Fragmented(s, i, u, r) ==
    /\ Settled(u, r) /\ PathSaved(u, r, OrElse(r.q, r.f)) /\ r.part = "fragment"
    /\ r.f \in 0 .. i - 1 /\ u.fragment = NoSpan
    /\ u.query = (IF r.q = None THEN NoSpan ELSE <<r.q + 1, r.f>>)
    /\ s.at = "fragment0" => r.f = i - 1 /\ s.pct = 0
    /\ s.at = "fragment" => u.mark = r.f + 1

-----------------------------------------------------------------------------
Reading(s, i, u, r) ==
    /\ s.at \in Openings \cup Authorities \cup Segs \cup Queries \cup Fragments
    /\ r.pct = s.pct /\ ~ u.thrown /\ Named(u, r)
    /\ s.at \in Openings => Opening(s, i, u, r)
    /\ s.at \in Authorities => InAuthority(s, i, u, r)
    /\ s.at \in Names => Naming(s, i, u, r)
    /\ s.at \in Passwords => Password(s, i, u, r)
    /\ s.at \in Ports => Porting(s, i, u, r)
    /\ s.at \in Literals => Literal(s, i, u, r)
    /\ s.at \in Segs => Segmented(s, i, u, r)
    /\ s.at \in Queries => Querying(s, i, u, r)
    /\ s.at \in Fragments => Fragmented(s, i, u, r)

Shape(s, i, u, r) ==
    /\ DOMAIN s = PlaceFields /\ DOMAIN u = UriFields /\ DOMAIN r = RefFields /\ DOMAIN r.lit = LitFields
    /\ i \in Nat /\ s.abs \in BOOLEAN /\ u.num \in Nat

UriInv ==
    /\ Shape(cs, p, m, ref)
    /\ FieldsExact /\ Decides
    /\ phase = "read" => Reading(cs, p, m, ref)

-----------------------------------------------------------------------------
(* The actions of a step run one after the other.                          *)

LEMMA Least ==
    ASSUME NEW T \in SUBSET Nat, T # {}
    PROVE  \E n \in T : \A k \in T : n <= k
<1>1. PICK n \in T : \A k \in T : ~ (<<k, n>> \in OpToRel(<, Nat))
  BY NatLessThanWellFounded, WFMin
<1>2. \A k \in T : k \in Nat /\ n \in Nat /\ (k < n => <<k, n>> \in OpToRel(<, Nat))
  BY DEF OpToRel
<1>3. \A k \in T : ~ (k < n)
  BY <1>1, <1>2, Zenon
<1> QED
  BY <1>3

LEMMA MaxTo ==
    ASSUME NEW N \in Nat, NEW S \in SUBSET (1 .. N), N \in S
    PROVE  Max(S) = N
<1>1. \A y \in S : N >= y
  OBVIOUS
<1>2. \A x \in S : (\A y \in S : x >= y) => x = N
  OBVIOUS
<1>3. Max(S) \in S /\ \A y \in S : Max(S) >= y
  BY <1>1, Zenon DEF Max
<1> QED
  BY <1>2, <1>3, Zenon

\* The function that FoldLeft() is defined by, for the first actions of do.
Runs(h, do, X) == h = [S \in SUBSET X |-> IF S = {} THEN m ELSE Save(h[S \ {Max(S)}], do[Max(S)])]

LEMMA RunsExist ==
    ASSUME NEW N \in Nat, NEW do
    PROVE  \E h : Runs(h, do, 1 .. N)
<1> DEFINE T == {k \in Nat : ~ \E h : Runs(h, do, 1 .. k)}
<1>1. SUFFICES ASSUME T # {} PROVE FALSE
  BY <1>1
<1>2. PICK n \in T : \A k \in T : n <= k
  BY <1>1, Least
<1>3. n \in Nat /\ ~ \E h : Runs(h, do, 1 .. n)
  BY <1>2
<1>4. n # 0
  <2>1. 1 .. 0 = {}
    OBVIOUS
  <2> DEFINE h == [S \in SUBSET {} |-> m]
  <2>2. Runs(h, do, {})
    <3>1. \A S \in SUBSET {} : S = {}
      OBVIOUS
    <3>2. \A S \in SUBSET {} : m = IF S = {} THEN m ELSE Save(h[S \ {Max(S)}], do[Max(S)])
      BY <3>1, Zenon
    <3> QED
      BY <3>2, Zenon DEF Runs
  <2> HIDE DEF h
  <2> QED
    BY <1>3, <2>1, <2>2
<1> DEFINE X == 1 .. n - 1
           Y == 1 .. n
<1>5. X = Y \ {n} /\ n - 1 \in Nat
  BY <1>3, <1>4
<1>6. PICK g : Runs(g, do, X)
  <2>1. n - 1 \in Nat /\ n - 1 \notin T
    BY <1>2, <1>5
  <2> QED
    BY <2>1
<1> DEFINE h == [S \in SUBSET Y |-> IF n \in S THEN Save(g[S \ {n}], do[n]) ELSE g[S]]
<1>7. \A S \in SUBSET X : S \in SUBSET Y /\ n \notin S /\ h[S] = g[S]
  <2> TAKE S \in SUBSET X
  <2>1. S \in SUBSET Y /\ n \notin S
    BY <1>5
  <2> HIDE DEF Y
  <2> QED
    BY <2>1
<1>8. \A S \in SUBSET X : g[S] = IF S = {} THEN m ELSE Save(g[S \ {Max(S)}], do[Max(S)])
  BY <1>6, Zenon DEF Runs
<1>9. ASSUME NEW S \in SUBSET Y
      PROVE  h[S] = IF S = {} THEN m ELSE Save(h[S \ {Max(S)}], do[Max(S)])
  <2>1. CASE n \in S
    <3>1. Max(S) = n
      BY <1>3, <2>1, MaxTo
    <3>2. S \ {n} \in SUBSET X
      BY <1>5
    <3>3. h[S \ {n}] = g[S \ {n}]
      BY <1>7, <3>2
    <3>4. h[S] = Save(g[S \ {n}], do[n])
      <4> HIDE DEF Y
      <4> QED
        BY <2>1
    <3> HIDE DEF h, Y, X
    <3> QED
      BY <2>1, <3>1, <3>3, <3>4, Zenon
  <2>2. CASE n \notin S
    <3>1. S \in SUBSET X
      BY <1>5, <2>2
    <3>2. S \ {Max(S)} \in SUBSET X
      BY <3>1
    <3>3. h[S] = g[S] /\ h[S \ {Max(S)}] = g[S \ {Max(S)}]
      BY <1>7, <3>1, <3>2
    <3> HIDE DEF h, Y, X
    <3> QED
      BY <1>8, <3>1, <3>3, Zenon
  <2> QED
    BY <2>1, <2>2
<1>10. Runs(h, do, Y)
  <2> DEFINE f == [S \in SUBSET Y |-> IF S = {} THEN m ELSE Save(h[S \ {Max(S)}], do[Max(S)])]
  <2>1. \A S \in SUBSET Y : h[S] = f[S]
    BY <1>9, Zenon
  <2>2. h = f
    BY <2>1, Zenon
  <2> QED
    BY <2>2, Zenon DEF Runs
<1> HIDE DEF h
<1> QED
  BY <1>3, <1>10

LEMMA ActionsRun ==
    ASSUME NEW N \in Nat, NEW do, DOMAIN do = 1 .. N
    PROVE  \E h : Runs(h, do, 1 .. N) /\ Actions(do) = h[1 .. N]
<1>1. PICK h : Runs(h, do, 1 .. N)
  BY RunsExist
<1> DEFINE Eq(g) == g = [S \in SUBSET (1 .. N) |-> IF S = {} THEN m ELSE Save(g[S \ {Max(S)}], do[Max(S)])]
<1>2. Actions(do) = (CHOOSE g : Eq(g))[1 .. N]
  BY Zenon DEF Actions, FoldLeft, MapThenFoldSet
<1>3. Eq(h)
  BY <1>1, Zenon DEF Runs
<1> HIDE DEF Eq
<1>4. Eq(CHOOSE g : Eq(g))
  BY <1>3, Zenon
<1>5. Runs(CHOOSE g : Eq(g), do, 1 .. N)
  BY <1>4, Zenon DEF Eq, Runs
<1> QED
  BY <1>2, <1>5

\* One round of the fold.
LEMMA RunsRound ==
    ASSUME NEW N \in Nat, NEW do, NEW h, Runs(h, do, 1 .. N), NEW k \in 1 .. N
    PROVE  h[{}] = m /\ h[1 .. k] = Save(h[1 .. k - 1], do[k])
<1>1. \A S \in SUBSET (1 .. N) : h[S] = IF S = {} THEN m ELSE Save(h[S \ {Max(S)}], do[Max(S)])
  BY Zenon DEF Runs
<1>2. {} \in SUBSET (1 .. N) /\ 1 .. k \in SUBSET (1 .. N) /\ k \in 1 .. k /\ k \in Nat
  OBVIOUS
<1>3. (1 .. k) \ {k} = 1 .. k - 1
  BY <1>2
<1>4. Max(1 .. k) = k
  BY <1>2, MaxTo
<1>5. 1 .. k # {}
  BY <1>2
<1> QED
  BY <1>1, <1>2, <1>3, <1>4, <1>5, Zenon

LEMMA ActionsOne ==
    ASSUME NEW do, DOMAIN do = 1 .. 1
    PROVE  Actions(do) = Save(m, do[1])
<1>1. 1 \in Nat /\ 1 \in 1 .. 1 /\ 1 - 1 = 0 /\ 1 .. 0 = {}
  OBVIOUS
<1>2. PICK h : Runs(h, do, 1 .. 1) /\ Actions(do) = h[1 .. 1]
  BY <1>1, ActionsRun, Zenon
<1>3. \A k \in 1 .. 1 : h[{}] = m /\ h[1 .. k] = Save(h[1 .. k - 1], do[k])
  <2> DEFINE N == 1
  <2>1. N \in Nat /\ Runs(h, do, 1 .. N)
    BY <1>2
  <2> HIDE DEF N
  <2>2. \A k \in 1 .. N : h[{}] = m /\ h[1 .. k] = Save(h[1 .. k - 1], do[k])
    BY <2>1, RunsRound
  <2> QED
    BY <2>2 DEF N
<1>4. h[1 .. 1] = Save(h[1 .. 0], do[1]) /\ h[{}] = m
  BY <1>1, <1>3, Zenon
<1> QED
  BY <1>1, <1>2, <1>4, Zenon

LEMMA ActionsTwo ==
    ASSUME NEW do, DOMAIN do = 1 .. 2
    PROVE  Actions(do) = Save(Save(m, do[1]), do[2])
<1>1. 2 \in Nat /\ 1 \in 1 .. 2 /\ 1 - 1 = 0 /\ 2 \in 1 .. 2 /\ 2 - 1 = 1 /\ 1 .. 0 = {}
  OBVIOUS
<1>2. PICK h : Runs(h, do, 1 .. 2) /\ Actions(do) = h[1 .. 2]
  BY <1>1, ActionsRun, Zenon
<1>3. \A k \in 1 .. 2 : h[{}] = m /\ h[1 .. k] = Save(h[1 .. k - 1], do[k])
  <2> DEFINE N == 2
  <2>1. N \in Nat /\ Runs(h, do, 1 .. N)
    BY <1>2
  <2> HIDE DEF N
  <2>2. \A k \in 1 .. N : h[{}] = m /\ h[1 .. k] = Save(h[1 .. k - 1], do[k])
    BY <2>1, RunsRound
  <2> QED
    BY <2>2 DEF N
<1>4. h[1 .. 1] = Save(h[1 .. 0], do[1]) /\ h[{}] = m
  BY <1>1, <1>3, Zenon
<1>5. h[1 .. 2] = Save(h[1 .. 1], do[2]) /\ h[{}] = m
  BY <1>1, <1>3, Zenon
<1> QED
  BY <1>1, <1>2, <1>4, <1>5, Zenon

LEMMA ActionsThree ==
    ASSUME NEW do, DOMAIN do = 1 .. 3
    PROVE  Actions(do) = Save(Save(Save(m, do[1]), do[2]), do[3])
<1>1. 3 \in Nat /\ 1 \in 1 .. 3 /\ 1 - 1 = 0 /\ 2 \in 1 .. 3 /\ 2 - 1 = 1 /\ 3 \in 1 .. 3 /\ 3 - 1 = 2 /\ 1 .. 0 = {}
  OBVIOUS
<1>2. PICK h : Runs(h, do, 1 .. 3) /\ Actions(do) = h[1 .. 3]
  BY <1>1, ActionsRun, Zenon
<1>3. \A k \in 1 .. 3 : h[{}] = m /\ h[1 .. k] = Save(h[1 .. k - 1], do[k])
  <2> DEFINE N == 3
  <2>1. N \in Nat /\ Runs(h, do, 1 .. N)
    BY <1>2
  <2> HIDE DEF N
  <2>2. \A k \in 1 .. N : h[{}] = m /\ h[1 .. k] = Save(h[1 .. k - 1], do[k])
    BY <2>1, RunsRound
  <2> QED
    BY <2>2 DEF N
<1>4. h[1 .. 1] = Save(h[1 .. 0], do[1]) /\ h[{}] = m
  BY <1>1, <1>3, Zenon
<1>5. h[1 .. 2] = Save(h[1 .. 1], do[2]) /\ h[{}] = m
  BY <1>1, <1>3, Zenon
<1>6. h[1 .. 3] = Save(h[1 .. 2], do[3]) /\ h[{}] = m
  BY <1>1, <1>3, Zenon
<1> QED
  BY <1>1, <1>2, <1>4, <1>5, <1>6, Zenon

LEMMA ActionsAre ==
    /\ Actions(<<>>) = m
    /\ \A a : Actions(<<a>>) = Save(m, a)
    /\ \A a, b : Actions(<<a, b>>) = Save(Save(m, a), b)
    /\ \A a, b, c : Actions(<<a, b, c>>) = Save(Save(Save(m, a), b), c)
<1>1. Actions(<<>>) = m
  <2>1. DOMAIN <<>> = 1 .. 0 /\ 1 .. 0 = {} /\ 0 \in Nat
    OBVIOUS
  <2>2. PICK h : Runs(h, <<>>, 1 .. 0) /\ Actions(<<>>) = h[1 .. 0]
    BY <2>1, ActionsRun
  <2>3. h[{}] = m
    <3>1. h = [S \in SUBSET {} |-> IF S = {} THEN m ELSE Save(h[S \ {Max(S)}], <<>>[Max(S)])]
      BY <2>1, <2>2, Zenon DEF Runs
    <3>2. {} \in SUBSET {}
      OBVIOUS
    <3> QED
      BY <3>1, <3>2, Zenon
  <2> QED
    BY <2>1, <2>2, <2>3, Zenon
<1>2. ASSUME NEW a PROVE Actions(<<a>>) = Save(m, a)
  <2>1. DOMAIN <<a>> = 1 .. 1 /\ <<a>>[1] = a
    OBVIOUS
  <2> QED
    BY <2>1, ActionsOne, Zenon
<1>3. ASSUME NEW a, NEW b PROVE Actions(<<a, b>>) = Save(Save(m, a), b)
  <2>1. DOMAIN <<a, b>> = 1 .. 2 /\ <<a, b>>[1] = a /\ <<a, b>>[2] = b
    OBVIOUS
  <2> QED
    BY <2>1, ActionsTwo, Zenon
<1>4. ASSUME NEW a, NEW b, NEW c PROVE Actions(<<a, b, c>>) = Save(Save(Save(m, a), b), c)
  <2>1. DOMAIN <<a, b, c>> = 1 .. 3 /\ <<a, b, c>>[1] = a /\ <<a, b, c>>[2] = b /\ <<a, b, c>>[3] = c
    OBVIOUS
  <2> QED
    BY <2>1, ActionsThree, Zenon
<1> QED
  BY <1>1, <1>2, <1>3, <1>4


\* Lists of actions are put together.
LEMMA Joined ==
    ASSUME NEW a, NEW b, NEW c
    PROVE  /\ <<>> \o <<a>> = <<a>> /\ <<a>> \o <<>> = <<a>> /\ <<a, b>> \o <<>> = <<a, b>>
           /\ <<a>> \o <<b>> = <<a, b>> /\ <<a, b>> \o <<c>> = <<a, b, c>>
<1>1. <<>> \o <<a>> = <<a>> /\ <<a>> \o <<>> = <<a>> /\ <<a, b>> \o <<>> = <<a, b>>
  OBVIOUS
<1> DEFINE S == {a, b, c}
<1>2. <<a>> \o <<b>> = <<a, b>>
  <2> DEFINE s == <<a>> \o <<b>>
             t == <<a, b>>
  <2>1. <<a>> \in Seq(S) /\ <<b>> \in Seq(S) /\ Len(<<a>>) = 1 /\ Len(<<b>>) = 1 /\ <<a>>[1] = a /\ <<b>>[1] = b
    OBVIOUS
  <2>2. t \in Seq(S) /\ Len(t) = 2 /\ t[1] = a /\ t[2] = b
    OBVIOUS
  <2> HIDE DEF s, t, S
  <2>3. s \in Seq(S) /\ Len(s) = 2 /\ s[1] = a /\ s[2] = b
    BY <2>1 DEF s
  <2>4. s = t
    BY <2>2, <2>3
  <2> QED
    BY <2>4 DEF s, t
<1>3. <<a, b>> \o <<c>> = <<a, b, c>>
  <2> DEFINE s == <<a, b>> \o <<c>>
             t == <<a, b, c>>
  <2>1. /\ <<a, b>> \in Seq(S) /\ <<c>> \in Seq(S) /\ Len(<<a, b>>) = 2 /\ Len(<<c>>) = 1
        /\ <<a, b>>[1] = a /\ <<a, b>>[2] = b /\ <<c>>[1] = c
    OBVIOUS
  <2>2. t \in Seq(S) /\ Len(t) = 3 /\ t[1] = a /\ t[2] = b /\ t[3] = c
    OBVIOUS
  <2> HIDE DEF s, t, S
  <2>3. s \in Seq(S) /\ Len(s) = 3 /\ s[1] = a /\ s[2] = b /\ s[3] = c
    BY <2>1 DEF s
  <2>4. s = t
    BY <2>2, <2>3
  <2> QED
    BY <2>4 DEF s, t
<1> QED
  BY <1>1, <1>2, <1>3

-----------------------------------------------------------------------------
(* What a step leaves.                                                     *)

IsSpan(v, i) == v = NoSpan \/ \E j \in 0 .. i : \E k \in j .. i : v = <<j, k>>

\* The spans that are saved are spans of what was read.
Spans(u, i) ==
    /\ DOMAIN u = UriFields
    /\ u.mark \in -1 .. i /\ u.port \in 0 .. PortRange - 1 /\ u.num \in Nat
    /\ \A field \in SavedFields : IsSpan(u[field], i)

Placed(s) ==
    /\ DOMAIN s = PlaceFields /\ s.abs \in BOOLEAN
    /\ s.pct \in 0 .. 2 /\ s.k \in 0 .. 8 /\ s.d \in 0 .. 4

\* The step threw, rejected or goes on.
After(s, i, u, r) ==
    \/ u.thrown /\ Tolerated(r) /\ r.scheme # None /\ r.colon # None /\ r.end = r.colon + 1
    \/ ~ u.thrown /\ s = Error /\ Excused(r)
    \/ ~ u.thrown /\ Reading(s, i, u, r)

Left(step, c) == Number(Actions(step.do), step.to, c)

StepOK(step, c) ==
    /\ Placed(step.to) /\ Spans(Left(step, c), p)
    /\ After(step.to, IF InLiteral THEN p ELSE p + 1, Left(step, c), RefStep(ref, p, c))

SaveNames == SavedFields \cup {"mark", "port"}

LEMMA PortRangeIs == PortRange \in Nat \ {0}
BY SMT DEF PortRange

LEMMA SpanIs ==
    ASSUME NEW i \in Nat, NEW k \in 0 .. i
    PROVE  IsSpan(<<k, i>>, i) /\ IsSpan(NoSpan, i)
BY DEF IsSpan

\* Setting one field.
LEMMA SetKeeps ==
    ASSUME NEW u, NEW i \in Nat, Spans(u, i)
    PROVE  /\ \A k \in -1 .. i : Spans([u EXCEPT !.mark = k], i)
           /\ \A k \in 0 .. PortRange - 1 : Spans([u EXCEPT !.port = k], i)
           /\ \A k \in Nat : Spans([u EXCEPT !.num = k], i)
           /\ Spans([u EXCEPT !.thrown = TRUE], i)
           /\ \A field \in SavedFields : \A v : IsSpan(v, i) => Spans([u EXCEPT ![field] = v], i)
<1>1. /\ DOMAIN u = UriFields
      /\ u.mark \in -1 .. i /\ u.port \in 0 .. PortRange - 1 /\ u.num \in Nat
      /\ \A field \in SavedFields : IsSpan(u[field], i)
  BY DEF Spans
<1>2. \A k \in -1 .. i : Spans([u EXCEPT !.mark = k], i)
  BY <1>1 DEF Spans, UriFields, SavedFields
<1>3. \A k \in 0 .. PortRange - 1 : Spans([u EXCEPT !.port = k], i)
  BY <1>1 DEF Spans, UriFields, SavedFields
<1>4. \A k \in Nat : Spans([u EXCEPT !.num = k], i)
  BY <1>1 DEF Spans, UriFields, SavedFields
<1>5. Spans([u EXCEPT !.thrown = TRUE], i)
  BY <1>1 DEF Spans, UriFields, SavedFields
<1>6. ASSUME NEW field \in SavedFields, NEW v, IsSpan(v, i)
      PROVE  Spans([u EXCEPT ![field] = v], i)
  <2> DEFINE w == [u EXCEPT ![field] = v]
  <2>1. DOMAIN w = UriFields /\ w.mark = u.mark /\ w.port = u.port /\ w.num = u.num
    BY <1>1 DEF UriFields, SavedFields
  <2>2. \A g \in SavedFields : w[g] = v \/ w[g] = u[g]
    BY <1>1 DEF UriFields
  <2> HIDE DEF w
  <2>3. \A g \in SavedFields : IsSpan(w[g], i)
    BY <1>1, <1>6, <2>2
  <2>4. Spans(w, i)
    BY <1>1, <2>1, <2>3 DEF Spans
  <2> QED
    BY <2>4 DEF w
<1> QED
  BY <1>2, <1>3, <1>4, <1>5, <1>6

LEMMA SaveSpans ==
    ASSUME NEW u, p \in Nat, Spans(u, p), NEW a \in SaveNames
    PROVE  Spans(Save(u, a), p)
<1>1. u.mark \in -1 .. p /\ u.port \in 0 .. PortRange - 1 /\ u.num \in Nat /\ DOMAIN u = UriFields
  BY DEF Spans
<1>2. ASSUME NEW field \in SavedFields PROVE Spans(Saved(u, field), p)
  <2>1. CASE u.mark = NULL
    <3>1. Saved(u, field) = [u EXCEPT !.thrown = TRUE]
      BY <2>1 DEF Saved
    <3> QED
      BY <3>1, SetKeeps
  <2>2. CASE u.mark # NULL
    <3> DEFINE v == <<u.mark, p>>
               w == [u EXCEPT ![field] = v]
    <3>1. IsSpan(v, p)
      BY <1>1, <2>2, SpanIs DEF NULL
    <3>2. Saved(u, field) = [w EXCEPT !.mark = NULL]
      BY <1>1, <2>2 DEF Saved, Span, UriFields
    <3> HIDE DEF v
    <3>3. Spans(w, p)
      BY <3>1, SetKeeps
    <3> HIDE DEF w
    <3>4. NULL \in -1 .. p
      BY DEF NULL
    <3>5. \A k \in -1 .. p : Spans([w EXCEPT !.mark = k], p)
      BY <3>3, SetKeeps
    <3> QED
      BY <3>2, <3>4, <3>5, Zenon
  <2> QED
    BY <2>1, <2>2
<1>3. CASE u.thrown
  <2>1. Save(u, a) = u
    BY <1>3 DEF Save
  <2> QED
    BY <2>1
<1>4. CASE ~ u.thrown /\ a = "mark"
  <2>1. Save(u, a) = [u EXCEPT !.mark = p] /\ p \in -1 .. p
    BY <1>4 DEF Save
  <2>2. \A k \in -1 .. p : Spans([u EXCEPT !.mark = k], p)
    BY SetKeeps
  <2> QED
    BY <2>1, <2>2, Zenon
<1>5. CASE ~ u.thrown /\ a = "userinfo"
  <2>1. "userinfo" \in SavedFields
    BY DEF SavedFields
  <2>2. Save(u, a) = u \/ Save(u, a) = Saved(u, "userinfo")
    BY <1>5 DEF Save
  <2> QED
    BY <1>2, <2>1, <2>2
<1>6. CASE ~ u.thrown /\ a = "host"
  <2>1. "host" \in SavedFields
    BY DEF SavedFields
  <2>2. Save(u, a) = u \/ (u.mark # NULL /\ Save(u, a) = [u EXCEPT !.host = <<u.mark, p>>])
    BY <1>6 DEF Save, Span
  <2>3. u.mark # NULL => IsSpan(<<u.mark, p>>, p)
    BY <1>1, SpanIs DEF NULL
  <2>4. \A v : IsSpan(v, p) => Spans([u EXCEPT !.host = v], p)
    BY <2>1, SetKeeps, Zenon
  <2> QED
    BY <2>2, <2>3, <2>4, Zenon
<1>7. CASE ~ u.thrown /\ a = "port"
  <2> DEFINE k == IF u.mark = p THEN u.port ELSE u.num % PortRange
             w == [u EXCEPT !.port = k]
  <2>1. k \in 0 .. PortRange - 1
    BY <1>1, PortRangeIs
  <2>2. Save(u, a) = [w EXCEPT !.mark = NULL]
    BY <1>1, <1>7 DEF Save, UriFields
  <2> HIDE DEF k
  <2>3. Spans(w, p)
    BY <2>1, SetKeeps
  <2> HIDE DEF w
  <2>4. NULL \in -1 .. p
    BY DEF NULL
  <2>5. \A j \in -1 .. p : Spans([w EXCEPT !.mark = j], p)
    BY <2>3, SetKeeps
  <2> QED
    BY <2>2, <2>4, <2>5, Zenon
<1>8. CASE ~ u.thrown /\ a \in SavedFields \ {"userinfo", "host"}
  <2>1. Save(u, a) = Saved(u, a)
    BY <1>8 DEF Save, SavedFields
  <2> QED
    BY <1>2, <1>8, <2>1
<1> QED
  BY <1>3, <1>4, <1>5, <1>6, <1>7, <1>8 DEF SaveNames

LEMMA RefShape ==
    ASSUME NEW r, DOMAIN r = RefFields, DOMAIN r.lit = LitFields, NEW i, NEW c
    PROVE  DOMAIN RefStep(r, i, c) = RefFields /\ DOMAIN RefStep(r, i, c).lit = LitFields
<1>1. DOMAIN NoLiteral = LitFields
  BY DEF NoLiteral, LitFields
<1>2. DOMAIN RefLiteral(r, c) = RefFields /\ DOMAIN RefLiteral(r, c).lit = LitFields
  BY <1>1 DEF RefFields, LitFields, RefLiteral, LiteralStep
<1> QED
  BY <1>2 DEF RefFields, RefStep, RefAuthority, RefPath, RefFirst, Inside, EndAuthorityAt, Delimiter

\* A step that leaves what it should keeps the invariant.
LEMMA ConsumeInv ==
    ASSUME UriInv, phase = "read", NEW c, NEW step, Consume(c, step), StepOK(step, c)
    PROVE  UriInv'
<1> DEFINE i == IF InLiteral THEN p ELSE p + 1
           u == Left(step, c)
           r == RefStep(ref, p, c)
<1>1. p \in 0 .. MaxLen /\ p \in Nat /\ MaxLen \in Nat
  BY UriAssumption DEF UriInv, FieldsExact, TypeOK
<1>2. p' = i /\ cs' = step.to /\ m' = u /\ ref' = r /\ i \in 0 .. MaxLen /\ i \in Nat /\ p <= i
  BY <1>1 DEF Consume, Left
<1>3. phase' = IF u.thrown THEN "thrown" ELSE IF step.to = Error THEN "rejected" ELSE "read"
  BY <1>2 DEF Consume
<1>4. Placed(step.to) /\ Spans(u, p) /\ After(step.to, i, u, r)
  BY DEF StepOK
<1>5. DOMAIN r = RefFields /\ DOMAIN r.lit = LitFields
  BY RefShape DEF UriInv, Shape
<1> HIDE DEF i, u, r
<1>6. Shape(cs', p', m', ref')
  BY <1>2, <1>4, <1>5 DEF Shape, Placed, Spans
<1>7. TypeOK'
  <2>1. cs'.pct \in 0 .. 2 /\ cs'.k \in 0 .. 8 /\ cs'.d \in 0 .. 4
    BY <1>2, <1>4 DEF Placed
  <2>2. m'.mark \in -1 .. p' /\ m'.port \in 0 .. PortRange - 1
    BY <1>1, <1>2, <1>4 DEF Spans
  <2>3. \A field \in SavedFields : IsSpan(m'[field], p')
    <3> TAKE field \in SavedFields
    <3>1. IsSpan(u[field], p)
      BY <1>4 DEF Spans
    <3>2. IsSpan(u[field], i)
      BY <1>1, <1>2, <3>1 DEF IsSpan
    <3> QED
      BY <1>2, <3>2
  <2>4. phase' \in {"read", "accepted", "rejected", "thrown"}
    BY <1>3
  <2> QED
    BY <1>2, <2>1, <2>2, <2>3, <2>4 DEF TypeOK, IsSpan, SavedFields
<1>8. CASE u.thrown
  <2>1. phase' = "thrown" /\ Tolerated(r) /\ r.scheme # None /\ r.colon # None /\ r.end = r.colon + 1
    BY <1>3, <1>4, <1>8 DEF After
  <2>2. FieldsExact' /\ Decides'
    BY <1>2, <1>7, <2>1 DEF FieldsExact, Decides, Tolerated
  <2> QED
    BY <1>6, <2>1, <2>2 DEF UriInv
<1>9. CASE ~ u.thrown /\ step.to = Error
  <2>1. ~ Reading(step.to, i, u, r)
    BY <1>9 DEF Reading, Error, At, Openings, Authorities, Names, Passwords, Ports, Literals, Segs, Queries, Fragments
  <2>2. phase' = "rejected" /\ Excused(r)
    BY <1>3, <1>4, <1>9, <2>1 DEF After
  <2>3. FieldsExact' /\ Decides'
    BY <1>2, <1>7, <2>2 DEF FieldsExact, Decides, Excused
  <2> QED
    BY <1>6, <2>2, <2>3 DEF UriInv
<1>10. CASE ~ u.thrown /\ step.to # Error
  <2>1. phase' = "read" /\ Reading(step.to, i, u, r)
    BY <1>3, <1>4, <1>10 DEF After
  <2>2. FieldsExact' /\ Decides'
    BY <1>7, <2>1 DEF FieldsExact, Decides
  <2> QED
    BY <1>2, <1>6, <2>1, <2>2 DEF UriInv
<1> QED
  BY <1>8, <1>9, <1>10

-----------------------------------------------------------------------------
(* One lemma for each part of the grammar.                                 *)

\* What is known before a step.
LEMMA Before ==
    ASSUME UriInv, phase = "read"
    PROVE  /\ DOMAIN cs = PlaceFields /\ DOMAIN m = UriFields /\ DOMAIN ref = RefFields /\ DOMAIN ref.lit = LitFields
           /\ cs.abs \in BOOLEAN /\ p \in Nat /\ m.num \in Nat
           /\ Spans(m, p) /\ Placed(cs) /\ Reading(cs, p, m, ref)
BY DEF UriInv, Shape, FieldsExact, TypeOK, Spans, IsSpan, SavedFields, Placed

\* Reading, by the part of the grammar.
LEMMA ReadingIs ==
    ASSUME NEW s, NEW i, NEW u, NEW r, r.pct = s.pct, ~ u.thrown, Named(u, r)
    PROVE  /\ s.at \in Openings /\ Opening(s, i, u, r) => Reading(s, i, u, r)
           /\ s.at \in Names /\ InAuthority(s, i, u, r) /\ Naming(s, i, u, r) => Reading(s, i, u, r)
           /\ s.at \in Passwords /\ InAuthority(s, i, u, r) /\ Password(s, i, u, r) => Reading(s, i, u, r)
           /\ s.at \in Ports /\ InAuthority(s, i, u, r) /\ Porting(s, i, u, r) => Reading(s, i, u, r)
           /\ s.at \in Literals /\ InAuthority(s, i, u, r) /\ Literal(s, i, u, r) => Reading(s, i, u, r)
           /\ s.at \in Segs /\ Segmented(s, i, u, r) => Reading(s, i, u, r)
           /\ s.at \in Queries /\ Querying(s, i, u, r) => Reading(s, i, u, r)
           /\ s.at \in Fragments /\ Fragmented(s, i, u, r) => Reading(s, i, u, r)
BY DEF Reading, Openings, Authorities, Names, Passwords, Ports, Literals, Segs, Queries, Fragments

\* A place by its fields.
Goes(s, part, abs, n) ==
    /\ DOMAIN s = PlaceFields /\ s.at = part /\ s.abs = abs /\ s.pct = n
    /\ s.k = 0 /\ s.d = 0 /\ s.o = "no"

LEMMA GoesTo ==
    ASSUME NEW part, NEW abs
    PROVE  Goes(At(part, abs), part, abs, 0) /\ Goes([At(part, abs) EXCEPT !.pct = 2], part, abs, 2)
BY DEF Goes, At, PlaceFields

LEMMA AtIs ==
    ASSUME NEW part, NEW abs \in BOOLEAN
    PROVE  /\ Placed(At(part, abs)) /\ At(part, abs).at = part /\ At(part, abs).abs = abs
           /\ At(part, abs).pct = 0 /\ At(part, abs).k = 0 /\ At(part, abs).d = 0 /\ At(part, abs).o = "no"
BY DEF At, Placed, PlaceFields

\* The hex digits that are to come after c.
Hexes(c) == IF c = "%" THEN 2 ELSE 0

LEMMA HexesIs == \A c : Hexes(c) \in 0 .. 2
BY DEF Hexes

LEMMA GoesIs ==
    ASSUME NEW s, NEW part, NEW abs \in BOOLEAN, NEW n \in 0 .. 2, Goes(s, part, abs, n)
    PROVE  Placed(s) /\ s.at = part /\ s.abs = abs /\ s.pct = n
BY DEF Goes, Placed

\* The fields that other fields are saved beside, and those of the reference.
SameSaved(v, u) ==
    /\ v.scheme = u.scheme /\ v.userinfo = u.userinfo /\ v.host = u.host /\ v.port = u.port
    /\ v.path = u.path /\ v.query = u.query /\ v.fragment = u.fragment /\ v.thrown = u.thrown

SameHead(q, r) ==
    /\ q.scheme = r.scheme /\ q.auth = r.auth /\ q.at = r.at /\ q.colon = r.colon /\ q.end = r.end
    /\ q.num = r.num /\ q.numeric = r.numeric /\ q.digits = r.digits /\ q.closed = r.closed
    /\ q.lit = r.lit /\ q.future = r.future

\* A step that refuses.
LEMMA RefuseOK ==
    ASSUME p \in Nat, Spans(m, p), ~ m.thrown, NEW c, Excused(RefStep(ref, p, c))
    PROVE  StepOK(Refuse, c)
<1>1. Left(Refuse, c) = [m EXCEPT !.num = 0]
  BY ActionsAre DEF Left, Refuse, To, Number, Error, At
<1>2. \A k \in Nat : Spans([m EXCEPT !.num = k], p)
  BY SetKeeps
<1>3. Spans([m EXCEPT !.num = 0], p)
  BY <1>2
<1>4. ~ [m EXCEPT !.num = 0].thrown
  BY DEF Spans, UriFields
<1>5. Placed(Error)
  BY DEF Placed, Error, At, PlaceFields
<1>6. Refuse.to = Error
  BY DEF Refuse, To
<1> QED
  BY <1>1, <1>3, <1>4, <1>5, <1>6 DEF StepOK, After

\* A step that goes on outside a literal.
LEMMA GoOnOK ==
    ASSUME NEW s, NEW do, NEW c, ~ InLiteral, Placed(s),
           Spans(Left(To(s, do), c), p), ~ Left(To(s, do), c).thrown,
           Reading(s, p + 1, Left(To(s, do), c), RefStep(ref, p, c))
    PROVE  StepOK(To(s, do), c)
<1>1. To(s, do).to = s
  BY DEF To
<1> QED
  BY <1>1 DEF StepOK, After

\* A step that runs no action.
LEMMA NothingSaved ==
    ASSUME Spans(m, p), p \in Nat, NEW s, s.at \notin {"digits", "port"}, NEW c, NEW u, u = Left(To(s, <<>>), c)
    PROVE  SameSaved(u, m) /\ u.mark = m.mark /\ u.num = 0 /\ Spans(u, p)
<1>1. Left(To(s, <<>>), c) = Number(m, s, c)
  BY ActionsAre DEF Left, To
<1>2. Number(m, s, c) = [m EXCEPT !.num = 0]
  BY DEF Number
<1>3. \A k \in Nat : Spans([m EXCEPT !.num = k], p)
  BY SetKeeps
<1>4. Spans(u, p) /\ u = [m EXCEPT !.num = 0]
  BY <1>1, <1>2, <1>3
<1> QED
  BY <1>4 DEF SameSaved, Spans, UriFields, SavedFields

\* A step that marks.
LEMMA OnlyMarked ==
    ASSUME Spans(m, p), p \in Nat, ~ m.thrown, NEW s, s.at \notin {"digits", "port"}, NEW c,
           NEW u, u = Left(To(s, <<"mark">>), c)
    PROVE  SameSaved(u, m) /\ u.mark = p /\ u.num = 0 /\ Spans(u, p)
<1> DEFINE v == [m EXCEPT !.mark = p]
<1>1. Left(To(s, <<"mark">>), c) = Number(v, s, c)
  BY ActionsAre DEF Left, To, Save
<1>2. Number(v, s, c) = [v EXCEPT !.num = 0]
  BY DEF Number
<1>3. \A k \in -1 .. p : Spans([m EXCEPT !.mark = k], p)
  BY SetKeeps
<1>4. Spans(v, p)
  BY <1>3
<1>5. SameSaved(v, m) /\ v.mark = p
  BY DEF SameSaved, Spans, UriFields, SavedFields
<1> HIDE DEF v
<1>6. \A k \in Nat : Spans([v EXCEPT !.num = k], p)
  BY <1>4, SetKeeps
<1>7. Spans(u, p) /\ u = [v EXCEPT !.num = 0]
  BY <1>1, <1>2, <1>6
<1> QED
  BY <1>4, <1>5, <1>7 DEF SameSaved, Spans, UriFields, SavedFields

-----------------------------------------------------------------------------
(* What the reference does.                                                *)

\* A character of a component.
LEMMA InsideIs ==
    ASSUME NEW r, DOMAIN r = RefFields, NEW c, NEW chars, NEW q, q = Inside(r, c, chars)
    PROVE  /\ SameHead(q, r) /\ q.part = r.part /\ q.maybe = r.maybe /\ q.q = r.q /\ q.f = r.f
           /\ q.pct = Hexes(c)
           /\ q.valid <=> r.valid /\ c \in chars \cup {"%"}
           /\ q.stx <=> r.stx \/ c = "STX"
BY DEF SameHead, Inside, RefFields, Hexes

\* The beginning of a query or a fragment.
LEMMA DelimiterIs ==
    ASSUME NEW r, DOMAIN r = RefFields, NEW i, NEW c \in {"?", "#"}, NEW q, q = Delimiter(r, i, c)
    PROVE  /\ SameHead(q, r) /\ q.pct = r.pct /\ q.valid = r.valid /\ q.stx = r.stx
           /\ c = "?" => q.part = "query" /\ q.q = i /\ q.f = r.f
           /\ c = "#" => q.part = "fragment" /\ q.f = i /\ q.q = r.q
BY DEF SameHead, Delimiter, RefFields

\* A character of a path.
LEMMA RefPathIs ==
    ASSUME NEW r, DOMAIN r = RefFields, NEW i, NEW c, c \notin {"?", "#"}, NEW q, q = RefPath(r, i, c)
    PROVE  /\ SameHead(q, r) /\ q.part = "path" /\ q.q = r.q /\ q.f = r.f
           /\ q.pct = Hexes(c)
           /\ q.valid <=> r.valid /\ c \in PChar \cup {"/", "%"}
           /\ q.stx <=> r.stx \/ c = "STX"
BY DEF SameHead, RefPath, Inside, RefFields, Hexes

\* What was settled stays so.
LEMMA SettledOn ==
    ASSUME NEW u, NEW v, NEW r, NEW q, SameSaved(v, u), SameHead(q, r),
           r.valid => q.valid, r.stx => q.stx
    PROVE  /\ Named(u, r) => Named(v, q)
           /\ Settled(u, r) => Settled(v, q)
           /\ Tolerated(r) => Tolerated(q)
           /\ ~ u.thrown => ~ v.thrown
BY DEF SameSaved, SameHead, Named, NumericPassword, Settled, Tolerated, HostStart

-----------------------------------------------------------------------------
(* The actions, by what they leave alone.                                  *)

Keeps(v, u, fields) == \A g \in (SavedFields \cup {"port", "thrown"}) \ fields : v[g] = u[g]

LEMMA SaveIs ==
    ASSUME NEW u, Spans(u, p), p \in Nat, ~ u.thrown
    PROVE  /\ LET v == Save(u, "mark") IN Keeps(v, u, {}) /\ v.mark = p /\ v.num = u.num
           /\ LET v == Save(u, "host") IN
              u.mark # NULL => Keeps(v, u, {"host"}) /\ v.host = <<u.mark, p>> /\ v.mark = u.mark /\ v.num = u.num
           /\ LET v == Save(u, "port") IN
              /\ Keeps(v, u, {"port"}) /\ v.mark = NULL /\ v.num = u.num
              /\ v.port = IF u.mark = p THEN u.port ELSE u.num % PortRange
           /\ LET v == Save(u, "userinfo") IN
              IF u.mark = NULL THEN v = u
              ELSE Keeps(v, u, {"userinfo"}) /\ v.userinfo = <<u.mark, p>> /\ v.mark = NULL /\ v.num = u.num
           /\ \A field \in {"scheme", "path", "query", "fragment"} :
              LET v == Save(u, field) IN
              IF u.mark = NULL THEN Keeps(v, u, {"thrown"}) /\ v.thrown
              ELSE Keeps(v, u, {field}) /\ v[field] = <<u.mark, p>> /\ v.mark = NULL /\ v.num = u.num
<1>0. DOMAIN u = UriFields
  BY DEF Spans
<1>1. LET v == Save(u, "mark") IN Keeps(v, u, {}) /\ v.mark = p /\ v.num = u.num
  BY <1>0 DEF Save, Keeps, UriFields, SavedFields
<1>2. LET v == Save(u, "host") IN
      u.mark # NULL => Keeps(v, u, {"host"}) /\ v.host = <<u.mark, p>> /\ v.mark = u.mark /\ v.num = u.num
  BY <1>0 DEF Save, Span, Keeps, UriFields, SavedFields
<1>3. LET v == Save(u, "port") IN
      /\ Keeps(v, u, {"port"}) /\ v.mark = NULL /\ v.num = u.num
      /\ v.port = IF u.mark = p THEN u.port ELSE u.num % PortRange
  BY <1>0 DEF Save, Keeps, UriFields, SavedFields
<1>4. LET v == Save(u, "userinfo") IN
      IF u.mark = NULL THEN v = u
      ELSE Keeps(v, u, {"userinfo"}) /\ v.userinfo = <<u.mark, p>> /\ v.mark = NULL /\ v.num = u.num
  BY <1>0 DEF Save, Saved, Span, Keeps, UriFields, SavedFields
<1>5. ASSUME NEW field \in {"scheme", "path", "query", "fragment"}
      PROVE  LET v == Save(u, field) IN
             IF u.mark = NULL THEN Keeps(v, u, {"thrown"}) /\ v.thrown
             ELSE Keeps(v, u, {field}) /\ v[field] = <<u.mark, p>> /\ v.mark = NULL /\ v.num = u.num
  <2>1. Save(u, field) = Saved(u, field)
    BY DEF Save
  <2> QED
    BY <1>0, <2>1 DEF Saved, Span, Keeps, UriFields, SavedFields
<1> QED
  BY <1>1, <1>2, <1>3, <1>4, <1>5

\* The number that starts at mark.
LEMMA NumberIs ==
    ASSUME NEW u, Spans(u, p), p \in Nat, NEW s, NEW c, NEW v, v = Number(u, s, c)
    PROVE  /\ Keeps(v, u, {}) /\ v.mark = u.mark
           /\ s.at \notin {"digits", "port"} => v.num = 0 /\ Spans(v, p)
           /\ s.at \in {"digits", "port"} => v.num = u.num * 10 + Value(c)
           /\ s.at \in {"digits", "port"} /\ Value(c) \in Nat => Spans(v, p)
<1>0. DOMAIN u = UriFields /\ u.num \in Nat
  BY DEF Spans
<1>1. Keeps(v, u, {}) /\ v.mark = u.mark
  BY <1>0 DEF Number, Keeps, UriFields, SavedFields
<1>2. s.at \notin {"digits", "port"} => v = [u EXCEPT !.num = 0] /\ v.num = 0
  BY <1>0 DEF Number, UriFields
<1>3. s.at \in {"digits", "port"} => v = [u EXCEPT !.num = u.num * 10 + Value(c)] /\ v.num = u.num * 10 + Value(c)
  BY <1>0 DEF Number, UriFields
<1>4. \A k \in Nat : Spans([u EXCEPT !.num = k], p)
  BY SetKeeps
<1>5. Value(c) \in Nat => u.num * 10 + Value(c) \in Nat
  BY <1>0
<1> QED
  BY <1>1, <1>2, <1>3, <1>4, <1>5

-----------------------------------------------------------------------------
(* Paths, queries and fragments.                                           *)

LEMMA SuffixIs ==
    ASSUME NEW c, NEW do
    PROVE  /\ c = "?" => Suffix(c, do) = To(At("query0", FALSE), do)
           /\ c = "#" => Suffix(c, do) = To(At("fragment0", FALSE), do)
           /\ c \notin {"?", "#"} => Suffix(c, do) = Refuse
BY DEF Suffix

LEMMA InPathIs ==
    ASSUME NEW c, NEW part, NEW chars, chars \subseteq PChar \cup {"/"}
    PROVE  /\ c \in chars \cup {"%"} =>
                 \E s : InPath(c, part, chars) = To(s, <<>>) /\ Goes(s, part, FALSE, Hexes(c))
           /\ c \notin chars \cup {"%"} => InPath(c, part, chars) = Suffix(c, <<>>)
<1>1. "%" \notin chars
  BY DEF PChar, Plain, Alpha, Digit
<1>2. CASE c \in chars
  <2>1. InPath(c, part, chars) = To(At(part, FALSE), <<>>) /\ c # "%"
    BY <1>1, <1>2 DEF InPath
  <2> QED
    BY <1>2, <2>1, GoesTo DEF Hexes
<1>3. CASE c = "%"
  <2>1. InPath(c, part, chars) = To([At(part, FALSE) EXCEPT !.pct = 2], <<>>)
    BY <1>1, <1>3 DEF InPath, Pct
  <2> QED
    BY <1>3, <2>1, GoesTo DEF Hexes
<1>4. CASE c \notin chars \cup {"%"}
  BY <1>4 DEF InPath
<1> QED
  BY <1>2, <1>3, <1>4

\* What is kept is settled as before.
LEMMA KeepsIs ==
    ASSUME NEW v, NEW u, Keeps(v, u, {})
    PROVE  SameSaved(v, u)
BY DEF Keeps, SameSaved, SavedFields

LEMMA SameHeadItself == \A r : SameHead(r, r)
BY DEF SameHead

\* The path ends, or there was none, and a query or a fragment begins.
LEMMA SuffixOK ==
    ASSUME p \in Nat, ~ InLiteral, NEW c \in {"?", "#"}, NEW do, Spans(Actions(do), p), ~ Actions(do).thrown,
           NEW r, r = RefStep(ref, p, c), r.pct = 0,
           c = "?" => r.part = "query" /\ r.q = p /\ r.f = None,
           c = "#" => r.part = "fragment" /\ r.f = p /\ r.q = None,
           Named(Actions(do), r), Settled(Actions(do), r), PathSaved(Actions(do), r, p),
           Actions(do).query = NoSpan, Actions(do).fragment = NoSpan
    PROVE  StepOK(Suffix(c, do), c)
<1> DEFINE part == IF c = "?" THEN "query0" ELSE "fragment0"
           s == At(part, FALSE)
           u == Left(To(s, do), c)
           v == Actions(do)
<1>0. (c = "?" => part = "query0") /\ (c = "#" => part = "fragment0") /\ part \notin {"digits", "port"}
  OBVIOUS
<1>1. Suffix(c, do) = To(s, do)
  BY SuffixIs
<1> HIDE DEF part
<1>3. Placed(s) /\ s.at = part /\ s.pct = 0
  BY AtIs DEF s
<1> HIDE DEF s
<1>4. u = Number(v, s, c)
  BY DEF Left, To
<1> HIDE DEF u, v
<1>5. SameSaved(u, v) /\ Spans(u, p)
  BY <1>0, <1>3, <1>4, NumberIs, KeepsIs DEF v
<1>6. Named(u, r) /\ Settled(u, r) /\ ~ u.thrown
  BY <1>5, SettledOn, SameHeadItself DEF v
<1>7. PathSaved(u, r, p) /\ u.query = NoSpan /\ u.fragment = NoSpan
  BY <1>5 DEF PathSaved, SameSaved, v
<1>8. CASE c = "?"
  <2>1. Querying(s, p + 1, u, r)
    BY <1>0, <1>3, <1>6, <1>7, <1>8 DEF Querying, None
  <2>2. Reading(s, p + 1, u, r)
    BY <1>0, <1>3, <1>6, <1>8, <2>1, ReadingIs DEF Queries
  <2> QED
    BY <1>1, <1>3, <1>5, <1>6, <2>2, GoOnOK DEF u
<1>9. CASE c = "#"
  <2>1. Fragmented(s, p + 1, u, r)
    BY <1>0, <1>3, <1>6, <1>7, <1>9 DEF Fragmented, OrElse, None
  <2>2. Reading(s, p + 1, u, r)
    BY <1>0, <1>3, <1>6, <1>9, <2>1, ReadingIs DEF Fragments
  <2> QED
    BY <1>1, <1>3, <1>5, <1>6, <2>2, GoOnOK DEF u
<1> QED
  BY <1>8, <1>9

\* Saving a path that was not marked throws.
LEMMA SuffixThrows ==
    ASSUME p \in Nat, NEW c \in {"?", "#"}, NEW do, Spans(Actions(do), p), Actions(do).thrown,
           NEW r, r = RefStep(ref, p, c), Tolerated(r), r.scheme # None, r.colon # None, r.end = r.colon + 1
    PROVE  StepOK(Suffix(c, do), c)
<1> DEFINE part == IF c = "?" THEN "query0" ELSE "fragment0"
           s == At(part, FALSE)
           u == Left(To(s, do), c)
           v == Actions(do)
<1>0. part \notin {"digits", "port"}
  OBVIOUS
<1>1. Suffix(c, do) = To(s, do)
  BY SuffixIs
<1> HIDE DEF part
<1>3. Placed(s) /\ s.at = part
  BY AtIs DEF s
<1> HIDE DEF s
<1>4. u = Number(v, s, c)
  BY DEF Left, To
<1> HIDE DEF u, v
<1>5. SameSaved(u, v) /\ Spans(u, p)
  BY <1>0, <1>3, <1>4, NumberIs, KeepsIs DEF v
<1>6. u.thrown
  BY <1>5 DEF SameSaved, v
<1>7. To(s, do).to = s
  BY DEF To
<1> QED
  BY <1>1, <1>3, <1>5, <1>6, <1>7 DEF StepOK, After, u

\* A path that is not saved.
LEMMA SegmentsOK ==
    ASSUME UriInv, phase = "read", cs.at = "segments", cs.pct = 0, NEW c \in Chars
    PROVE  StepOK(SegmentsStep(cs, c), c)
<1>0. p \in Nat /\ Spans(m, p) /\ DOMAIN ref = RefFields /\ ~ InLiteral
  BY Before DEF InLiteral
<1>1. /\ ref.pct = 0 /\ ~ m.thrown /\ Named(m, ref) /\ Settled(m, ref) /\ Headed(m, ref)
      /\ ref.part = "path" /\ (ref.auth = None \/ ref.scheme = None)
  BY Before DEF Reading, Segs, Segmented
<1>2. RefStep(ref, p, c) = RefPath(ref, p, c)
  BY <1>1 DEF RefStep
<1>3. CASE c \in PChar \cup {"/", "%"}
  <2>1. PICK s : SegmentsStep(cs, c) = To(s, <<>>) /\ Goes(s, "segments", FALSE, Hexes(c))
    BY <1>3, InPathIs DEF SegmentsStep
  <2> DEFINE u == Left(To(s, <<>>), c)
             r == RefPath(ref, p, c)
  <2>2. Placed(s) /\ s.at = "segments" /\ s.pct = Hexes(c)
    BY <2>1, GoesIs, HexesIs
  <2>3. SameSaved(u, m) /\ u.mark = m.mark /\ Spans(u, p)
    BY <1>0, <2>2, NothingSaved
  <2>4. c \notin {"?", "#"}
    BY <1>3 DEF PChar, Plain, Alpha, Digit
  <2>5. /\ SameHead(r, ref) /\ r.part = "path" /\ r.q = ref.q /\ r.f = ref.f /\ r.pct = s.pct
        /\ (ref.valid => r.valid) /\ (ref.stx => r.stx)
    BY <1>0, <1>3, <2>2, <2>4, RefPathIs
  <2> HIDE DEF u, r
  <2>6. Named(u, r) /\ Settled(u, r) /\ ~ u.thrown
    BY <1>1, <2>3, <2>5, SettledOn
  <2>7. Segmented(s, p + 1, u, r)
    BY <1>1, <2>2, <2>3, <2>5, <2>6 DEF Segmented, Headed, SameSaved, SameHead
  <2>8. Reading(s, p + 1, u, r)
    BY <2>2, <2>5, <2>6, <2>7, ReadingIs DEF Segs
  <2> QED
    BY <1>0, <1>2, <2>1, <2>2, <2>3, <2>6, <2>8, GoOnOK DEF u, r
<1>4. CASE c \in {"?", "#"}
  <2>1. SegmentsStep(cs, c) = Suffix(c, <<>>)
    BY <1>4, InPathIs DEF SegmentsStep, PChar, Plain, Alpha, Digit
  <2> DEFINE r == RefStep(ref, p, c)
  <2>2. r = Delimiter(ref, p, c)
    BY <1>2, <1>4 DEF RefPath
  <2> HIDE DEF r
  <2>3. /\ SameHead(r, ref) /\ r.pct = 0 /\ r.valid = ref.valid /\ r.stx = ref.stx
        /\ c = "?" => r.part = "query" /\ r.q = p /\ r.f = ref.f
        /\ c = "#" => r.part = "fragment" /\ r.f = p /\ r.q = ref.q
    BY <1>0, <1>1, <1>4, <2>2, DelimiterIs
  <2>4. Actions(<<>>) = m
    BY ActionsAre
  <2>5. Named(m, r) /\ Settled(m, r)
    BY <1>1, <2>3, SettledOn DEF SameSaved
  <2>6. PathSaved(m, r, p) /\ m.query = NoSpan /\ m.fragment = NoSpan /\ ref.q = None /\ ref.f = None
    BY <1>1, <2>3 DEF PathSaved, Headed, SameHead
  <2> QED
    BY <1>0, <1>1, <1>4, <2>1, <2>3, <2>4, <2>5, <2>6, SuffixOK DEF r
<1>5. CASE c \notin PChar \cup {"/", "%", "?", "#"}
  <2>1. SegmentsStep(cs, c) = Suffix(c, <<>>) /\ Suffix(c, <<>>) = Refuse
    BY <1>5, InPathIs, SuffixIs DEF SegmentsStep
  <2>2. Excused(RefStep(ref, p, c))
    BY <1>0, <1>2, <1>5, RefPathIs DEF Excused
  <2> QED
    BY <1>0, <1>1, <2>1, <2>2, RefuseOK
<1> QED
  BY <1>3, <1>4, <1>5

-----------------------------------------------------------------------------
(* The beginning.                                                          *)

LEMMA OpeningOn ==
    ASSUME NEW u, NEW v, NEW r, NEW q, SameSaved(v, u), SameHead(q, r), q.q = r.q, q.f = r.f
    PROVE  /\ NoAuthority(u, r) => NoAuthority(v, q)
           /\ Headed(u, r) => Headed(v, q)
BY DEF NoAuthority, Portless, Unported, SameSaved, SameHead, Headed

\* Without an authority there is no host and no port.
LEMMA NoAuthoritySettled ==
    ASSUME NEW u, NEW r, NoAuthority(u, r), r.valid
    PROVE  Settled(u, r)
<1>1. 0 % PortRange = 0
  BY PortRangeIs
<1> QED
  BY <1>1 DEF NoAuthority, Portless, Unported, Settled, Tolerated


\* A path after an authority.
LEMMA PathOK ==
    ASSUME UriInv, phase = "read", cs.at = "path", cs.pct = 0, NEW c \in Chars
    PROVE  StepOK(PathStep(cs, c), c)
<1>0. p \in Nat /\ Spans(m, p) /\ DOMAIN ref = RefFields /\ ~ InLiteral /\ Placed(cs) /\ DOMAIN cs = PlaceFields
  BY Before DEF InLiteral
<1>1. /\ ref.pct = 0 /\ ~ m.thrown /\ Named(m, ref) /\ Settled(m, ref) /\ Headed(m, ref)
      /\ ref.part = "path" /\ ref.auth # None /\ ref.scheme # None /\ ref.end \in 0 .. p
      /\ m.mark = ref.end \/ (m.mark = NULL /\ ref.colon # None /\ ref.end = ref.colon + 1)
  BY Before DEF Reading, Segs, Segmented
<1>2. RefStep(ref, p, c) = RefPath(ref, p, c)
  BY <1>1 DEF RefStep
<1>3. CASE c \in PChar \cup {"/", "%"}
  <2>1. PICK s : PathStep(cs, c) = To(s, <<>>) /\ DOMAIN s = PlaceFields /\ s.at = "path" /\ s.pct = Hexes(c) /\ Placed(s)
    <3>1. CASE c = "%"
      <4>1. PathStep(cs, c) = To([cs EXCEPT !.pct = 2], <<>>)
        BY <3>1 DEF PathStep, Pct, PChar, Plain, Alpha, Digit
      <4> QED
        BY <1>0, <3>1, <4>1 DEF Placed, PlaceFields, Hexes
    <3>2. CASE c # "%"
      <4>1. PathStep(cs, c) = To(cs, <<>>)
        BY <1>3, <3>2 DEF PathStep
      <4> QED
        BY <1>0, <3>2, <4>1 DEF Hexes
    <3> QED
      BY <3>1, <3>2
  <2> DEFINE u == Left(To(s, <<>>), c)
             r == RefPath(ref, p, c)
  <2>3. SameSaved(u, m) /\ u.mark = m.mark /\ Spans(u, p)
    BY <1>0, <2>1, NothingSaved
  <2>4. c \notin {"?", "#"}
    BY <1>3 DEF PChar, Plain, Alpha, Digit
  <2>5. /\ SameHead(r, ref) /\ r.part = "path" /\ r.q = ref.q /\ r.f = ref.f /\ r.pct = s.pct
        /\ (ref.valid => r.valid) /\ (ref.stx => r.stx)
    BY <1>0, <1>3, <2>1, <2>4, RefPathIs
  <2> HIDE DEF u, r
  <2>6. Named(u, r) /\ Settled(u, r) /\ ~ u.thrown
    BY <1>1, <2>3, <2>5, SettledOn
  <2>7. Segmented(s, p + 1, u, r)
    BY <1>0, <1>1, <2>1, <2>3, <2>5, <2>6 DEF Segmented, Headed, SameSaved, SameHead
  <2>8. Reading(s, p + 1, u, r)
    BY <2>1, <2>5, <2>6, <2>7, ReadingIs DEF Segs
  <2> QED
    BY <1>0, <1>2, <2>1, <2>3, <2>6, <2>8, GoOnOK DEF u, r
<1>4. CASE c \in {"?", "#"}
  <2>1. PathStep(cs, c) = Suffix(c, <<"path">>)
    BY <1>4 DEF PathStep, PChar, Plain, Alpha, Digit
  <2> DEFINE r == RefStep(ref, p, c)
             u == Actions(<<"path">>)
  <2>2. r = Delimiter(ref, p, c)
    BY <1>2, <1>4 DEF RefPath
  <2> HIDE DEF r
  <2>3. /\ SameHead(r, ref) /\ r.pct = 0 /\ r.valid = ref.valid /\ r.stx = ref.stx
        /\ c = "?" => r.part = "query" /\ r.q = p /\ r.f = ref.f
        /\ c = "#" => r.part = "fragment" /\ r.f = p /\ r.q = ref.q
    BY <1>0, <1>1, <1>4, <2>2, DelimiterIs
  <2>4. u = Save(m, "path") /\ "path" \in SaveNames
    BY ActionsAre DEF SaveNames, SavedFields
  <2>5. Spans(u, p)
    BY <1>0, <2>4, SaveSpans
  <2>6. IF m.mark = NULL THEN Keeps(u, m, {"thrown"}) /\ u.thrown
        ELSE Keeps(u, m, {"path"}) /\ u.path = <<m.mark, p>>
    BY <1>0, <1>1, <2>4, SaveIs
  <2> HIDE DEF u
  <2>7. CASE m.mark = NULL
    <3>1. u.thrown /\ Tolerated(r) /\ r.scheme # None /\ r.colon # None /\ r.end = r.colon + 1
      BY <1>1, <2>3, <2>6, <2>7 DEF SameHead, Settled, Tolerated, NULL
    <3> QED
      BY <1>0, <1>4, <2>1, <2>5, <3>1, SuffixThrows DEF u, r
  <2>8. CASE m.mark # NULL
    <3>1. Keeps(u, m, {"path"}) /\ u.path = <<ref.end, p>>
      BY <1>1, <2>6, <2>8
    <3>2. /\ u.scheme = m.scheme /\ u.userinfo = m.userinfo /\ u.host = m.host /\ u.port = m.port
          /\ u.query = m.query /\ u.fragment = m.fragment /\ u.thrown = m.thrown
      BY <3>1 DEF Keeps, SavedFields
    <3>3. Named(u, r) /\ Settled(u, r) /\ ~ u.thrown
      BY <1>1, <2>3, <3>2 DEF Named, NumericPassword, Settled, Tolerated, SameHead, HostStart
    <3>4. PathSaved(u, r, p) /\ u.query = NoSpan /\ u.fragment = NoSpan /\ ref.q = None /\ ref.f = None
      BY <1>1, <2>3, <3>1, <3>2 DEF PathSaved, Headed, SameHead
    <3> QED
      BY <1>0, <1>4, <2>1, <2>3, <2>5, <3>3, <3>4, SuffixOK DEF u, r
  <2> QED
    BY <2>7, <2>8
<1>5. CASE c \notin PChar \cup {"/", "%", "?", "#"}
  <2>1. PathStep(cs, c) = Suffix(c, <<"path">>) /\ Suffix(c, <<"path">>) = Refuse
    BY <1>5, SuffixIs DEF PathStep
  <2>2. Excused(RefStep(ref, p, c))
    BY <1>0, <1>2, <1>5, RefPathIs DEF Excused
  <2> QED
    BY <1>0, <1>1, <2>1, <2>2, RefuseOK
<1> QED
  BY <1>3, <1>4, <1>5

\* The fields that are saved before a query and a fragment are read.
LEMMA FragmentOK ==
    ASSUME UriInv, phase = "read", cs.at \in {"fragment0", "fragment"}, cs.pct = 0, NEW c \in Chars
    PROVE  StepOK(FragmentStep(cs, c), c)
<1>0. p \in Nat /\ Spans(m, p) /\ DOMAIN ref = RefFields /\ ~ InLiteral
  BY Before DEF InLiteral
<1>1. /\ ref.pct = 0 /\ ~ m.thrown /\ Named(m, ref) /\ Settled(m, ref) /\ ref.part = "fragment" /\ Fragmented(cs, p, m, ref)
  BY Before DEF Reading, Fragments, Fragmented
<1>2. RefStep(ref, p, c) = Inside(ref, c, PChar \cup {"/", "?"})
  BY <1>1 DEF RefStep
<1> DEFINE r == RefStep(ref, p, c)
<1>3. /\ SameHead(r, ref) /\ r.part = ref.part /\ r.q = ref.q /\ r.f = ref.f /\ r.pct = Hexes(c)
      /\ r.valid <=> ref.valid /\ c \in PChar \cup {"/", "?", "%"}
      /\ r.stx <=> ref.stx \/ c = "STX"
  BY <1>0, <1>2, InsideIs
<1> HIDE DEF r
<1>4. CASE c \in PChar \cup {"/", "?", "%"}
  <2> DEFINE do == IF cs.at = "fragment0" THEN <<"mark">> ELSE <<>>
  <2>1. PICK s : FragmentStep(cs, c) = To(s, do) /\ Goes(s, "fragment", FALSE, Hexes(c))
    <3>1. CASE c = "%"
      <4>1. FragmentStep(cs, c) = To([At("fragment", FALSE) EXCEPT !.pct = 2], do)
        BY <3>1 DEF FragmentStep, Pct, PChar, Plain, Alpha, Digit
      <4> QED
        BY <3>1, <4>1, GoesTo DEF Hexes
    <3>2. CASE c # "%"
      <4>1. FragmentStep(cs, c) = To(At("fragment", FALSE), do)
        BY <1>4, <3>2 DEF FragmentStep
      <4> QED
        BY <3>2, <4>1, GoesTo DEF Hexes
    <3> QED
      BY <3>1, <3>2
  <2>2. Placed(s) /\ s.at = "fragment" /\ s.pct = Hexes(c)
    BY <2>1, GoesIs, HexesIs
  <2> DEFINE u == Left(To(s, do), c)
  <2>3. SameSaved(u, m) /\ u.mark = (IF cs.at = "fragment0" THEN p ELSE m.mark) /\ Spans(u, p)
    BY <1>0, <1>1, <2>2, NothingSaved, OnlyMarked
  <2> HIDE DEF u
  <2>4. Named(u, r) /\ Settled(u, r) /\ ~ u.thrown
    BY <1>1, <1>3, <1>4, <2>3, SettledOn
  <2>5. Fragmented(s, p + 1, u, r)
    BY <1>0, <1>1, <1>3, <2>2, <2>3, <2>4 DEF Fragmented, PathSaved, SameSaved, SameHead
  <2>6. Reading(s, p + 1, u, r)
    BY <1>3, <2>2, <2>4, <2>5, ReadingIs DEF Fragments
  <2> QED
    BY <1>0, <2>1, <2>2, <2>3, <2>4, <2>6, GoOnOK DEF u, r
<1>5. CASE c \notin PChar \cup {"/", "?", "%"}
  <2>1. FragmentStep(cs, c) = Refuse
    BY <1>5 DEF FragmentStep
  <2>2. Excused(r)
    BY <1>3, <1>5 DEF Excused
  <2> QED
    BY <1>0, <1>1, <2>1, <2>2, RefuseOK DEF r
<1> QED
  BY <1>4, <1>5

LEMMA QueryOK ==
    ASSUME UriInv, phase = "read", cs.at \in {"query0", "query"}, cs.pct = 0, NEW c \in Chars
    PROVE  StepOK(QueryStep(cs, c), c)
<1>0. p \in Nat /\ Spans(m, p) /\ DOMAIN ref = RefFields /\ ~ InLiteral
  BY Before DEF InLiteral
<1>1. /\ ref.pct = 0 /\ ~ m.thrown /\ Named(m, ref) /\ Settled(m, ref) /\ ref.part = "query" /\ Querying(cs, p, m, ref)
  BY Before DEF Reading, Queries, Querying
<1> DEFINE r == RefStep(ref, p, c)
           entering == IF cs.at = "query0" THEN <<"mark">> ELSE <<>>
<1>2. c # "#" => r = Inside(ref, c, PChar \cup {"/", "?"})
  BY <1>1 DEF RefStep
<1>3. c # "#" => /\ SameHead(r, ref) /\ r.part = ref.part /\ r.q = ref.q /\ r.f = ref.f /\ r.pct = Hexes(c)
                 /\ r.valid <=> ref.valid /\ c \in PChar \cup {"/", "?", "%"}
                 /\ r.stx <=> ref.stx \/ c = "STX"
  BY <1>0, <1>2, InsideIs
<1>4. CASE c \in PChar \cup {"/", "?", "%"}
  <2>0. c # "#"
    BY <1>4 DEF PChar, Plain, Alpha, Digit
  <2> HIDE DEF r
  <2>1. PICK s : QueryStep(cs, c) = To(s, entering) /\ Goes(s, "query", FALSE, Hexes(c))
    <3>1. CASE c = "%"
      <4>1. QueryStep(cs, c) = To([At("query", FALSE) EXCEPT !.pct = 2], entering)
        BY <3>1 DEF QueryStep, Pct, PChar, Plain, Alpha, Digit
      <4> QED
        BY <3>1, <4>1, GoesTo DEF Hexes
    <3>2. CASE c # "%"
      <4>1. QueryStep(cs, c) = To(At("query", FALSE), entering)
        BY <1>4, <2>0, <3>2 DEF QueryStep
      <4> QED
        BY <3>2, <4>1, GoesTo DEF Hexes
    <3> QED
      BY <3>1, <3>2
  <2>2. Placed(s) /\ s.at = "query" /\ s.pct = Hexes(c)
    BY <2>1, GoesIs, HexesIs
  <2> DEFINE u == Left(To(s, entering), c)
  <2>3. SameSaved(u, m) /\ u.mark = (IF cs.at = "query0" THEN p ELSE m.mark) /\ Spans(u, p)
    BY <1>0, <1>1, <2>2, NothingSaved, OnlyMarked
  <2> HIDE DEF u
  <2>4. Named(u, r) /\ Settled(u, r) /\ ~ u.thrown
    BY <1>1, <1>3, <1>4, <2>0, <2>3, SettledOn
  <2>5. Querying(s, p + 1, u, r)
    BY <1>0, <1>1, <1>3, <2>0, <2>2, <2>3, <2>4 DEF Querying, PathSaved, SameSaved, SameHead
  <2>6. Reading(s, p + 1, u, r)
    BY <1>3, <2>0, <2>2, <2>4, <2>5, ReadingIs DEF Queries
  <2> QED
    BY <1>0, <2>1, <2>2, <2>3, <2>4, <2>6, GoOnOK DEF u, r
<1>5. CASE c = "#"
  <2> DEFINE s == At("fragment0", FALSE)
             do == IF cs.at = "query0" THEN <<"mark", "query">> ELSE <<"query">>
             w == IF cs.at = "query0" THEN Save(m, "mark") ELSE m
             v == Save(w, "query")
             u == Left(To(s, do), c)
  <2>1. QueryStep(cs, c) = To(s, do)
    <3>1. entering \o <<"query">> = do
      BY Joined
    <3> QED
      BY <1>5, <3>1 DEF QueryStep, PChar, Plain, Alpha, Digit
  <2>2. Placed(s) /\ s.at = "fragment0" /\ s.pct = 0
    BY AtIs
  <2>3. u = Number(v, s, c)
    BY ActionsAre DEF Left, To
  <2> HIDE DEF u, s, do
  <2>4. Spans(w, p) /\ ~ w.thrown /\ SameSaved(w, m) /\ w.mark = ref.q + 1 /\ w.mark # NULL
    <3>1. CASE cs.at = "query0"
      <4>1. Spans(Save(m, "mark"), p)
        BY <1>0, SaveSpans DEF SaveNames
      <4>2. Keeps(Save(m, "mark"), m, {}) /\ Save(m, "mark").mark = p
        BY <1>0, <1>1, SaveIs
      <4>3. SameSaved(Save(m, "mark"), m)
        BY <4>2, KeepsIs
      <4>4. p = ref.q + 1 /\ p # NULL
        BY <1>0, <1>1, <3>1 DEF Querying, NULL
      <4> QED
        BY <1>1, <3>1, <4>1, <4>2, <4>3, <4>4 DEF SameSaved
    <3>2. CASE cs.at = "query"
      BY <1>0, <1>1, <3>2 DEF Querying, SameSaved, NULL
    <3> QED
      BY <3>1, <3>2
  <2> HIDE DEF w
  <2>5. Spans(v, p)
    BY <1>0, <2>4, SaveSpans DEF SaveNames, SavedFields
  <2>6. Keeps(v, w, {"query"}) /\ v.query = <<ref.q + 1, p>>
    BY <1>0, <2>4, SaveIs
  <2> HIDE DEF v
  <2>7. Keeps(u, v, {}) /\ Spans(u, p)
    BY <1>0, <2>2, <2>3, <2>5, NumberIs
  <2>8. /\ u.scheme = m.scheme /\ u.userinfo = m.userinfo /\ u.host = m.host /\ u.port = m.port
        /\ u.path = m.path /\ u.fragment = m.fragment /\ u.thrown = m.thrown /\ u.query = <<ref.q + 1, p>>
    BY <2>4, <2>6, <2>7 DEF Keeps, SameSaved, SavedFields
  <2>9. r = Delimiter(ref, p, c)
    BY <1>1, <1>5 DEF RefStep
  <2> HIDE DEF r
  <2>10. SameHead(r, ref) /\ r.pct = 0 /\ r.valid = ref.valid /\ r.stx = ref.stx /\ r.part = "fragment" /\ r.f = p /\ r.q = ref.q
    BY <1>0, <1>1, <1>5, <2>9, DelimiterIs
  <2>11. Named(u, r) /\ Settled(u, r) /\ ~ u.thrown
    BY <1>1, <2>8, <2>10 DEF Named, NumericPassword, Settled, Tolerated, SameHead, HostStart
  <2>12. Fragmented(s, p + 1, u, r)
    <3>1. ref.q \in 0 .. p - 1 /\ ref.q # None /\ m.fragment = NoSpan /\ PathSaved(m, ref, ref.q)
      BY <1>0, <1>1 DEF Querying, None
    <3> QED
      BY <1>0, <2>2, <2>8, <2>10, <2>11, <3>1 DEF Fragmented, PathSaved, OrElse, SameHead
  <2>13. Reading(s, p + 1, u, r)
    BY <2>2, <2>10, <2>11, <2>12, ReadingIs DEF Fragments
  <2> QED
    BY <1>0, <2>1, <2>2, <2>7, <2>11, <2>13, GoOnOK DEF u, r
<1>6. CASE c \notin PChar \cup {"/", "?", "%", "#"}
  <2>1. QueryStep(cs, c) = Refuse
    BY <1>6 DEF QueryStep
  <2>2. Excused(r)
    BY <1>3, <1>6 DEF Excused
  <2> QED
    BY <1>0, <1>1, <2>1, <2>2, RefuseOK DEF r
<1> QED
  BY <1>4, <1>5, <1>6

\* What is known in front of an authority.
LEMMA BeforeOpening ==
    ASSUME UriInv, phase = "read", cs.at \in Openings, cs.pct = 0
    PROVE  /\ p \in Nat /\ Spans(m, p) /\ DOMAIN ref = RefFields /\ ~ InLiteral /\ cs.abs \in BOOLEAN
           /\ ref.pct = 0 /\ ~ m.thrown /\ Named(m, ref) /\ NoAuthority(m, ref) /\ Headed(m, ref) /\ ref.valid
           /\ Opening(cs, p, m, ref)
BY Before DEF InLiteral, Reading, Openings, Opening

\* A path that is not saved begins.
LEMMA SegmentsFrom ==
    ASSUME p \in Nat, Spans(m, p), ~ m.thrown, ~ InLiteral, NEW c, NEW n \in 0 .. 2,
           NEW s, Goes(s, "segments", FALSE, n),
           NEW r, r = RefStep(ref, p, c), r.part = "path", r.pct = n, r.valid,
           NoAuthority(m, r), Headed(m, r), Named(m, r)
    PROVE  StepOK(To(s, <<>>), c)
<1> DEFINE u == Left(To(s, <<>>), c)
<1>1. Placed(s) /\ s.at = "segments" /\ s.pct = n
  BY GoesIs
<1>2. SameSaved(u, m) /\ Spans(u, p)
  BY <1>1, NothingSaved
<1>3. Settled(m, r)
  BY NoAuthoritySettled
<1> HIDE DEF u
<1>4. Named(u, r) /\ Settled(u, r) /\ ~ u.thrown
  BY <1>2, <1>3, SettledOn, SameHeadItself
<1>5. Segmented(s, p + 1, u, r)
  BY <1>1, <1>2, <1>4 DEF Segmented, Headed, SameSaved, NoAuthority
<1>6. Reading(s, p + 1, u, r)
  BY <1>1, <1>4, <1>5, ReadingIs DEF Segs
<1> QED
  BY <1>1, <1>2, <1>4, <1>6, GoOnOK DEF u

\* A query or a fragment begins where there is no authority.
LEMMA SuffixFrom ==
    ASSUME UriInv, phase = "read", cs.at \in Openings, cs.pct = 0, NEW c \in {"?", "#"},
           RefStep(ref, p, c) = Delimiter(ref, p, c)
    PROVE  StepOK(Suffix(c, <<>>), c)
<1> DEFINE r == RefStep(ref, p, c)
<1>1. /\ p \in Nat /\ Spans(m, p) /\ DOMAIN ref = RefFields /\ ~ InLiteral
      /\ ref.pct = 0 /\ ~ m.thrown /\ Named(m, ref) /\ NoAuthority(m, ref) /\ Headed(m, ref) /\ ref.valid
  BY BeforeOpening
<1>2. Actions(<<>>) = m
  BY ActionsAre
<1>0. r = Delimiter(ref, p, c)
  OBVIOUS
<1> HIDE DEF r
<1>3. /\ SameHead(r, ref) /\ r.pct = 0 /\ r.valid = ref.valid /\ r.stx = ref.stx
      /\ c = "?" => r.part = "query" /\ r.q = p /\ r.f = ref.f
      /\ c = "#" => r.part = "fragment" /\ r.f = p /\ r.q = ref.q
  <2>1. DOMAIN ref = RefFields /\ ref.pct = 0
    BY <1>1
  <2> QED
    BY <1>0, <2>1, DelimiterIs
<1>4. Settled(m, ref)
  BY <1>1, NoAuthoritySettled
<1>5. Named(m, r) /\ Settled(m, r)
  BY <1>1, <1>3, <1>4, SettledOn DEF SameSaved
<1>6. PathSaved(m, r, p) /\ m.query = NoSpan /\ m.fragment = NoSpan /\ ref.q = None /\ ref.f = None
  BY <1>1, <1>3 DEF PathSaved, Headed, SameHead, NoAuthority
<1> QED
  BY <1>1, <1>2, <1>3, <1>5, <1>6, SuffixOK DEF r

\* After a scheme, or after one "/".
LEMMA PathFrom ==
    ASSUME UriInv, phase = "read", cs.at \in Openings, cs.pct = 0, NEW c \in Chars, c # "/",
           RefStep(ref, p, c) = RefPath(ref, p, c)
    PROVE  StepOK(InPath(c, "segments", PChar), c)
<1> DEFINE r == RefStep(ref, p, c)
<1>1. /\ p \in Nat /\ Spans(m, p) /\ DOMAIN ref = RefFields /\ ~ InLiteral
      /\ ref.pct = 0 /\ ~ m.thrown /\ Named(m, ref) /\ NoAuthority(m, ref) /\ Headed(m, ref) /\ ref.valid
  BY BeforeOpening
<1> HIDE DEF r
<1>2. CASE c \in PChar \cup {"%"}
  <2>1. PICK s : InPath(c, "segments", PChar) = To(s, <<>>) /\ Goes(s, "segments", FALSE, Hexes(c))
    BY <1>2, InPathIs
  <2>2. c \notin {"?", "#"}
    BY <1>2 DEF PChar, Plain, Alpha, Digit
  <2>3. SameHead(r, ref) /\ r.part = "path" /\ r.q = ref.q /\ r.f = ref.f /\ r.pct = Hexes(c) /\ r.valid
    BY <1>1, <1>2, <2>2, RefPathIs DEF r
  <2>4. SameSaved(m, m)
    BY DEF SameSaved
  <2>5. NoAuthority(m, r) /\ Headed(m, r)
    BY <1>1, <2>3, <2>4, OpeningOn
  <2>6. Named(m, r)
    BY <1>1, <2>3 DEF Named, NumericPassword, SameHead
  <2> QED
    BY <1>1, <2>1, <2>3, <2>5, <2>6, HexesIs, SegmentsFrom DEF r
<1>3. CASE c \in {"?", "#"}
  <2>1. InPath(c, "segments", PChar) = Suffix(c, <<>>)
    BY <1>3, InPathIs DEF PChar, Plain, Alpha, Digit
  <2>2. RefStep(ref, p, c) = Delimiter(ref, p, c)
    BY <1>3 DEF RefPath
  <2> QED
    BY <1>3, <2>1, <2>2, SuffixFrom
<1>4. CASE c \notin PChar \cup {"%", "?", "#"}
  <2>1. InPath(c, "segments", PChar) = Suffix(c, <<>>) /\ Suffix(c, <<>>) = Refuse
    BY <1>4, InPathIs, SuffixIs
  <2>2. Excused(r)
    BY <1>1, <1>4, RefPathIs DEF Excused, r
  <2> QED
    BY <1>1, <2>1, <2>2, RefuseOK DEF r
<1> QED
  BY <1>2, <1>3, <1>4

\* A step that runs no action and goes on in front of an authority.
LEMMA OpeningTo ==
    ASSUME p \in Nat, Spans(m, p), ~ m.thrown, ~ InLiteral, NEW c, NEW s, Placed(s), s.at \in Openings \ {"scheme"},
           NEW r, r = RefStep(ref, p, c), r.pct = s.pct, Named(m, r),
           \A u : SameSaved(u, m) => Opening(s, p + 1, u, r)
    PROVE  StepOK(To(s, <<>>), c)
<1> DEFINE u == Left(To(s, <<>>), c)
<1>1. s.at \notin {"digits", "port"}
  BY DEF Openings
<1>2. SameSaved(u, m) /\ Spans(u, p)
  BY <1>1, NothingSaved
<1> HIDE DEF u
<1>3. Named(u, r) /\ ~ u.thrown
  BY <1>2, SettledOn, SameHeadItself
<1>4. Reading(s, p + 1, u, r)
  BY <1>2, <1>3, ReadingIs
<1> QED
  BY <1>2, <1>3, <1>4, GoOnOK DEF u

\* The reference goes on to another component.
LEMMA PartIs ==
    ASSUME NEW r, DOMAIN r = RefFields, NEW part, NEW q, q = [r EXCEPT !.part = part]
    PROVE  /\ SameHead(q, r) /\ q.part = part /\ q.maybe = r.maybe /\ q.q = r.q /\ q.f = r.f
           /\ q.pct = r.pct /\ q.valid = r.valid /\ q.stx = r.stx
BY DEF SameHead, RefFields

SchemeChars(i) == IF i = 0 THEN Alpha ELSE Alpha \cup Digit \cup {"-", "."}

LEMMA RefFirstIs ==
    ASSUME NEW r, DOMAIN r = RefFields, NEW i, NEW c, NEW q, q = RefFirst(r, i, c)
    PROVE  /\ c = ":" /\ ~ (r.maybe /\ i > 0) => ~ q.valid
           /\ c = "/" => q = [r EXCEPT !.part = IF i = 0 THEN "slash" ELSE "path"]
           /\ c \in {"?", "#"} => q = Delimiter(r, i, c)
           /\ c \notin {":", "/", "?", "#"} =>
                 /\ SameHead(q, r) /\ q.part = r.part /\ q.q = r.q /\ q.f = r.f
                 /\ q.pct = Hexes(c)
                 /\ q.valid <=> r.valid /\ c \in PChar \cup {"%"}
                 /\ q.maybe <=> r.maybe /\ c \in SchemeChars(i)
<1>1. c = ":" /\ ~ (r.maybe /\ i > 0) => ~ q.valid
  BY DEF RefFirst, RefFields
<1>2. c = "/" => q = [r EXCEPT !.part = IF i = 0 THEN "slash" ELSE "path"]
  BY DEF RefFirst
<1>3. c \in {"?", "#"} => q = Delimiter(r, i, c)
  BY DEF RefFirst
<1>4. ASSUME c \notin {":", "/", "?", "#"}
      PROVE  /\ SameHead(q, r) /\ q.part = r.part /\ q.q = r.q /\ q.f = r.f
             /\ q.pct = Hexes(c)
             /\ q.valid <=> r.valid /\ c \in PChar \cup {"%"}
             /\ q.maybe <=> r.maybe /\ c \in SchemeChars(i)
  <2>1. q = [Inside(r, c, PChar) EXCEPT !.maybe = @ /\ c \in SchemeChars(i)]
    BY <1>4 DEF RefFirst, SchemeChars
  <2> DEFINE w == Inside(r, c, PChar)
  <2>2. DOMAIN w = RefFields
    BY DEF Inside
  <2>3. /\ SameHead(w, r) /\ w.part = r.part /\ w.maybe = r.maybe /\ w.q = r.q /\ w.f = r.f
        /\ w.pct = Hexes(c)
        /\ w.valid <=> r.valid /\ c \in PChar \cup {"%"}
    BY InsideIs
  <2> HIDE DEF w
  <2>4. /\ SameHead(q, w) /\ q.part = w.part /\ q.q = w.q /\ q.f = w.f /\ q.pct = w.pct /\ q.valid = w.valid
        /\ q.maybe <=> w.maybe /\ c \in SchemeChars(i)
    BY <2>1, <2>2 DEF SameHead, RefFields, w
  <2> QED
    BY <2>3, <2>4 DEF SameHead
<1> QED
  BY <1>1, <1>2, <1>3, <1>4

\* A path whose first segment is no scheme.
LEMMA FirstFrom ==
    ASSUME UriInv, phase = "read", cs.at \in Openings, cs.pct = 0, ref.part = "first", ref.scheme = None,
           NEW c \in Chars, c # "/", NEW chars, chars \subseteq PChar, PChar \ {":"} \subseteq chars,
           c = ":" => c \notin chars /\ ~ (ref.maybe /\ p > 0),
           ~ ref.maybe \/ c \notin SchemeChars(p)
    PROVE  StepOK(InPath(c, "first", chars), c)
<1> DEFINE r == RefStep(ref, p, c)
<1>1. /\ p \in Nat /\ Spans(m, p) /\ DOMAIN ref = RefFields /\ ~ InLiteral
      /\ ref.pct = 0 /\ ~ m.thrown /\ Named(m, ref) /\ NoAuthority(m, ref) /\ Headed(m, ref) /\ ref.valid
  BY BeforeOpening
<1>2. r = RefFirst(ref, p, c)
  BY <1>1 DEF RefStep
<1>3. chars \subseteq PChar \cup {"/"}
  OBVIOUS
<1> HIDE DEF r
<1>4. CASE c \in chars \cup {"%"}
  <2>1. PICK s : InPath(c, "first", chars) = To(s, <<>>) /\ Goes(s, "first", FALSE, Hexes(c))
    BY <1>3, <1>4, InPathIs
  <2>2. Placed(s) /\ s.at = "first" /\ s.pct = Hexes(c)
    BY <2>1, GoesIs, HexesIs
  <2>3. c \notin {":", "/", "?", "#"}
    BY <1>4 DEF PChar, Plain, Alpha, Digit
  <2>4. /\ SameHead(r, ref) /\ r.part = "first" /\ r.q = ref.q /\ r.f = ref.f
        /\ r.pct = Hexes(c) /\ r.valid /\ ~ r.maybe
    BY <1>1, <1>2, <1>4, <2>3, RefFirstIs
  <2>5. ASSUME NEW u, SameSaved(u, m) PROVE Opening(s, p + 1, u, r)
    <3>1. NoAuthority(u, r) /\ Headed(u, r)
      BY <1>1, <2>4, <2>5, OpeningOn
    <3>2. r.scheme = None
      BY <2>4 DEF SameHead
    <3> QED
      BY <1>1, <2>2, <2>4, <3>1, <3>2 DEF Opening
  <2>6. Named(m, r)
    BY <1>1, <2>4 DEF Named, NumericPassword, SameHead
  <2>7. r.pct = s.pct /\ s.at \in Openings \ {"scheme"} /\ Placed(s)
    BY <2>2, <2>4 DEF Openings
  <2> QED
    BY <1>1, <2>1, <2>5, <2>6, <2>7, OpeningTo DEF r
<1>5. CASE c \in {"?", "#"}
  <2>1. InPath(c, "first", chars) = Suffix(c, <<>>)
    BY <1>3, <1>5, InPathIs DEF PChar, Plain, Alpha, Digit
  <2>2. RefStep(ref, p, c) = Delimiter(ref, p, c)
    BY <1>1, <1>2, <1>5, RefFirstIs DEF r
  <2> QED
    BY <1>5, <2>1, <2>2, SuffixFrom
<1>6. CASE c \notin chars \cup {"%", "?", "#"}
  <2>1. InPath(c, "first", chars) = Suffix(c, <<>>) /\ Suffix(c, <<>>) = Refuse
    BY <1>3, <1>6, InPathIs, SuffixIs
  <2>2. ~ r.valid
    BY <1>1, <1>2, <1>6, RefFirstIs
  <2>3. Excused(r)
    BY <2>2 DEF Excused
  <2> QED
    BY <1>1, <2>1, <2>3, RefuseOK DEF r
<1> QED
  BY <1>4, <1>5, <1>6

LEMMA SlashFrom ==
    ASSUME UriInv, phase = "read", cs.at \in Openings, cs.pct = 0, ref.part = "first", p > 0, NEW c, c = "/"
    PROVE  StepOK(To(At("segments", FALSE), <<>>), c)
<1> DEFINE r == RefStep(ref, p, c)
           s == At("segments", FALSE)
<1>1. /\ p \in Nat /\ Spans(m, p) /\ DOMAIN ref = RefFields /\ ~ InLiteral
      /\ ref.pct = 0 /\ ~ m.thrown /\ Named(m, ref) /\ NoAuthority(m, ref) /\ Headed(m, ref) /\ ref.valid
  BY BeforeOpening
<1>2. r = RefFirst(ref, p, c)
  BY <1>1 DEF RefStep
<1>3. r = [ref EXCEPT !.part = IF p = 0 THEN "slash" ELSE "path"]
  BY <1>1, <1>2, RefFirstIs
<1>4. r = [ref EXCEPT !.part = "path"]
  BY <1>1, <1>3
<1> HIDE DEF r
<1>5. SameHead(r, ref) /\ r.part = "path" /\ r.q = ref.q /\ r.f = ref.f /\ r.pct = 0 /\ r.valid
  BY <1>1, <1>4, PartIs
<1>6. SameSaved(m, m)
  BY DEF SameSaved
<1>7. NoAuthority(m, r) /\ Headed(m, r)
  BY <1>1, <1>5, <1>6, OpeningOn
<1>8. Named(m, r)
  BY <1>1, <1>5 DEF Named, NumericPassword, SameHead
<1>9. Goes(s, "segments", FALSE, 0) /\ 0 \in 0 .. 2
  BY DEF Goes, At, PlaceFields
<1> HIDE DEF s
<1>10. StepOK(To(s, <<>>), c)
  BY <1>1, <1>5, <1>7, <1>8, <1>9, SegmentsFrom DEF r
<1> QED
  BY <1>10 DEF s

LEMMA FirstOK ==
    ASSUME UriInv, phase = "read", cs.at = "first", cs.pct = 0, NEW c \in Chars
    PROVE  StepOK(FirstStep(cs, c), c)
<1>0. cs.at \in Openings
  BY DEF Openings
<1>1. ref.part = "first" /\ ref.scheme = None /\ p > 0 /\ ~ ref.maybe
  BY <1>0, BeforeOpening DEF Opening
<1>2. CASE c = "/"
  BY <1>0, <1>1, <1>2, SlashFrom DEF FirstStep
<1>3. CASE c # "/"
  <2>1. FirstStep(cs, c) = InPath(c, "first", PChar \ {":"})
    BY <1>3 DEF FirstStep
  <2> DEFINE chars == PChar \ {":"}
  <2>2. chars \subseteq PChar /\ PChar \ {":"} \subseteq chars /\ (c = ":" => c \notin chars /\ ~ (ref.maybe /\ p > 0))
    BY <1>1
  <2> HIDE DEF chars
  <2>3. StepOK(InPath(c, "first", chars), c)
    BY <1>0, <1>1, <1>3, <2>2, FirstFrom
  <2> QED
    BY <2>1, <2>3 DEF chars
<1> QED
  BY <1>2, <1>3

LEMMA HierOK ==
    ASSUME UriInv, phase = "read", cs.at = "hier", cs.abs, cs.pct = 0, NEW c \in Chars
    PROVE  StepOK(HierStep(cs, c), c)
<1>0. cs.at \in Openings
  BY DEF Openings
<1>1. /\ p \in Nat /\ Spans(m, p) /\ DOMAIN ref = RefFields /\ ~ InLiteral
      /\ ref.pct = 0 /\ ~ m.thrown /\ Named(m, ref) /\ NoAuthority(m, ref) /\ Headed(m, ref) /\ ref.valid
      /\ ref.part = "hier" /\ ref.scheme \in Nat
  BY <1>0, BeforeOpening DEF Opening
<1>2. CASE c = "/"
  <2> DEFINE r == RefStep(ref, p, c)
             s == At("slash", TRUE)
  <2>1. r = [ref EXCEPT !.part = "slash"]
    BY <1>1, <1>2 DEF RefStep
  <2> HIDE DEF r
  <2>2. SameHead(r, ref) /\ r.part = "slash" /\ r.q = ref.q /\ r.f = ref.f /\ r.pct = 0 /\ r.valid
    BY <1>1, <2>1, PartIs
  <2>3. Placed(s) /\ s.at = "slash" /\ s.abs /\ s.pct = 0
    BY DEF At, Placed, PlaceFields
  <2>4. HierStep(cs, c) = To(s, <<>>)
    BY <1>2 DEF HierStep
  <2> HIDE DEF s
  <2>5. ASSUME NEW u, SameSaved(u, m) PROVE Opening(s, p + 1, u, r)
    <3>1. NoAuthority(u, r) /\ Headed(u, r)
      BY <1>1, <2>2, <2>5, OpeningOn
    <3>2. r.scheme \in Nat /\ r.scheme # None
      BY <1>1, <2>2 DEF SameHead, None
    <3> QED
      BY <2>2, <2>3, <3>1, <3>2 DEF Opening
  <2>6. Named(m, r)
    BY <1>1, <2>2 DEF Named, NumericPassword, SameHead
  <2>7. r.pct = s.pct /\ s.at \in Openings \ {"scheme"} /\ Placed(s)
    BY <2>2, <2>3 DEF Openings
  <2> QED
    BY <1>1, <2>4, <2>5, <2>6, <2>7, OpeningTo DEF r
<1>3. CASE c # "/"
  <2>1. HierStep(cs, c) = InPath(c, "segments", PChar)
    BY <1>3 DEF HierStep
  <2>2. RefStep(ref, p, c) = RefPath(ref, p, c)
    BY <1>1, <1>3 DEF RefStep
  <2> QED
    BY <1>0, <1>3, <2>1, <2>2, PathFrom
<1> QED
  BY <1>2, <1>3

\* The authority begins after the second "/".
LEMMA SlashOK ==
    ASSUME UriInv, phase = "read", cs.at = "slash", cs.pct = 0, NEW c \in Chars
    PROVE  StepOK(SlashStep(cs, c), c)
<1>0. cs.at \in Openings
  BY DEF Openings
<1>1. /\ p \in Nat /\ Spans(m, p) /\ DOMAIN ref = RefFields /\ ~ InLiteral /\ cs.abs \in BOOLEAN
      /\ ref.pct = 0 /\ ~ m.thrown /\ Named(m, ref) /\ NoAuthority(m, ref) /\ Headed(m, ref) /\ ref.valid
      /\ ref.part = "slash" /\ (cs.abs <=> ref.scheme # None) /\ ref.scheme \in Nat \cup {None}
  BY <1>0, BeforeOpening DEF Opening
<1>2. CASE c = "/"
  <2> DEFINE r == RefStep(ref, p, c)
             s == At("auth0", cs.abs)
             u == Left(To(s, <<>>), c)
  <2>1. r = [ref EXCEPT !.part = "auth", !.auth = p + 1]
    BY <1>1, <1>2 DEF RefStep
  <2> HIDE DEF r
  <2>2. /\ r.part = "auth" /\ r.auth = p + 1 /\ r.q = ref.q /\ r.f = ref.f /\ r.pct = 0 /\ r.valid
        /\ r.scheme = ref.scheme /\ r.at = ref.at /\ r.colon = ref.colon /\ r.num = ref.num /\ r.digits = ref.digits
        /\ r.closed = ref.closed /\ r.lit = ref.lit /\ r.numeric = ref.numeric
    BY <1>1, <2>1 DEF RefFields
  <2>3. Placed(s) /\ s.at = "auth0" /\ s.abs = cs.abs /\ s.pct = 0
    BY <1>1, AtIs
  <2>4. SlashStep(cs, c) = To(s, <<>>)
    BY <1>2 DEF SlashStep
  <2> HIDE DEF s
  <2>5. SameSaved(u, m) /\ Spans(u, p)
    BY <1>1, <2>3, NothingSaved
  <2> HIDE DEF u
  <2>6. r.at = None /\ r.colon = None /\ Portless(u, r) /\ ~ r.closed /\ r.lit = NoLiteral /\ ~ r.lit.future /\ u.port = 0
    BY <1>1, <2>2, <2>5 DEF NoAuthority, Portless, Unported, SameSaved, NoLiteral
  <2>7. Headed(u, r) /\ Named(u, r) /\ ~ u.thrown
    BY <1>1, <2>2, <2>5, <2>6 DEF Headed, Named, NumericPassword, SameSaved, NoAuthority
  <2>8. InAuthority(s, p + 1, u, r)
    BY <1>1, <2>2, <2>3, <2>6, <2>7 DEF InAuthority, HostStart
  <2>9. Naming(s, p + 1, u, r)
    BY <2>2, <2>3, <2>6 DEF Naming, HostStart
  <2>10. Reading(s, p + 1, u, r)
    BY <2>2, <2>3, <2>7, <2>8, <2>9, ReadingIs DEF Names
  <2> QED
    BY <1>1, <2>3, <2>4, <2>5, <2>7, <2>10, GoOnOK DEF r, u
<1>3. CASE c # "/"
  <2>1. SlashStep(cs, c) = InPath(c, "segments", PChar)
    BY <1>3 DEF SlashStep
  <2>2. RefStep(ref, p, c) = RefPath(ref, p, c)
    BY <1>1, <1>3 DEF RefStep
  <2> QED
    BY <1>0, <1>3, <2>1, <2>2, PathFrom
<1> QED
  BY <1>2, <1>3

LEMMA StartOK ==
    ASSUME UriInv, phase = "read", cs.at = "start", cs.pct = 0, NEW c \in Chars
    PROVE  StepOK(StartStep(cs, c), c)
<1>0. cs.at \in Openings
  BY DEF Openings
<1>1. /\ p = 0 /\ Spans(m, p) /\ DOMAIN ref = RefFields /\ ~ InLiteral
      /\ ref.pct = 0 /\ ~ m.thrown /\ Named(m, ref) /\ NoAuthority(m, ref) /\ Headed(m, ref) /\ ref.valid
      /\ ref.part = "first" /\ ref.scheme = None /\ ref.maybe
  BY <1>0, BeforeOpening DEF Opening
<1> DEFINE r == RefStep(ref, p, c)
<1>2. r = RefFirst(ref, p, c)
  BY <1>1 DEF RefStep
<1> HIDE DEF r
<1>3. CASE c \in Alpha
  <2> DEFINE s == At("scheme", TRUE)
             u == Left(To(s, <<"mark">>), c)
  <2>1. StartStep(cs, c) = To(s, <<"mark">>)
    BY <1>3 DEF StartStep, Alpha
  <2>2. Placed(s) /\ s.at = "scheme" /\ s.pct = 0
    BY DEF At, Placed, PlaceFields
  <2> HIDE DEF s
  <2>3. SameSaved(u, m) /\ u.mark = p /\ Spans(u, p)
    BY <1>1, <2>2, OnlyMarked
  <2> HIDE DEF u
  <2>4. c \notin {":", "/", "?", "#"} /\ c \in PChar /\ Hexes(c) = 0 /\ c \in SchemeChars(p)
    BY <1>1, <1>3 DEF PChar, Plain, Alpha, Digit, Hexes, SchemeChars
  <2>5. /\ SameHead(r, ref) /\ r.part = "first" /\ r.q = ref.q /\ r.f = ref.f
        /\ r.pct = 0 /\ r.valid /\ r.maybe
    BY <1>1, <1>2, <2>4, RefFirstIs
  <2>6. NoAuthority(u, r) /\ Headed(u, r) /\ Named(u, r) /\ ~ u.thrown
    <3>1. NoAuthority(u, r) /\ Headed(u, r)
      BY <1>1, <2>3, <2>5, OpeningOn
    <3> QED
      BY <1>1, <2>3, <2>5, <3>1 DEF Named, NumericPassword, SameHead, SameSaved
  <2>7. Opening(s, p + 1, u, r)
    BY <1>1, <2>2, <2>3, <2>5, <2>6 DEF Opening, SameHead
  <2>8. Reading(s, p + 1, u, r)
    BY <2>2, <2>5, <2>6, <2>7, ReadingIs DEF Openings
  <2> QED
    BY <1>1, <2>1, <2>2, <2>3, <2>6, <2>8, GoOnOK DEF r, u
<1>4. CASE c = "/"
  <2> DEFINE s == At("slash", FALSE)
  <2>1. StartStep(cs, c) = To(s, <<>>)
    BY <1>4 DEF StartStep, Alpha
  <2>2. Placed(s) /\ s.at = "slash" /\ ~ s.abs /\ s.pct = 0
    BY DEF At, Placed, PlaceFields
  <2> HIDE DEF s
  <2>3. r = [ref EXCEPT !.part = "slash"]
    BY <1>1, <1>2, <1>4, RefFirstIs
  <2>4. SameHead(r, ref) /\ r.part = "slash" /\ r.q = ref.q /\ r.f = ref.f /\ r.pct = 0 /\ r.valid
    BY <1>1, <2>3, PartIs
  <2>5. ASSUME NEW u, SameSaved(u, m) PROVE Opening(s, p + 1, u, r)
    <3>1. NoAuthority(u, r) /\ Headed(u, r)
      BY <1>1, <2>4, <2>5, OpeningOn
    <3>2. r.scheme = None
      BY <1>1, <2>4 DEF SameHead
    <3> QED
      BY <2>2, <2>4, <3>1, <3>2 DEF Opening
  <2>6. Named(m, r)
    BY <1>1, <2>4 DEF Named, NumericPassword, SameHead
  <2>7. r.pct = s.pct /\ s.at \in Openings \ {"scheme"} /\ Placed(s)
    BY <2>2, <2>4 DEF Openings
  <2> QED
    BY <1>1, <2>1, <2>5, <2>6, <2>7, OpeningTo DEF r
<1>5. CASE c \notin Alpha \cup {"/"}
  <2> DEFINE chars == PChar \ {":"}
  <2>1. StartStep(cs, c) = InPath(c, "first", chars)
    BY <1>5 DEF StartStep
  <2>2. chars \subseteq PChar /\ PChar \ {":"} \subseteq chars /\ (c = ":" => c \notin chars /\ ~ (ref.maybe /\ p > 0))
    BY <1>1
  <2>3. c \notin SchemeChars(p)
    BY <1>1, <1>5 DEF SchemeChars
  <2> HIDE DEF chars
  <2>4. StepOK(InPath(c, "first", chars), c)
    BY <1>0, <1>1, <1>5, <2>2, <2>3, FirstFrom
  <2> QED
    BY <2>1, <2>4
<1> QED
  BY <1>3, <1>4, <1>5

LEMMA SchemeOK ==
    ASSUME UriInv, phase = "read", cs.at = "scheme", cs.pct = 0, NEW c \in Chars
    PROVE  StepOK(SchemeStep(cs, c), c)
<1>0. cs.at \in Openings
  BY DEF Openings
<1>1. /\ p \in Nat /\ Spans(m, p) /\ DOMAIN ref = RefFields /\ ~ InLiteral
      /\ ref.pct = 0 /\ ~ m.thrown /\ Named(m, ref) /\ NoAuthority(m, ref) /\ Headed(m, ref) /\ ref.valid
      /\ ref.part = "first" /\ ref.scheme = None /\ ref.maybe /\ p > 0 /\ m.mark = 0
  BY <1>0, BeforeOpening DEF Opening
<1>2. Placed(cs)
  BY Before
<1> DEFINE r == RefStep(ref, p, c)
           name == Alpha \cup Digit \cup {"-", "."}
<1>3. r = RefFirst(ref, p, c) /\ SchemeChars(p) = name
  BY <1>1 DEF RefStep, SchemeChars
<1> HIDE DEF r
<1>4. CASE c \in name
  <2> DEFINE u == Left(To(cs, <<>>), c)
  <2>1. SchemeStep(cs, c) = To(cs, <<>>)
    BY <1>4 DEF SchemeStep, Alpha, Digit
  <2>2. SameSaved(u, m) /\ u.mark = 0 /\ Spans(u, p)
    BY <1>1, NothingSaved
  <2> HIDE DEF u
  <2>3. c \notin {":", "/", "?", "#"} /\ c \in PChar /\ Hexes(c) = 0
    BY <1>4 DEF PChar, Plain, Alpha, Digit, Hexes
  <2>4. /\ SameHead(r, ref) /\ r.part = "first" /\ r.q = ref.q /\ r.f = ref.f
        /\ r.pct = 0 /\ r.valid /\ r.maybe
    BY <1>1, <1>3, <1>4, <2>3, RefFirstIs
  <2>5. NoAuthority(u, r) /\ Headed(u, r)
    BY <1>1, <2>2, <2>4, OpeningOn
  <2>6. Named(u, r) /\ ~ u.thrown
    BY <1>1, <2>2, <2>4 DEF Named, NumericPassword, SameHead, SameSaved
  <2>7. Opening(cs, p + 1, u, r)
    BY <1>1, <2>2, <2>4, <2>5 DEF Opening, SameHead
  <2>8. Reading(cs, p + 1, u, r)
    BY <1>0, <2>4, <2>6, <2>7, ReadingIs
  <2> QED
    BY <1>1, <1>2, <2>1, <2>2, <2>6, <2>8, GoOnOK DEF r, u
<1>5. CASE c = ":"
  <2> DEFINE s == At("hier", TRUE)
             v == Save(m, "scheme")
             u == Left(To(s, <<"scheme">>), c)
  <2>1. SchemeStep(cs, c) = To(s, <<"scheme">>)
    BY <1>5 DEF SchemeStep, Alpha, Digit
  <2>2. Placed(s) /\ s.at = "hier" /\ s.abs /\ s.pct = 0
    BY DEF At, Placed, PlaceFields
  <2>3. u = Number(v, s, c)
    BY ActionsAre DEF Left, To
  <2> HIDE DEF s, u
  <2>4. Spans(v, p)
    BY <1>1, SaveSpans DEF SaveNames, SavedFields
  <2>5. Keeps(v, m, {"scheme"}) /\ v.scheme = <<0, p>>
    BY <1>1, SaveIs DEF NULL
  <2> HIDE DEF v
  <2>6. Keeps(u, v, {}) /\ Spans(u, p)
    BY <1>1, <2>2, <2>3, <2>4, NumberIs
  <2>7. /\ u.scheme = <<0, p>> /\ u.userinfo = m.userinfo /\ u.host = m.host /\ u.port = m.port
        /\ u.path = m.path /\ u.query = m.query /\ u.fragment = m.fragment /\ u.thrown = m.thrown
    BY <2>5, <2>6 DEF Keeps, SavedFields
  <2>8. r = [ref EXCEPT !.scheme = p, !.part = "hier"]
    BY <1>1, <1>3, <1>5 DEF RefFirst
  <2>9. /\ r.part = "hier" /\ r.scheme = p /\ r.q = ref.q /\ r.f = ref.f /\ r.pct = 0 /\ r.valid
        /\ r.auth = ref.auth /\ r.at = ref.at /\ r.colon = ref.colon /\ r.num = ref.num /\ r.digits = ref.digits
        /\ r.closed = ref.closed /\ r.lit = ref.lit /\ r.numeric = ref.numeric
    BY <1>1, <2>8 DEF RefFields
  <2>10. NoAuthority(u, r) /\ Headed(u, r)
    BY <1>1, <2>7, <2>9 DEF NoAuthority, Portless, Unported, Headed
  <2>11. Named(u, r) /\ ~ u.thrown
    BY <1>1, <2>7, <2>9 DEF Named, NumericPassword, None
  <2>12. Opening(s, p + 1, u, r)
    BY <1>1, <2>2, <2>9, <2>10 DEF Opening
  <2>13. Reading(s, p + 1, u, r)
    BY <2>2, <2>9, <2>11, <2>12, ReadingIs DEF Openings
  <2> QED
    BY <1>1, <2>1, <2>2, <2>6, <2>11, <2>13, GoOnOK DEF r, u
<1>6. CASE c = "/"
  <2>1. SchemeStep(cs, c) = To(At("segments", FALSE), <<>>)
    BY <1>6 DEF SchemeStep, Alpha, Digit
  <2> QED
    BY <1>0, <1>1, <1>6, <2>1, SlashFrom
<1>7. CASE c \notin name \cup {":", "/"}
  <2>1. SchemeStep(cs, c) = InPath(c, "first", PChar)
    BY <1>7 DEF SchemeStep
  <2>2. PChar \subseteq PChar /\ PChar \ {":"} \subseteq PChar
    OBVIOUS
  <2>3. c # "/" /\ c # ":" /\ c \notin SchemeChars(p)
    BY <1>3, <1>7
  <2> QED
    BY <1>0, <1>1, <2>1, <2>2, <2>3, FirstFrom
<1> QED
  BY <1>4, <1>5, <1>6, <1>7

-----------------------------------------------------------------------------
(* The end of an authority.                                                *)

Enders == {"auth0", "host0", "name", "host", "v4", "end", "colon", "port0", "digits", "port"}

\* What is known in an authority.
LEMMA BeforeAuthority ==
    ASSUME UriInv, phase = "read", cs.at \in Authorities
    PROVE  /\ p \in Nat /\ Spans(m, p) /\ DOMAIN m = UriFields /\ DOMAIN ref = RefFields /\ DOMAIN ref.lit = LitFields
           /\ Placed(cs) /\ DOMAIN cs = PlaceFields /\ cs.abs \in BOOLEAN
           /\ ref.pct = cs.pct /\ ~ m.thrown /\ Named(m, ref) /\ InAuthority(cs, p, m, ref)
           /\ cs.at \in Names => Naming(cs, p, m, ref)
           /\ cs.at \in Passwords => Password(cs, p, m, ref)
           /\ cs.at \in Ports => Porting(cs, p, m, ref)
           /\ cs.at \in Literals => Literal(cs, p, m, ref)
BY Before DEF Reading

\* Where an authority may end.
Ending(s, i, u, r) ==
    /\ Tolerated(r) /\ r.digits /\ r.part = "auth"
    /\ s.at \in {"auth0", "host0", "name", "host", "v4", "end"} => r.colon = None /\ r.num = 0
    /\ s.at \in {"auth0", "host0"} => HostStart(r) = i
    /\ s.at \in {"name", "host", "v4", "end"} => u.mark = HostStart(r)
    /\ s.at \in {"colon", "port0", "digits", "port"} => u.host = <<HostStart(r), r.colon>> /\ r.colon \in 0 .. i - 1
    /\ s.at \in {"colon", "port0"} => r.colon = i - 1 /\ r.num = 0
    /\ s.at \in {"digits", "port"} => r.colon < i - 1 /\ u.mark = r.colon + 1 /\ u.num = r.num

LEMMA EndingIs ==
    ASSUME UriInv, phase = "read", cs.at \in Enders
    PROVE  Ending(cs, p, m, ref)
<1>1. cs.at \in Authorities
  BY DEF Enders, Authorities, Names, Passwords, Ports
<1>2. p \in Nat /\ ref.auth \in Nat /\ (ref.at = None \/ ref.at \in Nat)
  BY <1>1, BeforeAuthority DEF InAuthority
<1>3. HostStart(ref) \in Nat
  BY <1>2 DEF HostStart
<1>4. CASE cs.at \in Names
  <2>1. Naming(cs, p, m, ref)
    BY <1>1, <1>4, BeforeAuthority
  <2> QED
    BY <1>4, <2>1 DEF Ending, Naming, Portless, Unported, Tolerated, Names
<1>5. CASE cs.at \in Passwords
  <2>1. Password(cs, p, m, ref)
    BY <1>1, <1>5, BeforeAuthority
  <2>2. cs.at \in {"colon", "digits"} /\ HostStart(ref) = ref.auth
    BY <1>5, <2>1 DEF Enders, Passwords, Password, HostStart
  <2>3. ref.colon \in 0 .. p - 1
    BY <1>2, <2>1 DEF Password
  <2> QED
    BY <2>1, <2>2, <2>3 DEF Ending, Password, Unported, Tolerated
<1>6. CASE cs.at \in Ports
  <2>1. Porting(cs, p, m, ref)
    BY <1>1, <1>6, BeforeAuthority
  <2>2. cs.at \in {"port0", "port"} => ref.colon \in 0 .. p - 1
    BY <1>2, <1>3, <2>1 DEF Porting
  <2> QED
    BY <1>6, <2>1, <2>2 DEF Ending, Porting, Unported, Ports
<1> QED
  BY <1>1, <1>4, <1>5, <1>6 DEF Enders, Names, Passwords, Ports

\* The host and the port are saved.
Hosted(v) ==
    /\ Keeps(v, m, {"host", "port"}) /\ Spans(v, p) /\ ~ v.thrown
    /\ v.host = <<HostStart(ref), OrElse(ref.colon, p)>> /\ v.port = ref.num % PortRange

LEMMA MarkKeeps ==
    ASSUME NEW v, Hosted(v), p \in Nat
    PROVE  Hosted(Save(v, "mark")) /\ Save(v, "mark").mark = p
<1>1. Spans(v, p) /\ ~ v.thrown
  BY DEF Hosted
<1>2. Spans(Save(v, "mark"), p)
  BY <1>1, SaveSpans DEF SaveNames
<1>3. Keeps(Save(v, "mark"), v, {}) /\ Save(v, "mark").mark = p
  BY <1>1, SaveIs
<1> DEFINE w == Save(v, "mark")
<1> HIDE DEF w
<1>4. Keeps(w, v, {}) /\ w.mark = p /\ Spans(w, p)
  BY <1>2, <1>3 DEF w
<1>5. Hosted(w)
  BY <1>4 DEF Hosted, Keeps, SavedFields
<1> QED
  BY <1>4, <1>5 DEF w

\* What save_host or save_port leaves.
LEMMA SavesHost ==
    ASSUME UriInv, phase = "read", cs.at \in Enders,
           NEW w, w = (IF cs.at \in {"auth0", "host0", "colon", "port0"} THEN Save(m, "mark") ELSE m),
           NEW v, v = Save(w, IF cs.at \in {"colon", "port0", "digits", "port"} THEN "port" ELSE "host")
    PROVE  /\ Hosted(v)
           /\ cs.at \in {"auth0", "host0"} => v.mark = p
           /\ cs.at \in {"colon", "port0"} => v.mark = NULL
<1>0. cs.at \in Authorities
  BY DEF Enders, Authorities, Names, Passwords, Ports
<1>1. p \in Nat /\ Spans(m, p) /\ ~ m.thrown /\ m.port = 0 /\ ref.auth \in Nat /\ (ref.at = None \/ ref.at \in Nat)
  BY <1>0, BeforeAuthority DEF InAuthority
<1>2. Ending(cs, p, m, ref)
  BY EndingIs
<1>3. HostStart(ref) \in Nat
  BY <1>1 DEF HostStart
<1>4. /\ Spans(w, p) /\ ~ w.thrown /\ Keeps(w, m, {}) /\ w.num = m.num
      /\ w.mark = IF cs.at \in {"auth0", "host0", "colon", "port0"} THEN p ELSE m.mark
  <2>1. Keeps(m, m, {})
    BY DEF Keeps
  <2>2. Spans(Save(m, "mark"), p)
    BY <1>1, SaveSpans DEF SaveNames
  <2>3. Keeps(Save(m, "mark"), m, {}) /\ Save(m, "mark").mark = p /\ Save(m, "mark").num = m.num
    BY <1>1, SaveIs
  <2>4. ~ Save(m, "mark").thrown
    BY <1>1, <2>3 DEF Keeps
  <2> QED
    BY <1>1, <2>1, <2>2, <2>3, <2>4
<1>5. CASE cs.at \in {"auth0", "host0", "name", "host", "v4", "end"}
  <2>1. v = Save(w, "host")
    BY <1>5
  <2>2. w.mark = HostStart(ref) /\ ref.colon = None /\ ref.num = 0
    BY <1>2, <1>4, <1>5 DEF Ending
  <2>3. w.mark # NULL
    BY <1>3, <2>2 DEF NULL
  <2>4. Keeps(v, w, {"host"}) /\ v.host = <<w.mark, p>> /\ v.mark = w.mark
    BY <1>1, <1>4, <2>1, <2>3, SaveIs
  <2>5. Spans(v, p)
    BY <1>1, <1>4, <2>1, SaveSpans DEF SaveNames, SavedFields
  <2>6. 0 % PortRange = 0
    BY PortRangeIs
  <2>7. v.port = m.port /\ v.thrown = m.thrown /\ Keeps(v, m, {"host", "port"})
    BY <1>4, <2>4 DEF Keeps, SavedFields
  <2>8. Hosted(v)
    BY <1>1, <2>2, <2>4, <2>5, <2>6, <2>7 DEF Hosted, OrElse
  <2> QED
    BY <1>4, <1>5, <2>4, <2>8
<1>6. CASE cs.at \in {"colon", "port0", "digits", "port"}
  <2>1. v = Save(w, "port")
    BY <1>6
  <2>2. Keeps(v, w, {"port"}) /\ v.mark = NULL /\ v.port = IF w.mark = p THEN w.port ELSE w.num % PortRange
    BY <1>1, <1>4, <2>1, SaveIs
  <2>3. Spans(v, p)
    BY <1>1, <1>4, <2>1, SaveSpans DEF SaveNames
  <2>4. v.host = m.host /\ v.thrown = m.thrown /\ w.port = m.port /\ Keeps(v, m, {"host", "port"})
    BY <1>4, <2>2 DEF Keeps, SavedFields
  <2>5. v.host = <<HostStart(ref), ref.colon>> /\ ref.colon \in 0 .. p - 1 /\ ref.colon # None
    BY <1>1, <1>2, <1>6, <2>4 DEF Ending, None
  <2>6. v.port = ref.num % PortRange
    <3>1. CASE cs.at \in {"colon", "port0"}
      <4>1. ref.num = 0 /\ 0 % PortRange = 0
        BY <1>2, <3>1, PortRangeIs DEF Ending
      <4> QED
        BY <1>1, <1>4, <2>2, <2>4, <3>1, <4>1
    <3>2. CASE cs.at \in {"digits", "port"}
      <4>1. w.num = ref.num /\ w.mark = ref.colon + 1 /\ ref.colon < p - 1
        BY <1>2, <1>4, <3>2 DEF Ending
      <4>2. w.mark # p
        BY <1>1, <2>5, <4>1
      <4> QED
        BY <2>2, <4>1, <4>2
    <3> QED
      BY <1>6, <3>1, <3>2
  <2>7. Hosted(v)
    BY <1>1, <2>3, <2>4, <2>5, <2>6 DEF Hosted, OrElse
  <2> QED
    BY <1>6, <2>2, <2>7
<1> QED
  BY <1>5, <1>6 DEF Enders

LEMMA EndedIs ==
    ASSUME UriInv, phase = "read", cs.at \in Enders,
           NEW v, v = Actions(EndSaves(cs) \o EndMarks(cs))
    PROVE  /\ Hosted(v)
           /\ cs.abs => v.mark = p \/ (v.mark = NULL /\ ref.colon # None /\ p = ref.colon + 1)
           /\ Actions(EmptyPathSaves(cs)) = IF cs.abs THEN Save(v, "path") ELSE v
<1>0. cs.at \in Authorities
  BY DEF Enders, Authorities, Names, Passwords, Ports
<1>1. p \in Nat /\ cs.abs \in BOOLEAN
  BY <1>0, BeforeAuthority
<1> DEFINE w == IF cs.at \in {"auth0", "host0", "colon", "port0"} THEN Save(m, "mark") ELSE m
           a == IF cs.at \in {"colon", "port0", "digits", "port"} THEN "port" ELSE "host"
           x == Save(w, a)
<1>2. Hosted(x) /\ (cs.at \in {"auth0", "host0"} => x.mark = p) /\ (cs.at \in {"colon", "port0"} => x.mark = NULL)
  BY SavesHost
<1>3. CASE cs.at \in {"auth0", "host0", "colon", "port0"}
  <2>1. EndSaves(cs) = <<"mark", a>> /\ EndMarks(cs) = <<>>
    BY <1>3 DEF EndSaves, EndMarks
  <2> HIDE DEF a
  <2>2. EndSaves(cs) \o EndMarks(cs) = <<"mark", a>>
    BY <2>1, Joined
  <2>3. v = x
    BY <1>3, <2>2, ActionsAre
  <2>4. EmptyPathSaves(cs) = IF cs.abs THEN <<"mark", a, "path">> ELSE <<"mark", a>>
    BY <2>2, Joined DEF EmptyPathSaves
  <2>5. Actions(EmptyPathSaves(cs)) = IF cs.abs THEN Save(v, "path") ELSE v
    BY <1>3, <2>2, <2>3, <2>4, ActionsAre
  <2>6. cs.at \in {"colon", "port0"} => ref.colon # None /\ p = ref.colon + 1
    BY <1>1, EndingIs DEF Ending, None
  <2> HIDE DEF x
  <2> QED
    BY <1>2, <1>3, <2>3, <2>5, <2>6
<1>4. CASE cs.at \notin {"auth0", "host0", "colon", "port0"}
  <2>1. EndSaves(cs) = <<a>> /\ EndMarks(cs) = IF cs.abs THEN <<"mark">> ELSE <<>>
    BY <1>4 DEF EndSaves, EndMarks, Enders
  <2> HIDE DEF a
  <2>2. EndSaves(cs) \o EndMarks(cs) = IF cs.abs THEN <<a, "mark">> ELSE <<a>>
    BY <2>1, Joined
  <2>3. v = IF cs.abs THEN Save(x, "mark") ELSE x
    BY <1>4, <2>2, ActionsAre
  <2>4. EmptyPathSaves(cs) = IF cs.abs THEN <<a, "mark", "path">> ELSE <<a>>
    BY <2>2, Joined DEF EmptyPathSaves
  <2>5. Actions(EmptyPathSaves(cs)) = IF cs.abs THEN Save(v, "path") ELSE v
    BY <1>4, <2>2, <2>3, <2>4, ActionsAre
  <2> HIDE DEF x
  <2>6. Hosted(Save(x, "mark")) /\ Save(x, "mark").mark = p
    BY <1>1, <1>2, MarkKeeps
  <2> QED
    BY <1>2, <2>3, <2>5, <2>6
<1> QED
  BY <1>3, <1>4

\* The reference ends the authority.
LEMMA EndsAt ==
    ASSUME NEW r, DOMAIN r = RefFields, r.part = "auth", r.pct = 0, NEW i, NEW c \in {"/", "?", "#"},
           NEW q, q = RefStep(r, i, c)
    PROVE  /\ q.scheme = r.scheme /\ q.auth = r.auth /\ q.at = r.at /\ q.colon = r.colon /\ q.num = r.num
           /\ q.numeric = r.numeric /\ q.future = r.future /\ q.stx = r.stx /\ q.pct = 0 /\ q.end = i
           /\ q.valid <=> r.valid /\ r.digits
           /\ c = "/" => q.part = "path" /\ q.q = r.q /\ q.f = r.f
           /\ c = "?" => q.part = "query" /\ q.q = i /\ q.f = r.f
           /\ c = "#" => q.part = "fragment" /\ q.f = i /\ q.q = r.q
<1>1. q = RefAuthority(r, i, c)
  BY DEF RefStep
<1> DEFINE e == EndAuthorityAt(r, i)
<1>2. q = IF c = "/" THEN [e EXCEPT !.part = "path"] ELSE Delimiter(e, i, c)
  BY <1>1 DEF RefAuthority
<1>3. /\ DOMAIN e = RefFields /\ e.end = i /\ (e.valid <=> r.valid /\ r.digits)
      /\ e.scheme = r.scheme /\ e.auth = r.auth /\ e.at = r.at /\ e.colon = r.colon /\ e.num = r.num
      /\ e.numeric = r.numeric /\ e.future = r.future /\ e.stx = r.stx /\ e.pct = 0 /\ e.q = r.q /\ e.f = r.f
  BY DEF EndAuthorityAt, RefFields
<1> HIDE DEF e
<1>4. /\ SameHead(q, e) /\ q.pct = e.pct /\ q.valid = e.valid /\ q.stx = e.stx
      /\ c = "/" => q.part = "path" /\ q.q = e.q /\ q.f = e.f
      /\ c = "?" => q.part = "query" /\ q.q = i /\ q.f = e.f
      /\ c = "#" => q.part = "fragment" /\ q.f = i /\ q.q = e.q
  BY <1>2, <1>3, PartIs, DelimiterIs
<1> QED
  BY <1>3, <1>4 DEF SameHead

LEMMA EndAuthorityOK ==
    ASSUME UriInv, phase = "read", cs.at \in Enders, cs.pct = 0, NEW c \in {"/", "?", "#"}
    PROVE  StepOK(EndAuthority(cs, c), c)
<1>0. cs.at \in Authorities /\ cs.at \notin Literals
  BY DEF Enders, Authorities, Names, Passwords, Ports, Literals
<1>1. /\ p \in Nat /\ Spans(m, p) /\ DOMAIN ref = RefFields /\ cs.abs \in BOOLEAN
      /\ ref.pct = 0 /\ ~ m.thrown /\ Named(m, ref) /\ InAuthority(cs, p, m, ref)
  BY <1>0, BeforeAuthority
<1>2. ~ InLiteral
  BY <1>0 DEF InLiteral, Literals
<1>3. Tolerated(ref) /\ ref.digits /\ ref.part = "auth"
  BY EndingIs DEF Ending
<1>4. Headed(m, ref) /\ (cs.abs <=> ref.scheme # None) /\ ref.auth \in Nat /\ ref.auth # None
  BY <1>1 DEF InAuthority, None
<1> DEFINE r == RefStep(ref, p, c)
           v == Actions(EndSaves(cs) \o EndMarks(cs))
           w == Actions(EmptyPathSaves(cs))
<1>5. /\ r.scheme = ref.scheme /\ r.auth = ref.auth /\ r.at = ref.at /\ r.colon = ref.colon /\ r.num = ref.num
      /\ r.numeric = ref.numeric /\ r.future = ref.future /\ r.stx = ref.stx /\ r.pct = 0 /\ r.end = p
      /\ r.valid <=> ref.valid /\ ref.digits
      /\ c = "/" => r.part = "path" /\ r.q = ref.q /\ r.f = ref.f
      /\ c = "?" => r.part = "query" /\ r.q = p /\ r.f = ref.f
      /\ c = "#" => r.part = "fragment" /\ r.f = p /\ r.q = ref.q
  BY <1>1, <1>3, EndsAt
<1>6. /\ Hosted(v)
      /\ cs.abs => v.mark = p \/ (v.mark = NULL /\ ref.colon # None /\ p = ref.colon + 1)
      /\ w = IF cs.abs THEN Save(v, "path") ELSE v
  BY EndedIs
<1> HIDE DEF r, v, w
<1>7. Tolerated(r) /\ HostStart(r) = HostStart(ref)
  BY <1>3, <1>5 DEF Tolerated, HostStart
<1>8. /\ Spans(v, p) /\ ~ v.thrown /\ v.scheme = m.scheme /\ v.userinfo = m.userinfo
      /\ v.path = m.path /\ v.query = m.query /\ v.fragment = m.fragment
  BY <1>6 DEF Hosted, Keeps, SavedFields
<1>9. Settled(v, r) /\ Named(v, r)
  BY <1>1, <1>4, <1>5, <1>6, <1>7, <1>8 DEF Settled, Named, NumericPassword, Hosted, OrElse
<1>10. CASE c = "/"
  <2> DEFINE s == At(IF cs.abs THEN "path" ELSE "segments", cs.abs)
             u == Left(To(s, EndSaves(cs) \o EndMarks(cs)), c)
  <2>1. EndAuthority(cs, c) = To(s, EndSaves(cs) \o EndMarks(cs))
    BY <1>10 DEF EndAuthority
  <2>2. Placed(s) /\ s.at = (IF cs.abs THEN "path" ELSE "segments") /\ s.pct = 0
    BY <1>1, AtIs
  <2>3. u = Number(v, s, c)
    BY DEF Left, To, v
  <2> HIDE DEF s, u
  <2>4. Keeps(u, v, {}) /\ u.mark = v.mark /\ Spans(u, p)
    BY <1>1, <1>8, <2>2, <2>3, NumberIs
  <2>5. SameSaved(u, v)
    BY <2>4, KeepsIs
  <2>6. Named(u, r) /\ Settled(u, r) /\ ~ u.thrown
    BY <1>8, <1>9, <2>5, SettledOn, SameHeadItself
  <2>7. Headed(u, r)
    BY <1>4, <1>5, <1>8, <1>10, <2>5 DEF Headed, SameSaved
  <2>8. Segmented(s, p + 1, u, r)
    BY <1>1, <1>4, <1>5, <1>6, <1>10, <2>2, <2>4, <2>6, <2>7 DEF Segmented
  <2>9. Reading(s, p + 1, u, r)
    BY <1>5, <2>2, <2>6, <2>8, ReadingIs DEF Segs
  <2> QED
    BY <1>2, <2>1, <2>2, <2>4, <2>6, <2>9, GoOnOK DEF r, u
<1>11. CASE c \in {"?", "#"}
  <2>1. EndAuthority(cs, c) = Suffix(c, EmptyPathSaves(cs))
    BY <1>11 DEF EndAuthority
  <2>2. Spans(w, p)
    BY <1>1, <1>6, <1>8, SaveSpans DEF SaveNames, SavedFields
  <2>3. CASE ~ cs.abs
    <3>1. w = v
      BY <1>6, <2>3
    <3>2. PathSaved(v, r, p) /\ v.query = NoSpan /\ v.fragment = NoSpan /\ ref.q = None /\ ref.f = None
      BY <1>4, <1>5, <1>8, <2>3 DEF PathSaved, Headed
    <3> QED
      BY <1>1, <1>2, <1>5, <1>8, <1>9, <1>11, <2>1, <2>2, <3>1, <3>2, SuffixOK DEF w, r
  <2>4. CASE cs.abs /\ v.mark = NULL
    <3>1. w = Save(v, "path") /\ ref.colon # None /\ p = ref.colon + 1
      BY <1>1, <1>6, <2>4 DEF NULL
    <3>2. w.thrown
      BY <1>1, <1>8, <2>4, <3>1, SaveIs
    <3>3. r.scheme # None /\ r.colon # None /\ r.end = r.colon + 1
      BY <1>4, <1>5, <2>4, <3>1
    <3> QED
      BY <1>1, <1>7, <1>11, <2>1, <2>2, <3>2, <3>3, SuffixThrows DEF w, r
  <2>5. CASE cs.abs /\ v.mark # NULL
    <3>1. w = Save(v, "path") /\ v.mark = p
      BY <1>6, <2>5
    <3>2. Keeps(w, v, {"path"}) /\ w.path = <<p, p>>
      BY <1>1, <1>8, <2>5, <3>1, SaveIs
    <3>3. /\ w.scheme = v.scheme /\ w.userinfo = v.userinfo /\ w.host = v.host /\ w.port = v.port
          /\ w.query = v.query /\ w.fragment = v.fragment /\ w.thrown = v.thrown
      BY <3>2 DEF Keeps, SavedFields
    <3>4. Named(w, r) /\ Settled(w, r) /\ ~ w.thrown
      BY <1>8, <1>9, <3>3 DEF Named, NumericPassword, Settled
    <3>5. PathSaved(w, r, p) /\ w.query = NoSpan /\ w.fragment = NoSpan /\ ref.q = None /\ ref.f = None
      BY <1>4, <1>5, <1>8, <2>5, <3>2, <3>3 DEF PathSaved, Headed
    <3> QED
      BY <1>1, <1>2, <1>5, <1>11, <2>1, <2>2, <3>4, <3>5, SuffixOK DEF w, r
  <2> QED
    BY <1>1, <2>3, <2>4, <2>5
<1> QED
  BY <1>10, <1>11

\* Nothing else ends an authority.
LEMMA EndAuthorityRefuses ==
    ASSUME NEW s, NEW c, c \notin {"/", "?", "#"}
    PROVE  EndAuthority(s, c) = Refuse
BY SuffixIs DEF EndAuthority

-----------------------------------------------------------------------------
(* What the reference does in an authority.                                *)

LEMMA ValueIs ==
    /\ Value("0") = 0 /\ Value("1") = 1 /\ Value("2") = 2 /\ Value("3") = 3 /\ Value("5") = 5 /\ Value("6") = 6
    /\ \A c \in Digit : Value(c) \in Nat
<1> DEFINE t == <<"0", "1", "2", "3", "4", "5", "6">>
           S == {0, 1, 2, 3, 5, 6}
<1>1. /\ t[0 + 1] = "0" /\ t[1 + 1] = "1" /\ t[2 + 1] = "2" /\ t[3 + 1] = "3" /\ t[5 + 1] = "5" /\ t[6 + 1] = "6"
  OBVIOUS
<1>2. \A c : Value(c) = CHOOSE n \in S : c = t[n + 1]
  BY Zenon DEF Value
<1> HIDE DEF t
<1>3. \A n \in S, k \in S : t[n + 1] = t[k + 1] => n = k
  BY <1>1
<1>4. ASSUME NEW k \in S PROVE Value(t[k + 1]) = k
  <2>1. (CHOOSE n \in S : t[k + 1] = t[n + 1]) = k
    <3>1. \E n \in S : t[k + 1] = t[n + 1]
      OBVIOUS
    <3> DEFINE j == CHOOSE n \in S : t[k + 1] = t[n + 1]
    <3>2. j \in S /\ t[k + 1] = t[j + 1]
      BY <3>1, Zenon
    <3> HIDE DEF j
    <3>3. j = k
      BY <1>3, <3>2, Zenon
    <3> QED
      BY <3>3 DEF j
  <2> QED
    BY <1>2, <2>1, Zenon
<1>5. /\ Value("0") = 0 /\ Value("1") = 1 /\ Value("2") = 2 /\ Value("3") = 3 /\ Value("5") = 5 /\ Value("6") = 6
  <2>1. 0 \in S /\ 1 \in S /\ 2 \in S /\ 3 \in S /\ 5 \in S /\ 6 \in S
    OBVIOUS
  <2> HIDE DEF S
  <2> QED
    BY <1>1, <1>4, <2>1
<1> QED
  BY <1>5 DEF Digit

\* What a character of an authority leaves alone.
SameAuth(q, r) ==
    /\ q.scheme = r.scheme /\ q.auth = r.auth /\ q.closed = r.closed /\ q.lit = r.lit /\ q.q = r.q /\ q.f = r.f
    /\ q.future = r.future /\ (r.stx => q.stx) /\ (r.numeric => q.numeric)

LEMMA RefAtSign ==
    ASSUME NEW r, DOMAIN r = RefFields, r.part = "auth", r.pct = 0, NEW i, NEW c, c = "@", NEW q, q = RefStep(r, i, c)
    PROVE  /\ SameAuth(q, r) /\ q.part = "auth" /\ q.pct = 0 /\ q.at = i /\ q.colon = None /\ q.num = 0 /\ q.digits
           /\ q.numeric = r.numeric
           /\ q.valid <=> r.valid /\ ~ Fixed(r)
<1>1. q = RefAuthority(r, i, c)
  BY DEF RefStep
<1>2. q = [r EXCEPT !.valid = @ /\ ~ Fixed(r), !.at = i, !.colon = None, !.num = 0, !.digits = TRUE]
  BY <1>1 DEF RefAuthority
<1> QED
  BY <1>2 DEF SameAuth, RefFields

LEMMA RefColon ==
    ASSUME NEW r, DOMAIN r = RefFields, r.part = "auth", r.pct = 0, NEW i, NEW c, c = ":", r.colon = None,
           NEW q, q = RefStep(r, i, c)
    PROVE  /\ SameAuth(q, r) /\ q.part = "auth" /\ q.pct = 0 /\ q.at = r.at /\ q.colon = i
           /\ q.num = r.num /\ q.digits = r.digits /\ q.valid = r.valid /\ q.numeric = r.numeric
<1>1. q = RefAuthority(r, i, c)
  BY DEF RefStep
<1>2. q = [r EXCEPT !.colon = i]
  BY <1>1 DEF RefAuthority
<1> QED
  BY <1>2 DEF SameAuth, RefFields

LEMMA RefBracket ==
    ASSUME NEW r, DOMAIN r = RefFields, r.part = "auth", r.pct = 0, NEW i, NEW c, c = "[", NEW q, q = RefStep(r, i, c)
    PROVE  /\ SameAuth(q, r) /\ q.part = "lit" /\ q.pct = 0 /\ q.at = r.at /\ q.colon = r.colon
           /\ q.num = r.num /\ q.digits = r.digits /\ q.numeric = r.numeric
           /\ q.valid <=> r.valid /\ i = HostStart(r) /\ ~ r.closed
<1>1. q = RefAuthority(r, i, c)
  BY DEF RefStep
<1> DEFINE valid == r.valid /\ i = HostStart(r) /\ ~ r.closed
<1>2. q = [r EXCEPT !.valid = valid, !.part = "lit"]
  BY <1>1 DEF RefAuthority
<1> HIDE DEF valid
<1>3. /\ SameAuth(q, r) /\ q.part = "lit" /\ q.pct = 0 /\ q.at = r.at /\ q.colon = r.colon
      /\ q.num = r.num /\ q.digits = r.digits /\ q.numeric = r.numeric /\ q.valid = valid
  BY <1>2 DEF SameAuth, RefFields
<1> QED
  BY <1>3 DEF valid

Delimiters == {"/", "?", "#", "@", "[", ":"}

\* A character of a name.
LEMMA RefName ==
    ASSUME NEW r, DOMAIN r = RefFields, r.part = "auth", r.pct = 0, r.colon = None, NEW i, NEW c, c \notin Delimiters,
           NEW q, q = RefStep(r, i, c)
    PROVE  /\ SameAuth(q, r) /\ q.part = "auth" /\ q.at = r.at /\ q.colon = None
           /\ q.num = r.num /\ q.digits = r.digits /\ q.numeric = r.numeric /\ q.pct = Hexes(c)
           /\ q.valid <=> r.valid /\ ~ r.closed /\ c \in Plain \cup {"%"}
           /\ q.stx <=> r.stx \/ c = "STX"
<1>1. q = RefAuthority(r, i, c)
  BY DEF RefStep
<1> DEFINE w == Inside(r, c, Plain)
<1>2. q = [w EXCEPT !.valid = @ /\ ~ r.closed]
  BY <1>1 DEF RefAuthority, Delimiters
<1>3. DOMAIN w = RefFields
  BY DEF Inside
<1>4. /\ SameHead(w, r) /\ w.part = r.part /\ w.q = r.q /\ w.f = r.f /\ w.pct = Hexes(c)
      /\ w.valid <=> r.valid /\ c \in Plain \cup {"%"}
      /\ w.stx <=> r.stx \/ c = "STX"
  BY InsideIs
<1> HIDE DEF w
<1>5. /\ SameHead(q, w) /\ q.part = w.part /\ q.q = w.q /\ q.f = w.f /\ q.pct = w.pct /\ q.stx = w.stx
      /\ q.valid <=> w.valid /\ ~ r.closed
  BY <1>2, <1>3 DEF SameHead, RefFields
<1> QED
  BY <1>4, <1>5 DEF SameHead, SameAuth

\* A digit after a ":".
LEMMA RefDigit ==
    ASSUME NEW r, DOMAIN r = RefFields, r.part = "auth", r.pct = 0, r.colon # None, NEW i, NEW c \in Digit,
           NEW q, q = RefStep(r, i, c)
    PROVE  /\ SameAuth(q, r) /\ q.part = "auth" /\ q.at = r.at /\ q.colon = r.colon /\ q.pct = 0
           /\ q.num = r.num * 10 + Value(c) /\ q.digits = r.digits /\ q.valid = r.valid
           /\ q.numeric <=> r.numeric \/ (r.colon = i - 1 /\ ~ Fixed(r))
<1>1. q = RefAuthority(r, i, c)
  BY DEF RefStep
<1> DEFINE num == r.num * 10 + Value(c)
           numeric == r.numeric \/ (r.colon = i - 1 /\ ~ Fixed(r))
<1>2. q = [r EXCEPT !.num = num, !.numeric = numeric]
  BY <1>1 DEF RefAuthority, Digit
<1>5. r.numeric => numeric
  OBVIOUS
<1> HIDE DEF num, numeric
<1>3. SameAuth(q, r)
  BY <1>2, <1>5 DEF SameAuth, RefFields
<1>4. /\ q.part = "auth" /\ q.at = r.at /\ q.colon = r.colon /\ q.pct = 0
      /\ q.num = num /\ q.digits = r.digits /\ q.valid = r.valid /\ q.numeric = numeric
  BY <1>2 DEF RefFields
<1> QED
  BY <1>3, <1>4 DEF num, numeric

\* Another character after a ":".
LEMMA RefPassword ==
    ASSUME NEW r, DOMAIN r = RefFields, r.part = "auth", r.pct = 0, r.colon # None, NEW i,
           NEW c, c \notin {"/", "?", "#", "@", "["} \cup Digit, NEW q, q = RefStep(r, i, c)
    PROVE  /\ SameAuth(q, r) /\ q.part = "auth" /\ q.at = r.at /\ q.colon = r.colon /\ q.pct = Hexes(c)
           /\ q.num = 0 /\ ~ q.digits /\ q.numeric = r.numeric
           /\ q.valid <=> r.valid /\ ~ Fixed(r) /\ c \in Plain \cup {":", "%"}
<1>1. q = RefAuthority(r, i, c)
  BY DEF RefStep
<1> DEFINE w == Inside(r, c, Plain \cup {":"})
<1>2. q = [w EXCEPT !.valid = @ /\ ~ Fixed(r), !.digits = FALSE, !.num = 0]
  BY <1>1 DEF RefAuthority
<1>3. DOMAIN w = RefFields
  BY DEF Inside
<1>4. /\ SameHead(w, r) /\ w.part = r.part /\ w.q = r.q /\ w.f = r.f /\ w.pct = Hexes(c)
      /\ w.valid <=> r.valid /\ c \in Plain \cup {":", "%"}
      /\ w.stx <=> r.stx \/ c = "STX"
  BY InsideIs
<1> HIDE DEF w
<1>5. /\ q.part = w.part /\ q.q = w.q /\ q.f = w.f /\ q.pct = w.pct /\ q.stx = w.stx /\ q.scheme = w.scheme
      /\ q.auth = w.auth /\ q.at = w.at /\ q.colon = w.colon /\ q.numeric = w.numeric /\ q.closed = w.closed
      /\ q.lit = w.lit /\ q.future = w.future /\ q.num = 0 /\ ~ q.digits
      /\ q.valid <=> w.valid /\ ~ Fixed(r)
  BY <1>2, <1>3 DEF RefFields
<1> QED
  BY <1>4, <1>5 DEF SameHead, SameAuth

\* Nothing makes an input valid again.
LEMMA RefInvalid ==
    ASSUME NEW r, DOMAIN r = RefFields, ~ r.valid, NEW i, NEW c
    PROVE  ~ RefStep(r, i, c).valid
<1>1. ~ RefLiteral(r, c).valid
  BY DEF RefLiteral, RefFields
<1>2. ~ RefAuthority(r, i, c).valid
  BY DEF RefAuthority, Inside, Delimiter, EndAuthorityAt, RefFields
<1>3. ~ RefFirst(r, i, c).valid /\ ~ RefPath(r, i, c).valid
  BY DEF RefFirst, RefPath, Inside, Delimiter, RefFields
<1> QED
  BY <1>1, <1>2, <1>3 DEF RefStep, Inside, Delimiter, RefFields

-----------------------------------------------------------------------------
(* The authority.                                                          *)

\* The fields that are saved outside the host and the userinfo.
Beside(v, u) ==
    /\ v.scheme = u.scheme /\ v.port = u.port /\ v.path = u.path /\ v.query = u.query
    /\ v.fragment = u.fragment /\ v.thrown = u.thrown

LEMMA KeepsBeside ==
    ASSUME NEW v, NEW u, Keeps(v, u, {"host", "userinfo"})
    PROVE  Beside(v, u)
BY DEF Keeps, Beside, SavedFields

\* One more character of an authority.
LEMMA StillIn ==
    ASSUME NEW s, s.at \notin Literals, NEW t, t.abs = s.abs, NEW i \in Nat, NEW u, NEW v, NEW r, NEW q,
           InAuthority(s, i, u, r), Beside(v, u), SameAuth(q, r)
    PROVE  /\ q.at = r.at => InAuthority(t, i + 1, v, q)
           /\ q.at = i => InAuthority(t, i + 1, v, q)
           /\ Named(u, r) /\ q.at = r.at /\ v.userinfo = u.userinfo => Named(v, q)
           /\ Named(u, r) /\ q.at = i /\ (q.numeric \/ v.userinfo = <<r.auth, i>>) => Named(v, q)
           /\ q.at = r.at => HostStart(q) = HostStart(r)
           /\ HostStart(r) \in Nat /\ HostStart(r) <= i
           /\ ~ u.thrown => ~ v.thrown
           /\ r.lit = NoLiteral /\ q.lit = NoLiteral
<1>1. /\ Headed(u, r) /\ (s.abs <=> r.scheme # None) /\ r.scheme \in Nat \cup {None}
      /\ r.auth \in Nat /\ r.auth <= i /\ (r.at = None \/ (r.at \in Nat /\ r.auth <= r.at /\ r.at < i))
      /\ HostStart(r) <= i /\ u.port = 0 /\ r.lit = NoLiteral
  BY DEF InAuthority
<1>2. Headed(v, q) /\ v.port = 0 /\ q.scheme = r.scheme /\ q.auth = r.auth /\ q.lit = NoLiteral
  BY <1>1 DEF Headed, Beside, SameAuth
<1>3. ~ q.lit.future
  BY <1>2 DEF NoLiteral
<1>4. q.at = r.at => HostStart(q) = HostStart(r) /\ InAuthority(t, i + 1, v, q)
  <2>1. q.at = r.at => HostStart(q) = HostStart(r)
    BY <1>2 DEF HostStart
  <2>2. HostStart(r) \in Nat
    BY <1>1 DEF HostStart
  <2> QED
    BY <1>1, <1>2, <1>3, <2>1, <2>2 DEF InAuthority
<1>5. q.at = i => InAuthority(t, i + 1, v, q)
  <2>1. i # None
    BY DEF None
  <2>2. q.at = i => HostStart(q) = i + 1
    BY <2>1 DEF HostStart
  <2> QED
    BY <1>1, <1>2, <1>3, <2>1, <2>2 DEF InAuthority
<1>6. Named(u, r) /\ q.at = r.at /\ v.userinfo = u.userinfo => Named(v, q)
  BY DEF Named, NumericPassword, Beside, SameAuth
<1>7. Named(u, r) /\ q.at = i /\ (q.numeric \/ v.userinfo = <<r.auth, i>>) => Named(v, q)
  BY DEF Named, NumericPassword, Beside, SameAuth, None
<1>8. HostStart(r) \in Nat
  BY <1>1 DEF HostStart
<1> QED
  BY <1>1, <1>2, <1>4, <1>5, <1>6, <1>7, <1>8 DEF Beside

\* The step after which a port is read.
LEMMA PortFrom ==
    ASSUME UriInv, phase = "read", cs.at \in {"name", "host", "v4", "end"}, cs.pct = 0, NEW c, c = ":",
           Fixed(ref) \/ ~ ref.valid
    PROVE  StepOK(To(At("port0", cs.abs), <<"host">>), c)
<1>0. cs.at \in Authorities /\ cs.at \notin Literals /\ cs.at \in Enders
  BY DEF Enders, Authorities, Names, Passwords, Ports, Literals
<1>1. /\ p \in Nat /\ Spans(m, p) /\ DOMAIN ref = RefFields /\ cs.abs \in BOOLEAN
      /\ ref.pct = 0 /\ ~ m.thrown /\ Named(m, ref) /\ InAuthority(cs, p, m, ref)
  BY <1>0, BeforeAuthority
<1>2. ~ InLiteral
  BY <1>0 DEF InLiteral, Literals
<1>3. Tolerated(ref) /\ ref.digits /\ ref.part = "auth" /\ ref.colon = None /\ ref.num = 0 /\ m.mark = HostStart(ref)
  BY <1>0, EndingIs DEF Ending
<1> DEFINE r == RefStep(ref, p, c)
           s == At("port0", cs.abs)
           v == Save(m, "host")
           u == Left(To(s, <<"host">>), c)
<1>4. /\ SameAuth(r, ref) /\ r.part = "auth" /\ r.pct = 0 /\ r.at = ref.at /\ r.colon = p
      /\ r.num = 0 /\ r.digits /\ r.valid = ref.valid
  BY <1>1, <1>3, RefColon
<1>5. Placed(s) /\ s.at = "port0" /\ s.abs = cs.abs /\ s.pct = 0
  BY <1>1, AtIs
<1>6. u = Number(v, s, c)
  BY ActionsAre DEF Left, To
<1> HIDE DEF r, s, u
<1>7. HostStart(ref) \in Nat /\ HostStart(ref) <= p
  BY <1>1 DEF InAuthority, HostStart
<1>8. Spans(v, p)
  BY <1>1, SaveSpans DEF SaveNames, SavedFields
<1>9. Keeps(v, m, {"host"}) /\ v.host = <<HostStart(ref), p>>
  BY <1>1, <1>3, <1>7, SaveIs DEF NULL
<1> HIDE DEF v
<1>10. Keeps(u, v, {}) /\ Spans(u, p) /\ u.num = 0
  BY <1>1, <1>5, <1>6, <1>8, NumberIs
<1>11. Keeps(u, m, {"host", "userinfo"}) /\ u.userinfo = m.userinfo /\ u.host = <<HostStart(ref), p>>
  BY <1>9, <1>10 DEF Keeps, SavedFields
<1>12. Beside(u, m)
  BY <1>11, KeepsBeside
<1>13. InAuthority(s, p + 1, u, r) /\ Named(u, r) /\ ~ u.thrown /\ HostStart(r) = HostStart(ref)
  BY <1>0, <1>1, <1>4, <1>5, <1>11, <1>12, StillIn
<1>14. Porting(s, p + 1, u, r)
  <2>1. Tolerated(r) /\ (Fixed(r) \/ ~ r.valid)
    BY <1>3, <1>4 DEF Tolerated, SameAuth, Fixed
  <2>2. Unported(u, r)
    BY <1>4, <1>13 DEF Unported, InAuthority
  <2> QED
    BY <1>1, <1>4, <1>5, <1>7, <1>10, <1>11, <1>13, <2>1, <2>2 DEF Porting
<1>15. Reading(s, p + 1, u, r)
  BY <1>4, <1>5, <1>13, <1>14, ReadingIs DEF Ports
<1>16. StepOK(To(s, <<"host">>), c)
  BY <1>2, <1>5, <1>10, <1>13, <1>15, GoOnOK DEF r, u
<1> QED
  BY <1>16 DEF s

LEMMA EndOK ==
    ASSUME UriInv, phase = "read", cs.at = "end", cs.pct = 0, NEW c \in Chars
    PROVE  StepOK(EndStep(cs, c), c)
<1>0. cs.at \in Authorities /\ cs.at \notin Literals /\ cs.at \in Enders /\ cs.at \in Ports
  BY DEF Enders, Authorities, Names, Passwords, Ports, Literals
<1>1. p \in Nat /\ Spans(m, p) /\ DOMAIN ref = RefFields /\ ref.pct = 0 /\ ~ m.thrown
  BY <1>0, BeforeAuthority
<1>2. ref.part = "auth" /\ ref.closed /\ ref.colon = None
  BY <1>0, BeforeAuthority DEF Porting
<1>3. CASE c = ":"
  <2>1. EndStep(cs, c) = To(At("port0", cs.abs), <<"host">>)
    BY <1>3 DEF EndStep
  <2>2. Fixed(ref)
    BY <1>2 DEF Fixed
  <2> QED
    BY <1>3, <2>1, <2>2, PortFrom
<1>4. CASE c \in {"/", "?", "#"}
  <2>1. EndStep(cs, c) = EndAuthority(cs, c)
    BY <1>4 DEF EndStep
  <2> QED
    BY <1>0, <1>4, <2>1, EndAuthorityOK
<1>5. CASE c \notin {":", "/", "?", "#"}
  <2>1. EndStep(cs, c) = Refuse
    BY <1>5, EndAuthorityRefuses DEF EndStep
  <2>2. ~ RefStep(ref, p, c).valid
    <3>1. CASE c = "@"
      BY <1>1, <1>2, <3>1, RefAtSign DEF Fixed
    <3>2. CASE c = "["
      BY <1>1, <1>2, <3>2, RefBracket
    <3>3. CASE c \notin Delimiters
      BY <1>1, <1>2, <3>3, RefName
    <3> QED
      BY <1>5, <3>1, <3>2, <3>3 DEF Delimiters
  <2>3. Excused(RefStep(ref, p, c))
    BY <2>2 DEF Excused
  <2> QED
    BY <1>1, <2>1, <2>3, RefuseOK
<1> QED
  BY <1>3, <1>4, <1>5

\* A digit that may be one of a port.
LEMMA DigitSaved ==
    ASSUME p \in Nat, Spans(m, p), ~ m.thrown, NEW s, s.at \in {"digits", "port"}, NEW c \in Digit,
           NEW do, do \in {<<>>, <<"mark">>}, NEW u, u = Left(To(s, do), c)
    PROVE  /\ SameSaved(u, m) /\ Beside(u, m) /\ Spans(u, p) /\ u.num = m.num * 10 + Value(c)
           /\ do = <<>> => u.mark = m.mark
           /\ do = <<"mark">> => u.mark = p
<1> DEFINE v == Actions(do)
<1>1. u = Number(v, s, c)
  BY DEF Left, To
<1>2. <<>> # <<"mark">>
  OBVIOUS
<1>3. /\ Keeps(v, m, {}) /\ v.num = m.num /\ Spans(v, p)
      /\ do = <<>> => v.mark = m.mark
      /\ do = <<"mark">> => v.mark = p
  <2>1. CASE do = <<>>
    <3>1. v = m
      BY <2>1, ActionsAre
    <3> QED
      BY <1>2, <2>1, <3>1 DEF Keeps
  <2>2. CASE do = <<"mark">>
    <3>1. v = Save(m, "mark")
      BY <2>2, ActionsAre
    <3>2. Spans(Save(m, "mark"), p)
      BY SaveSpans DEF SaveNames
    <3>3. Keeps(Save(m, "mark"), m, {}) /\ Save(m, "mark").mark = p /\ Save(m, "mark").num = m.num
      BY SaveIs
    <3> QED
      BY <1>2, <2>2, <3>1, <3>2, <3>3
  <2> QED
    BY <2>1, <2>2
<1> HIDE DEF v
<1>4. Value(c) \in Nat
  BY ValueIs
<1>5. Keeps(u, v, {}) /\ u.mark = v.mark /\ u.num = m.num * 10 + Value(c) /\ Spans(u, p)
  BY <1>1, <1>3, <1>4, NumberIs
<1>6. Keeps(u, m, {})
  BY <1>3, <1>5 DEF Keeps
<1> QED
  BY <1>3, <1>5, <1>6 DEF Keeps, SameSaved, Beside, SavedFields

LEMMA PortOK ==
    ASSUME UriInv, phase = "read", cs.at \in {"port0", "port"}, cs.pct = 0, NEW c \in Chars
    PROVE  StepOK(PortStep(cs, c), c)
<1>0. cs.at \in Authorities /\ cs.at \notin Literals /\ cs.at \in Enders /\ cs.at \in Ports
  BY DEF Enders, Authorities, Names, Passwords, Ports, Literals
<1>1. /\ p \in Nat /\ Spans(m, p) /\ DOMAIN ref = RefFields /\ cs.abs \in BOOLEAN
      /\ ref.pct = 0 /\ ~ m.thrown /\ Named(m, ref) /\ InAuthority(cs, p, m, ref)
  BY <1>0, BeforeAuthority
<1>2. ~ InLiteral
  BY <1>0 DEF InLiteral, Literals
<1>3. Porting(cs, p, m, ref)
  BY <1>0, BeforeAuthority
<1>4. /\ HostStart(ref) \in Nat /\ ref.colon \in HostStart(ref) .. p - 1 /\ ref.colon # None /\ ref.part = "auth"
      /\ Fixed(ref) \/ ~ ref.valid
  BY <1>1, <1>3 DEF Porting, InAuthority, HostStart, None
<1> DEFINE r == RefStep(ref, p, c)
<1> HIDE DEF r
<1>5. CASE c \in Digit
  <2> DEFINE s == At("port", cs.abs)
             do == IF cs.at = "port0" THEN <<"mark">> ELSE <<>>
             u == Left(To(s, do), c)
  <2>1. PortStep(cs, c) = To(s, do)
    BY <1>5 DEF PortStep
  <2>2. Placed(s) /\ s.at = "port" /\ s.abs = cs.abs /\ s.pct = 0
    BY <1>1, AtIs
  <2>3. do \in {<<>>, <<"mark">>} /\ (cs.at = "port0" => do = <<"mark">>) /\ (cs.at = "port" => do = <<>>)
    OBVIOUS
  <2> HIDE DEF s, do
  <2>4. /\ SameSaved(u, m) /\ Beside(u, m) /\ Spans(u, p) /\ u.num = m.num * 10 + Value(c)
        /\ do = <<>> => u.mark = m.mark
        /\ do = <<"mark">> => u.mark = p
    BY <1>1, <1>5, <2>2, <2>3, DigitSaved
  <2> HIDE DEF u
  <2>5. /\ SameAuth(r, ref) /\ r.part = "auth" /\ r.at = ref.at /\ r.colon = ref.colon /\ r.pct = 0
        /\ r.num = ref.num * 10 + Value(c) /\ r.digits = ref.digits /\ r.valid = ref.valid
    BY <1>1, <1>4, <1>5, RefDigit DEF r
  <2>6. u.userinfo = m.userinfo /\ u.host = m.host /\ u.port = m.port
    BY <2>4 DEF SameSaved
  <2>7. InAuthority(s, p + 1, u, r) /\ Named(u, r) /\ ~ u.thrown /\ HostStart(r) = HostStart(ref)
    BY <1>0, <1>1, <2>2, <2>4, <2>5, <2>6, StillIn
  <2>8. Tolerated(r) /\ (Fixed(r) \/ ~ r.valid) /\ Unported(u, r)
    BY <1>3, <1>4, <2>5, <2>6 DEF Porting, Unported, Tolerated, SameAuth, Fixed
  <2>9. /\ r.colon \in HostStart(r) .. p /\ u.host = <<HostStart(r), r.colon>> /\ r.colon < p
        /\ u.mark = r.colon + 1
    BY <1>1, <1>3, <1>4, <2>3, <2>4, <2>5, <2>6, <2>7 DEF Porting
  <2>10. u.num = r.num /\ r.num \in Nat
    <3>1. m.num = ref.num /\ ref.num \in Nat /\ Value(c) \in Nat
      BY <1>3, <1>5, ValueIs DEF Porting
    <3> QED
      BY <2>4, <2>5, <3>1
  <2>11. Porting(s, p + 1, u, r)
    BY <1>1, <1>4, <2>2, <2>5, <2>8, <2>9, <2>10 DEF Porting
  <2>12. Reading(s, p + 1, u, r)
    BY <2>2, <2>5, <2>7, <2>11, ReadingIs DEF Ports
  <2> QED
    BY <1>2, <2>1, <2>2, <2>4, <2>7, <2>12, GoOnOK DEF r, u
<1>6. CASE c \in {"/", "?", "#"}
  <2>1. PortStep(cs, c) = EndAuthority(cs, c)
    BY <1>6 DEF PortStep, Digit
  <2> QED
    BY <1>0, <1>6, <2>1, EndAuthorityOK
<1>7. CASE c \notin Digit \cup {"/", "?", "#"}
  <2>1. PortStep(cs, c) = Refuse
    BY <1>7, EndAuthorityRefuses DEF PortStep
  <2>2. ~ r.valid
    <3>1. CASE c = "@"
      BY <1>1, <1>4, <3>1, RefAtSign DEF r
    <3>2. CASE c = "["
      BY <1>1, <1>4, <3>2, RefBracket DEF r
    <3>3. CASE c \notin {"/", "?", "#", "@", "["} \cup Digit
      BY <1>1, <1>4, <3>3, RefPassword DEF r
    <3> QED
      BY <1>7, <3>1, <3>2, <3>3
  <2>3. Excused(r)
    BY <2>2 DEF Excused
  <2> QED
    BY <1>1, <2>1, <2>3, RefuseOK DEF r
<1> QED
  BY <1>5, <1>6, <1>7

\* A userinfo is complete.
LEMMA HostFrom ==
    ASSUME UriInv, phase = "read", cs.at \in Authorities \ Literals, cs.pct = 0, NEW c, c = "@",
           ref.part = "auth", ref.at = None, ~ ref.closed, ref.valid,
           NEW w, Spans(w, p), Keeps(w, m, {}), w.mark = ref.auth \/ ref.numeric,
           NEW do, Actions(do) = Save(w, "userinfo")
    PROVE  StepOK(To(At("host0", cs.abs), do), c)
<1>1. /\ p \in Nat /\ Spans(m, p) /\ DOMAIN ref = RefFields /\ cs.abs \in BOOLEAN
      /\ ref.pct = 0 /\ ~ m.thrown /\ Named(m, ref) /\ InAuthority(cs, p, m, ref)
  BY BeforeAuthority
<1>2. ~ InLiteral
  BY DEF InLiteral, Literals
<1> DEFINE r == RefStep(ref, p, c)
           s == At("host0", cs.abs)
           v == Save(w, "userinfo")
           u == Left(To(s, do), c)
<1>3. /\ SameAuth(r, ref) /\ r.part = "auth" /\ r.pct = 0 /\ r.at = p /\ r.colon = None /\ r.num = 0 /\ r.digits
      /\ r.numeric = ref.numeric /\ r.valid
  BY <1>1, RefAtSign DEF Fixed
<1>4. Placed(s) /\ s.at = "host0" /\ s.abs = cs.abs /\ s.pct = 0
  BY <1>1, AtIs
<1>5. u = Number(v, s, c)
  BY DEF Left, To
<1> HIDE DEF r, s, u
<1>6. ~ w.thrown
  BY <1>1 DEF Keeps
<1>7. Spans(v, p)
  BY <1>1, SaveSpans DEF SaveNames, SavedFields
<1>8. IF w.mark = NULL THEN v = w ELSE Keeps(v, w, {"userinfo"}) /\ v.userinfo = <<w.mark, p>>
  BY <1>1, <1>6, SaveIs
<1>9. ref.auth \in Nat /\ ref.auth # NULL
  BY <1>1 DEF InAuthority, NULL
<1> HIDE DEF v
<1>10. Keeps(v, m, {"host", "userinfo"}) /\ (ref.numeric \/ v.userinfo = <<ref.auth, p>>)
  BY <1>8, <1>9 DEF Keeps
<1>11. Keeps(u, v, {}) /\ Spans(u, p)
  BY <1>1, <1>4, <1>5, <1>7, NumberIs
<1>12. Keeps(u, m, {"host", "userinfo"}) /\ (r.numeric \/ u.userinfo = <<ref.auth, p>>)
  BY <1>3, <1>10, <1>11 DEF Keeps, SavedFields
<1>13. Beside(u, m)
  BY <1>12, KeepsBeside
<1>14. InAuthority(s, p + 1, u, r) /\ Named(u, r) /\ ~ u.thrown
  BY <1>1, <1>3, <1>4, <1>12, <1>13, StillIn
<1>15. HostStart(r) = p + 1 /\ r.at # None /\ u.port = 0 /\ ~ r.closed
  BY <1>1, <1>3, <1>14 DEF HostStart, None, InAuthority, SameAuth
<1>16. Naming(s, p + 1, u, r)
  BY <1>3, <1>4, <1>15 DEF Naming, Portless, Unported
<1>17. Reading(s, p + 1, u, r)
  BY <1>3, <1>4, <1>14, <1>16, ReadingIs DEF Names
<1>18. StepOK(To(s, do), c)
  BY <1>2, <1>4, <1>11, <1>14, <1>17, GoOnOK DEF r, u
<1> QED
  BY <1>18 DEF s

LEMMA PasswordOK ==
    ASSUME UriInv, phase = "read", cs.at \in {"colon", "digits", "user"}, cs.pct = 0, NEW c \in Chars
    PROVE  StepOK(PasswordStep(cs, c), c)
<1>0. cs.at \in Authorities /\ cs.at \notin Literals /\ cs.at \in Passwords
  BY DEF Authorities, Names, Passwords, Ports, Literals
<1>1. /\ p \in Nat /\ Spans(m, p) /\ DOMAIN ref = RefFields /\ cs.abs \in BOOLEAN
      /\ ref.pct = 0 /\ ~ m.thrown /\ Named(m, ref) /\ InAuthority(cs, p, m, ref)
  BY <1>0, BeforeAuthority
<1>2. ~ InLiteral
  BY <1>0 DEF InLiteral, Literals
<1>3. Password(cs, p, m, ref)
  BY <1>0, BeforeAuthority
<1>4. /\ ref.auth \in Nat /\ ref.colon \in ref.auth .. p - 1 /\ ref.colon # None /\ ref.part = "auth"
      /\ ref.at = None /\ ~ ref.closed /\ ref.valid /\ ~ Fixed(ref) /\ HostStart(ref) = ref.auth
      /\ m.mark = ref.auth \/ ref.numeric
  BY <1>1, <1>3 DEF Password, InAuthority, HostStart, Fixed, None
<1> DEFINE r == RefStep(ref, p, c)
<1> HIDE DEF r
<1>5. CASE c = "@"
  <2>1. PasswordStep(cs, c) = To(At("host0", cs.abs), <<"userinfo">>)
    BY <1>5 DEF PasswordStep, Digit, Plain, Alpha
  <2>2. Actions(<<"userinfo">>) = Save(m, "userinfo")
    BY ActionsAre
  <2>3. Keeps(m, m, {})
    BY DEF Keeps
  <2> QED
    BY <1>0, <1>1, <1>4, <1>5, <2>1, <2>2, <2>3, HostFrom
<1>6. CASE c \in Digit /\ cs.at # "user"
  <2> DEFINE s == At("digits", cs.abs)
             do == IF cs.at = "colon" THEN <<"mark">> ELSE <<>>
             u == Left(To(s, do), c)
  <2>1. PasswordStep(cs, c) = To(s, do)
    BY <1>6 DEF PasswordStep, Digit, Plain, Alpha
  <2>2. Placed(s) /\ s.at = "digits" /\ s.abs = cs.abs /\ s.pct = 0
    BY <1>1, AtIs
  <2>3. do \in {<<>>, <<"mark">>} /\ (cs.at = "colon" => do = <<"mark">>) /\ (cs.at = "digits" => do = <<>>)
    OBVIOUS
  <2> HIDE DEF s, do
  <2>4. /\ SameSaved(u, m) /\ Beside(u, m) /\ Spans(u, p) /\ u.num = m.num * 10 + Value(c)
        /\ do = <<>> => u.mark = m.mark
        /\ do = <<"mark">> => u.mark = p
    BY <1>1, <1>6, <2>2, <2>3, DigitSaved
  <2> HIDE DEF u
  <2>5. /\ SameAuth(r, ref) /\ r.part = "auth" /\ r.at = ref.at /\ r.colon = ref.colon /\ r.pct = 0
        /\ r.num = ref.num * 10 + Value(c) /\ r.digits = ref.digits /\ r.valid = ref.valid
        /\ r.numeric <=> ref.numeric \/ (ref.colon = p - 1 /\ ~ Fixed(ref))
    BY <1>1, <1>4, <1>6, RefDigit DEF r
  <2>6. u.userinfo = m.userinfo /\ u.host = m.host /\ u.port = m.port
    BY <2>4 DEF SameSaved
  <2>7. InAuthority(s, p + 1, u, r) /\ Named(u, r) /\ ~ u.thrown
    BY <1>0, <1>1, <2>2, <2>4, <2>5, <2>6, StillIn
  <2>8. r.numeric /\ Unported(u, r) /\ r.auth = ref.auth /\ ~ r.closed
    BY <1>3, <1>4, <1>6, <2>5, <2>6 DEF Password, Unported, SameAuth
  <2>9. r.colon \in r.auth .. p /\ u.host = <<r.auth, r.colon>> /\ r.colon < p /\ u.mark = r.colon + 1
    BY <1>1, <1>3, <1>4, <1>6, <2>3, <2>4, <2>5, <2>6, <2>8 DEF Password
  <2>10. u.num = r.num /\ r.num \in Nat
    <3>1. m.num = ref.num /\ ref.num \in Nat /\ Value(c) \in Nat
      BY <1>3, <1>6, ValueIs DEF Password
    <3> QED
      BY <2>4, <2>5, <3>1
  <2>11. Password(s, p + 1, u, r)
    BY <1>1, <1>4, <2>2, <2>5, <2>8, <2>9, <2>10 DEF Password
  <2>12. Reading(s, p + 1, u, r)
    BY <2>2, <2>5, <2>7, <2>11, ReadingIs DEF Passwords
  <2> QED
    BY <1>2, <2>1, <2>2, <2>4, <2>7, <2>12, GoOnOK DEF r, u
<1>7. CASE c \in Plain \cup {":", "%"} /\ (c \in Digit => cs.at = "user")
  <2>1. PICK s : PasswordStep(cs, c) = To(s, <<>>) /\ Goes(s, "user", cs.abs, Hexes(c))
    <3>1. CASE c = "%"
      <4>1. PasswordStep(cs, c) = To([At("user", cs.abs) EXCEPT !.pct = 2], <<>>)
        BY <3>1 DEF PasswordStep, Pct, Plain, Alpha, Digit
      <4> QED
        BY <3>1, <4>1, GoesTo DEF Hexes
    <3>2. CASE c # "%"
      <4>1. PasswordStep(cs, c) = To(At("user", cs.abs), <<>>)
        BY <1>7, <3>2 DEF PasswordStep, Plain, Alpha, Digit
      <4> QED
        BY <3>2, <4>1, GoesTo DEF Hexes
    <3> QED
      BY <3>1, <3>2
  <2>2. Placed(s) /\ s.at = "user" /\ s.abs = cs.abs /\ s.pct = Hexes(c)
    BY <1>1, <2>1, GoesIs, HexesIs
  <2> DEFINE u == Left(To(s, <<>>), c)
  <2>3. SameSaved(u, m) /\ u.mark = m.mark /\ Spans(u, p)
    BY <1>1, <2>2, NothingSaved
  <2> HIDE DEF u
  <2>4. Beside(u, m) /\ u.userinfo = m.userinfo
    BY <2>3 DEF SameSaved, Beside
  <2>5. /\ SameAuth(r, ref) /\ r.part = "auth" /\ r.at = ref.at /\ r.colon = ref.colon /\ r.pct = Hexes(c)
        /\ r.valid /\ ~ r.digits
    <3>1. CASE c \in Digit
      <4>1. ~ ref.digits /\ Hexes(c) = 0
        BY <1>3, <1>7, <3>1 DEF Password, Hexes, Digit
      <4> QED
        BY <1>1, <1>4, <3>1, <4>1, RefDigit DEF r
    <3>2. CASE c \notin Digit
      <4>1. c \notin {"/", "?", "#", "@", "["} \cup Digit
        BY <1>7, <3>2 DEF Plain, Alpha
      <4> QED
        BY <1>1, <1>4, <1>7, <4>1, RefPassword DEF r
    <3> QED
      BY <3>1, <3>2
  <2>6. InAuthority(s, p + 1, u, r) /\ Named(u, r) /\ ~ u.thrown
    BY <1>0, <1>1, <2>2, <2>4, <2>5, StillIn
  <2>7. r.auth = ref.auth /\ ~ r.closed /\ (u.mark = r.auth \/ r.numeric)
    BY <1>4, <2>3, <2>5 DEF SameAuth
  <2>8. Password(s, p + 1, u, r)
    BY <1>1, <1>4, <2>2, <2>5, <2>7 DEF Password
  <2>9. Reading(s, p + 1, u, r)
    BY <2>2, <2>5, <2>6, <2>8, ReadingIs DEF Passwords
  <2> QED
    BY <1>2, <2>1, <2>2, <2>3, <2>6, <2>9, GoOnOK DEF r, u
<1>8. CASE c \in {"/", "?", "#"} /\ cs.at # "user"
  <2>1. PasswordStep(cs, c) = EndAuthority(cs, c)
    BY <1>8 DEF PasswordStep, Plain, Alpha, Digit
  <2>2. cs.at \in Enders
    BY <1>8 DEF Enders
  <2> QED
    BY <1>8, <2>1, <2>2, EndAuthorityOK
<1>9. CASE c \notin Plain \cup {":", "%", "@"} /\ (c \in {"/", "?", "#"} => cs.at = "user")
  <2>1. PasswordStep(cs, c) = Refuse
    BY <1>9, EndAuthorityRefuses DEF PasswordStep, Plain
  <2>2. ~ r.valid
    <3>1. CASE c \in {"/", "?", "#"}
      <4>1. ~ ref.digits
        BY <1>3, <1>9, <3>1 DEF Password
      <4> QED
        BY <1>1, <1>4, <3>1, <4>1, EndsAt DEF r
    <3>2. CASE c = "["
      BY <1>1, <1>4, <3>2, RefBracket DEF r
    <3>3. CASE c \notin {"/", "?", "#", "@", "["} \cup Digit
      BY <1>1, <1>4, <1>9, <3>3, RefPassword DEF r
    <3> QED
      BY <1>9, <3>1, <3>2, <3>3 DEF Plain
  <2>3. Excused(r)
    BY <2>2 DEF Excused
  <2> QED
    BY <1>1, <2>1, <2>3, RefuseOK DEF r
<1> QED
  BY <1>5, <1>6, <1>7, <1>8, <1>9 DEF Plain

LEMMA OctetChars ==
    ASSUME NEW o, NEW c, Octet(o, c) # "no"
    PROVE  c \in Digit \cup {"STX"}
BY DEF Octet, OctetStart, Digit

LEMMA V4OK ==
    ASSUME UriInv, phase = "read", cs.at = "v4", cs.pct = 0, NEW c \in Chars
    PROVE  StepOK(V4Step(cs, c), c)
<1>0. cs.at \in Authorities /\ cs.at \notin Literals /\ cs.at \in Names /\ cs.at \in Enders
  BY DEF Authorities, Names, Literals, Enders
<1>1. /\ p \in Nat /\ Spans(m, p) /\ DOMAIN ref = RefFields /\ cs.abs \in BOOLEAN /\ Placed(cs) /\ DOMAIN cs = PlaceFields
      /\ ref.pct = 0 /\ ~ m.thrown /\ Named(m, ref) /\ InAuthority(cs, p, m, ref)
  BY <1>0, BeforeAuthority
<1>2. ~ InLiteral
  BY <1>0 DEF InLiteral, Literals
<1>3. Naming(cs, p, m, ref)
  BY <1>0, BeforeAuthority
<1>4. /\ ref.part = "auth" /\ Portless(m, ref) /\ ref.colon = None /\ ~ ref.closed
      /\ m.mark = HostStart(ref) /\ HostStart(ref) < p /\ ~ ref.valid /\ ref.stx
  BY <1>3 DEF Naming
<1> DEFINE r == RefStep(ref, p, c)
           ended == cs.k = 4 /\ Ended(cs.o)
<1> HIDE DEF r
<1>5. CASE c = ":" /\ ended
  <2>1. V4Step(cs, c) = To(At("port0", cs.abs), <<"host">>)
    BY <1>5, OctetChars DEF V4Step, Digit
  <2> QED
    BY <1>4, <1>5, <2>1, PortFrom
<1>6. CASE c \in {"/", "?", "#"} /\ ended
  <2>1. V4Step(cs, c) = EndAuthority(cs, c)
    BY <1>6, OctetChars DEF V4Step, Digit
  <2> QED
    BY <1>0, <1>6, <2>1, EndAuthorityOK
<1>7. CASE (c = "." /\ Ended(cs.o) /\ cs.k < 4) \/ Octet(cs.o, c) # "no"
  <2>1. PICK s : /\ V4Step(cs, c) = To(s, <<>>)
                 /\ Placed(s) /\ s.at = "v4" /\ s.abs = cs.abs /\ s.pct = 0
    <3>1. CASE c = "." /\ Ended(cs.o) /\ cs.k < 4
      <4> DEFINE t == [cs EXCEPT !.k = @ + 1, !.o = "start"]
      <4>1. V4Step(cs, c) = To(t, <<>>)
        BY <3>1, OctetChars DEF V4Step, Digit
      <4>2. Placed(t) /\ t.at = "v4" /\ t.abs = cs.abs /\ t.pct = 0
        BY <1>1, <3>1 DEF Placed, PlaceFields
      <4> QED
        BY <4>1, <4>2
    <3>2. CASE Octet(cs.o, c) # "no"
      <4> DEFINE t == [cs EXCEPT !.o = Octet(@, c)]
      <4>0. c \in Digit \cup {"STX"}
        BY <3>2, OctetChars
      <4>1. V4Step(cs, c) = To(t, <<>>)
        BY <3>2, <4>0 DEF V4Step, Digit
      <4>2. Placed(t) /\ t.at = "v4" /\ t.abs = cs.abs /\ t.pct = 0
        BY <1>1 DEF Placed, PlaceFields
      <4> QED
        BY <4>1, <4>2
    <3> QED
      BY <1>7, <3>1, <3>2
  <2>2. c \notin Delimiters /\ Hexes(c) = 0
    BY <1>7, OctetChars DEF Delimiters, Digit, Hexes
  <2> DEFINE u == Left(To(s, <<>>), c)
  <2>3. SameSaved(u, m) /\ u.mark = m.mark /\ Spans(u, p)
    BY <1>1, <2>1, NothingSaved
  <2> HIDE DEF u
  <2>4. Beside(u, m) /\ u.userinfo = m.userinfo /\ u.port = m.port
    BY <2>3 DEF SameSaved, Beside
  <2>5. /\ SameAuth(r, ref) /\ r.part = "auth" /\ r.at = ref.at /\ r.colon = None
        /\ r.num = ref.num /\ r.digits = ref.digits /\ r.pct = 0 /\ ~ r.valid /\ r.stx
    BY <1>1, <1>4, <2>2, RefName DEF r
  <2>6. InAuthority(s, p + 1, u, r) /\ Named(u, r) /\ ~ u.thrown /\ HostStart(r) = HostStart(ref) /\ HostStart(ref) \in Nat
    BY <1>0, <1>1, <2>1, <2>4, <2>5, StillIn
  <2>7. Portless(u, r) /\ ~ r.closed
    BY <1>4, <2>4, <2>5 DEF Portless, Unported, SameAuth
  <2>8. Naming(s, p + 1, u, r)
    BY <1>1, <1>4, <2>1, <2>3, <2>5, <2>6, <2>7 DEF Naming
  <2>9. Reading(s, p + 1, u, r)
    BY <2>1, <2>5, <2>6, <2>8, ReadingIs DEF Names
  <2> QED
    BY <1>2, <2>1, <2>3, <2>6, <2>9, GoOnOK DEF r, u
<1>8. CASE /\ ~ (c = ":" /\ ended) /\ ~ (c \in {"/", "?", "#"} /\ ended)
           /\ ~ (c = "." /\ Ended(cs.o) /\ cs.k < 4) /\ Octet(cs.o, c) = "no"
  <2>1. V4Step(cs, c) = Refuse
    BY <1>8 DEF V4Step
  <2>2. Excused(r)
    BY <1>1, <1>4, RefInvalid DEF Excused, r
  <2> QED
    BY <1>1, <2>1, <2>2, RefuseOK DEF r
<1> QED
  BY <1>5, <1>6, <1>7, <1>8

LEMMA NameCharIs ==
    ASSUME NEW s, Placed(s), s.pct = 0, NEW c, NEW n, n = NameChar(s, c)
    PROVE  Placed(n) /\ n.at = s.at /\ n.abs = s.abs /\ n.pct = 0
<1>1. DOMAIN s = PlaceFields /\ s.abs \in BOOLEAN
  BY DEF Placed
<1>2. CASE s.k \in 1 .. 3 /\ c = "." /\ Ended(s.o)
  <2>1. n = [s EXCEPT !.k = @ + 1, !.o = "start"]
    BY <1>2, OctetChars DEF NameChar, Digit
  <2>2. /\ DOMAIN n = PlaceFields /\ n.at = s.at /\ n.abs = s.abs /\ n.pct = s.pct /\ n.k = s.k + 1
        /\ n.d = s.d
    BY <1>1, <2>1 DEF PlaceFields
  <2>3. s.k \in 1 .. 3
    BY <1>2
  <2> QED
    BY <1>1, <2>2, <2>3 DEF Placed
<1>3. CASE s.k \in 1 .. 3 /\ Octet(s.o, c) # "no"
  <2>1. n = [s EXCEPT !.o = Octet(@, c)]
    BY <1>3, OctetChars DEF NameChar, Digit
  <2> QED
    BY <1>1, <2>1 DEF Placed, PlaceFields
<1>4. CASE ~ (s.k \in 1 .. 3 /\ c = "." /\ Ended(s.o)) /\ ~ (s.k \in 1 .. 3 /\ Octet(s.o, c) # "no")
  <2>1. n = At(s.at, s.abs)
    BY <1>4 DEF NameChar
  <2> QED
    BY <1>1, <2>1, AtIs
<1> QED
  BY <1>2, <1>3, <1>4

\* What is known of a name that may begin here.
LEMMA BeforeName ==
    ASSUME UriInv, phase = "read", cs.at \in {"auth0", "name", "host0", "host"}, cs.pct = 0
    PROVE  /\ cs.at \in Authorities /\ cs.at \notin Literals /\ cs.at \in Enders /\ ~ InLiteral
           /\ p \in Nat /\ Spans(m, p) /\ DOMAIN ref = RefFields /\ cs.abs \in BOOLEAN /\ Placed(cs) /\ DOMAIN cs = PlaceFields
           /\ ref.pct = 0 /\ ~ m.thrown /\ Named(m, ref) /\ InAuthority(cs, p, m, ref)
           /\ ref.part = "auth" /\ Portless(m, ref) /\ ref.colon = None /\ ~ ref.closed /\ ref.valid
           /\ cs.at \in {"auth0", "name"} => ref.at = None /\ HostStart(ref) = ref.auth /\ ~ Fixed(ref)
           /\ cs.at \in {"host0", "host"} => Fixed(ref)
           /\ HostStart(ref) \in Nat
           /\ cs.at \in {"auth0", "host0"} => HostStart(ref) = p
           /\ cs.at \in {"name", "host"} => m.mark = HostStart(ref) /\ HostStart(ref) < p
<1>1. cs.at \in Authorities /\ cs.at \notin Literals /\ cs.at \in Names /\ cs.at \in Enders /\ ~ InLiteral
  BY DEF Authorities, Names, Literals, Enders, InLiteral
<1>2. /\ p \in Nat /\ Spans(m, p) /\ DOMAIN ref = RefFields /\ cs.abs \in BOOLEAN /\ Placed(cs) /\ DOMAIN cs = PlaceFields
      /\ ref.pct = 0 /\ ~ m.thrown /\ Named(m, ref) /\ InAuthority(cs, p, m, ref) /\ Naming(cs, p, m, ref)
  BY <1>1, BeforeAuthority
<1>3. HostStart(ref) \in Nat
  BY <1>2 DEF InAuthority, HostStart
<1> QED
  BY <1>1, <1>2, <1>3 DEF Naming, HostStart, Fixed

\* What entering a name leaves.
Entered(do, w) ==
    /\ w = IF cs.at \in {"auth0", "host0"} THEN Save(m, "mark") ELSE m
    /\ do = IF cs.at \in {"auth0", "host0"} THEN <<"mark">> ELSE <<>>

LEMMA EnteredIs ==
    ASSUME UriInv, phase = "read", cs.at \in {"auth0", "name", "host0", "host"}, cs.pct = 0, NEW do, NEW w, Entered(do, w)
    PROVE  /\ Spans(w, p) /\ Keeps(w, m, {}) /\ ~ w.thrown /\ w.mark = HostStart(ref)
           /\ Actions(do) = w
           /\ \A a : Actions(do \o <<a>>) = Save(w, a)
<1>1. p \in Nat /\ Spans(m, p) /\ ~ m.thrown
  BY BeforeName
<1>2. CASE cs.at \in {"auth0", "host0"}
  <2>1. w = Save(m, "mark") /\ do = <<"mark">>
    BY <1>2 DEF Entered
  <2>2. Spans(Save(m, "mark"), p)
    BY <1>1, SaveSpans DEF SaveNames
  <2>3. Keeps(Save(m, "mark"), m, {}) /\ Save(m, "mark").mark = p
    BY <1>1, SaveIs
  <2>4. HostStart(ref) = p
    BY <1>2, BeforeName
  <2>5. \A a : do \o <<a>> = <<"mark", a>>
    BY <2>1, Joined
  <2>6. ~ w.thrown
    BY <1>1, <2>1, <2>3 DEF Keeps
  <2>7. ASSUME NEW a PROVE Actions(do \o <<a>>) = Save(w, a)
    <3>1. Actions(<<"mark", a>>) = Save(Save(m, "mark"), a)
      BY ActionsAre
    <3>2. do \o <<a>> = <<"mark", a>>
      BY <2>5
    <3> QED
      BY <2>1, <3>1, <3>2
  <2> QED
    BY <2>1, <2>2, <2>3, <2>4, <2>6, <2>7, ActionsAre
<1>3. CASE cs.at \in {"name", "host"}
  <2>1. w = m /\ do = <<>>
    BY <1>3 DEF Entered
  <2>2. m.mark = HostStart(ref)
    BY <1>3, BeforeName
  <2>3. \A a : do \o <<a>> = <<a>>
    BY <2>1, Joined
  <2>4. Keeps(w, m, {})
    BY <2>1 DEF Keeps
  <2>5. \A a : Actions(do \o <<a>>) = Save(w, a)
    BY <2>1, <2>3, ActionsAre
  <2> QED
    BY <1>1, <2>1, <2>2, <2>4, <2>5, ActionsAre
<1> QED
  BY <1>2, <1>3

\* A name goes on.
LEMMA NameOn ==
    ASSUME UriInv, phase = "read", cs.at \in {"auth0", "name", "host0", "host"}, cs.pct = 0,
           NEW c \in Plain \cup {"%", "STX"}, NEW do, NEW w, Entered(do, w),
           NEW s, Placed(s), s.abs = cs.abs, s.pct = Hexes(c),
           c = "STX" => s.at = "v4",
           c # "STX" => s.at = (IF cs.at \in {"auth0", "name"} THEN "name" ELSE "host")
    PROVE  StepOK(To(s, do), c)
<1> DEFINE r == RefStep(ref, p, c)
           u == Left(To(s, do), c)
<1>1. /\ cs.at \notin Literals /\ ~ InLiteral /\ p \in Nat /\ Spans(m, p) /\ DOMAIN ref = RefFields
      /\ ref.pct = 0 /\ ~ m.thrown /\ Named(m, ref) /\ InAuthority(cs, p, m, ref)
      /\ ref.part = "auth" /\ Portless(m, ref) /\ ref.colon = None /\ ~ ref.closed /\ ref.valid
      /\ HostStart(ref) \in Nat /\ HostStart(ref) <= p
  BY BeforeName DEF InAuthority
<1>2. Spans(w, p) /\ Keeps(w, m, {}) /\ w.mark = HostStart(ref) /\ Actions(do) = w
  BY EnteredIs
<1>3. u = Number(w, s, c)
  BY <1>2 DEF Left, To
<1>4. c \notin Delimiters
  BY DEF Delimiters, Plain, Alpha, Digit
<1>5. /\ SameAuth(r, ref) /\ r.part = "auth" /\ r.at = ref.at /\ r.colon = None
      /\ r.num = ref.num /\ r.digits = ref.digits /\ r.pct = Hexes(c)
      /\ r.valid <=> c \in Plain \cup {"%"}
      /\ r.stx <=> ref.stx \/ c = "STX"
  BY <1>1, <1>4, RefName
<1> HIDE DEF r, u
<1>6. Keeps(u, w, {}) /\ u.mark = w.mark /\ Spans(u, p)
  BY <1>1, <1>2, <1>3, NumberIs
<1>7. Keeps(u, m, {}) /\ u.mark = HostStart(ref)
  BY <1>2, <1>6 DEF Keeps
<1>8. Beside(u, m) /\ u.userinfo = m.userinfo /\ u.port = m.port
  BY <1>7 DEF Keeps, Beside, SavedFields
<1>9. InAuthority(s, p + 1, u, r) /\ Named(u, r) /\ ~ u.thrown /\ HostStart(r) = HostStart(ref)
  BY <1>1, <1>5, <1>8, StillIn
<1>10. Portless(u, r) /\ ~ r.closed
  BY <1>1, <1>5, <1>8 DEF Portless, Unported, SameAuth
<1>11. Naming(s, p + 1, u, r) /\ s.at \in Names
  <2>1. CASE c = "STX"
    <3>1. ~ r.valid /\ r.stx /\ s.at = "v4" /\ s.pct = 0
      BY <1>5, <2>1 DEF Plain, Alpha, Digit, Hexes
    <3> QED
      BY <1>1, <1>5, <1>7, <1>9, <1>10, <3>1 DEF Naming, Names
  <2>2. CASE c # "STX"
    <3>1. r.valid /\ s.at \in {"name", "host"}
      BY <1>5, <2>2
    <3>2. s.at = "name" => r.at = None
      BY <1>5, <2>2, BeforeName
    <3>3. s.at = "host" => r.at # None
      BY <1>1, <1>5, <2>2, BeforeName DEF Fixed
    <3> QED
      BY <1>1, <1>5, <1>7, <1>9, <1>10, <3>1, <3>2, <3>3 DEF Naming, Names
  <2> QED
    BY <2>1, <2>2
<1>12. Reading(s, p + 1, u, r)
  BY <1>5, <1>9, <1>11, ReadingIs
<1> QED
  BY <1>1, <1>6, <1>9, <1>12, GoOnOK DEF r, u

\* A name may be one with a password, or a host with a port.
LEMMA ColonFrom ==
    ASSUME UriInv, phase = "read", cs.at \in {"auth0", "name", "host0", "host"}, cs.pct = 0, NEW c, c = ":",
           NEW do, NEW w, Entered(do, w),
           NEW s, s = At(IF cs.at \in {"auth0", "name"} THEN "colon" ELSE "port0", cs.abs)
    PROVE  StepOK(To(s, do \o <<"host">>), c)
<1> DEFINE r == RefStep(ref, p, c)
           v == Save(w, "host")
           u == Left(To(s, do \o <<"host">>), c)
<1>1. /\ cs.at \notin Literals /\ ~ InLiteral /\ p \in Nat /\ Spans(m, p) /\ DOMAIN ref = RefFields /\ cs.abs \in BOOLEAN
      /\ ref.pct = 0 /\ ~ m.thrown /\ Named(m, ref) /\ InAuthority(cs, p, m, ref)
      /\ ref.part = "auth" /\ Portless(m, ref) /\ ref.colon = None /\ ~ ref.closed /\ ref.valid
      /\ HostStart(ref) \in Nat /\ HostStart(ref) <= p
  BY BeforeName DEF InAuthority
<1>2. Spans(w, p) /\ Keeps(w, m, {}) /\ ~ w.thrown /\ w.mark = HostStart(ref) /\ Actions(do \o <<"host">>) = v
  BY EnteredIs
<1>3. Placed(s) /\ s.at = (IF cs.at \in {"auth0", "name"} THEN "colon" ELSE "port0") /\ s.abs = cs.abs /\ s.pct = 0
  BY <1>1, AtIs
<1>4. u = Number(v, s, c)
  BY <1>2 DEF Left, To
<1>5. /\ SameAuth(r, ref) /\ r.part = "auth" /\ r.pct = 0 /\ r.at = ref.at /\ r.colon = p
      /\ r.num = ref.num /\ r.digits = ref.digits /\ r.valid
  BY <1>1, RefColon
<1> HIDE DEF r, u
<1>6. Spans(v, p)
  BY <1>1, <1>2, SaveSpans DEF SaveNames, SavedFields
<1>7. Keeps(v, w, {"host"}) /\ v.host = <<HostStart(ref), p>> /\ v.mark = HostStart(ref)
  <2>1. w.mark # NULL
    BY <1>1, <1>2 DEF NULL
  <2> QED
    BY <1>1, <1>2, <2>1, SaveIs
<1> HIDE DEF v
<1>8. Keeps(u, v, {}) /\ u.mark = v.mark /\ u.num = 0 /\ Spans(u, p)
  <2>1. s.at \notin {"digits", "port"}
    BY <1>3
  <2> QED
    BY <1>1, <1>4, <1>6, <2>1, NumberIs
<1>9. /\ Keeps(u, m, {"host", "userinfo"}) /\ u.userinfo = m.userinfo /\ u.host = <<HostStart(ref), p>>
      /\ u.mark = HostStart(ref)
  BY <1>2, <1>7, <1>8 DEF Keeps, SavedFields
<1>10. Beside(u, m)
  BY <1>9, KeepsBeside
<1>11. InAuthority(s, p + 1, u, r) /\ Named(u, r) /\ ~ u.thrown /\ HostStart(r) = HostStart(ref)
  BY <1>1, <1>3, <1>5, <1>9, <1>10, StillIn
<1>12. Unported(u, r) /\ r.num = 0 /\ ~ r.closed /\ Tolerated(r) /\ r.auth = ref.auth
  BY <1>1, <1>5, <1>10 DEF Portless, Unported, SameAuth, Tolerated, Beside
<1>13. CASE cs.at \in {"auth0", "name"}
  <2>1. ref.at = None /\ HostStart(ref) = ref.auth /\ s.at = "colon"
    BY <1>3, <1>13, BeforeName
  <2>2. Password(s, p + 1, u, r)
    BY <1>1, <1>3, <1>5, <1>8, <1>9, <1>12, <2>1 DEF Password
  <2>3. Reading(s, p + 1, u, r)
    BY <1>3, <1>5, <1>11, <2>1, <2>2, ReadingIs DEF Passwords
  <2> QED
    BY <1>1, <1>3, <1>8, <1>11, <2>3, GoOnOK DEF r, u
<1>14. CASE cs.at \in {"host0", "host"}
  <2>1. Fixed(ref) /\ s.at = "port0"
    BY <1>3, <1>14, BeforeName
  <2>2. Fixed(r)
    BY <1>5, <2>1 DEF Fixed, SameAuth
  <2>3. Porting(s, p + 1, u, r)
    BY <1>1, <1>3, <1>5, <1>8, <1>9, <1>11, <1>12, <2>1, <2>2 DEF Porting
  <2>4. Reading(s, p + 1, u, r)
    BY <1>3, <1>5, <1>11, <2>1, <2>3, ReadingIs DEF Ports
  <2> QED
    BY <1>1, <1>3, <1>8, <1>11, <2>4, GoOnOK DEF r, u
<1> QED
  BY <1>13, <1>14

\* An IP literal begins.
LEMMA LiteralFrom ==
    ASSUME UriInv, phase = "read", cs.at \in {"auth0", "host0"}, cs.pct = 0, NEW c, c = "["
    PROVE  StepOK(To([At("head", cs.abs) EXCEPT !.k = 8], <<"mark">>), c)
<1> DEFINE r == RefStep(ref, p, c)
           s == [At("head", cs.abs) EXCEPT !.k = 8]
           u == Left(To(s, <<"mark">>), c)
<1>1. /\ cs.at \notin Literals /\ ~ InLiteral /\ p \in Nat /\ Spans(m, p) /\ DOMAIN ref = RefFields /\ cs.abs \in BOOLEAN
      /\ ref.pct = 0 /\ ~ m.thrown /\ Named(m, ref) /\ InAuthority(cs, p, m, ref)
      /\ ref.part = "auth" /\ Portless(m, ref) /\ ref.colon = None /\ ~ ref.closed /\ ref.valid
      /\ HostStart(ref) = p
  BY BeforeName
<1>2. Placed(s) /\ s.at = "head" /\ s.abs = cs.abs /\ s.pct = 0 /\ s.k = 8 /\ s.d = 0 /\ s.o = "no"
  BY <1>1 DEF At, Placed, PlaceFields
<1> HIDE DEF s
<1>3. SameSaved(u, m) /\ u.mark = p /\ Spans(u, p)
  BY <1>1, <1>2, OnlyMarked
<1>4. /\ SameAuth(r, ref) /\ r.part = "lit" /\ r.pct = 0 /\ r.at = ref.at /\ r.colon = None
      /\ r.num = ref.num /\ r.digits = ref.digits /\ r.valid
  BY <1>1, RefBracket
<1> HIDE DEF r, u
<1>5. Beside(u, m) /\ u.userinfo = m.userinfo
  BY <1>3 DEF SameSaved, Beside
<1>6. InAuthority(s, p + 1, u, r) /\ Named(u, r) /\ ~ u.thrown /\ HostStart(r) = p /\ r.lit = NoLiteral
  BY <1>1, <1>2, <1>4, <1>5, StillIn
<1>7. Portless(u, r) /\ ~ r.closed
  BY <1>1, <1>4, <1>5 DEF Portless, Unported, SameAuth, Beside
<1>8. InLit(s, r)
  <2>1. Grouping(s, r.lit, s.k = 2)
    BY <1>2, <1>6 DEF Grouping, NoLiteral
  <2>2. r.lit.dbl = "none" /\ r.lit.n = 0
    BY <1>6 DEF NoLiteral
  <2> QED
    BY <1>2, <1>4, <1>6, <2>1, <2>2 DEF InLit
<1>9. Literal(s, p + 1, u, r)
  BY <1>1, <1>2, <1>3, <1>4, <1>6, <1>7, <1>8 DEF Literal
<1>10. Reading(s, p + 1, u, r)
  BY <1>2, <1>4, <1>6, <1>9, ReadingIs DEF Literals
<1>11. StepOK(To(s, <<"mark">>), c)
  BY <1>1, <1>2, <1>3, <1>6, <1>10, GoOnOK DEF r, u
<1> QED
  BY <1>11 DEF s

LEMMA NameOK ==
    ASSUME UriInv, phase = "read", cs.at \in {"auth0", "name", "host0", "host"}, cs.pct = 0, NEW c \in Chars
    PROVE  StepOK(NameStep(cs, c), c)
<1> DEFINE first == cs.at \in {"auth0", "host0"}
           do == IF first THEN <<"mark">> ELSE <<>>
           w == IF first THEN Save(m, "mark") ELSE m
           part == IF cs.at \in {"auth0", "name"} THEN "name" ELSE "host"
           at == IF first THEN [At(part, cs.abs) EXCEPT !.k = 1, !.o = "start"] ELSE cs
           r == RefStep(ref, p, c)
<1>0. Entered(do, w)
  BY DEF Entered
<1>1. /\ cs.at \in Authorities \ Literals /\ cs.at \in Enders /\ p \in Nat /\ Spans(m, p) /\ DOMAIN ref = RefFields
      /\ cs.abs \in BOOLEAN /\ Placed(cs) /\ DOMAIN cs = PlaceFields /\ ref.pct = 0 /\ ~ m.thrown
      /\ ref.part = "auth" /\ ref.colon = None /\ ~ ref.closed /\ ref.valid
      /\ cs.at \in {"auth0", "name"} => ref.at = None /\ HostStart(ref) = ref.auth
      /\ cs.at \in {"host0", "host"} => Fixed(ref)
      /\ HostStart(ref) \in Nat
      /\ cs.at \in {"name", "host"} => HostStart(ref) < p
  BY BeforeName
<1>2. Placed(at) /\ at.at = part /\ at.abs = cs.abs /\ at.pct = 0
  BY <1>1 DEF At, Placed, PlaceFields
<1>3. part = CASE cs.at = "auth0" -> "name" [] cs.at = "host0" -> "host" [] OTHER -> cs.at
  OBVIOUS
<1>4. NameStep(cs, c) =
         CASE c = "[" /\ first       -> To([At("head", cs.abs) EXCEPT !.k = 8], do)
           [] c = "@" /\ part = "name" -> To(At("host0", cs.abs), do \o <<"userinfo">>)
           [] c = ":" -> To(At(IF part = "name" THEN "colon" ELSE "port0", cs.abs), do \o <<"host">>)
           [] c = "%" -> Pct(At(part, cs.abs), do)
           [] c = "STX" /\ at.o = "start" -> To([at EXCEPT !.at = "v4", !.o = "stx"], do)
           [] c \in Plain -> To(NameChar(at, c), do)
           [] OTHER -> EndAuthority(cs, c)
  BY <1>3 DEF NameStep
<1>5. (part = "name") <=> cs.at \in {"auth0", "name"}
  OBVIOUS
<1> HIDE DEF do, w, part, at, r
<1>6. CASE c = "[" /\ first
  <2>1. NameStep(cs, c) = To([At("head", cs.abs) EXCEPT !.k = 8], <<"mark">>)
    BY <1>4, <1>6 DEF do, Plain, Alpha, Digit
  <2> QED
    BY <1>6, <2>1, LiteralFrom
<1>7. CASE c = "@" /\ part = "name"
  <2>1. NameStep(cs, c) = To(At("host0", cs.abs), do \o <<"userinfo">>)
    BY <1>4, <1>7 DEF Plain, Alpha, Digit
  <2>2. Spans(w, p) /\ Keeps(w, m, {}) /\ w.mark = HostStart(ref) /\ Actions(do \o <<"userinfo">>) = Save(w, "userinfo")
    BY <1>0, EnteredIs
  <2>3. ref.at = None /\ w.mark = ref.auth
    BY <1>1, <1>5, <1>7, <2>2
  <2> QED
    BY <1>1, <1>7, <2>1, <2>2, <2>3, HostFrom
<1>8. CASE c = ":"
  <2> DEFINE s == At(IF part = "name" THEN "colon" ELSE "port0", cs.abs)
  <2>1. NameStep(cs, c) = To(s, do \o <<"host">>)
    BY <1>4, <1>8 DEF Plain, Alpha, Digit
  <2>2. s = At(IF cs.at \in {"auth0", "name"} THEN "colon" ELSE "port0", cs.abs)
    BY <1>5
  <2> HIDE DEF s
  <2> QED
    BY <1>0, <1>8, <2>1, <2>2, ColonFrom
<1>9. CASE c = "%"
  <2> DEFINE s == [At(part, cs.abs) EXCEPT !.pct = 2]
  <2>1. NameStep(cs, c) = To(s, do)
    BY <1>4, <1>9 DEF Plain, Alpha, Digit, Pct
  <2>2. Placed(s) /\ s.at = part /\ s.abs = cs.abs /\ s.pct = Hexes(c)
    BY <1>1, <1>9 DEF At, Placed, PlaceFields, Hexes
  <2>3. s.at = (IF cs.at \in {"auth0", "name"} THEN "name" ELSE "host") /\ c # "STX" /\ c \in Plain \cup {"%", "STX"}
    BY <1>9, <2>2 DEF part
  <2> HIDE DEF s
  <2> QED
    BY <1>0, <2>1, <2>2, <2>3, NameOn
<1>10. CASE c = "STX" /\ at.o = "start"
  <2> DEFINE s == [at EXCEPT !.at = "v4", !.o = "stx"]
  <2>1. NameStep(cs, c) = To(s, do)
    BY <1>4, <1>10 DEF Plain, Alpha, Digit
  <2>2. Placed(s) /\ s.at = "v4" /\ s.abs = cs.abs /\ s.pct = Hexes(c)
    BY <1>2, <1>10 DEF Placed, PlaceFields, Hexes
  <2> HIDE DEF s
  <2> QED
    BY <1>0, <1>10, <2>1, <2>2, NameOn
<1>11. CASE c \in Plain
  <2> DEFINE s == NameChar(at, c)
  <2>1. NameStep(cs, c) = To(s, do)
    BY <1>4, <1>11 DEF Plain, Alpha, Digit
  <2>2. Placed(s) /\ s.at = part /\ s.abs = cs.abs /\ s.pct = 0
    BY <1>2, NameCharIs
  <2>3. /\ s.at = (IF cs.at \in {"auth0", "name"} THEN "name" ELSE "host") /\ c # "STX" /\ c \in Plain \cup {"%", "STX"}
        /\ Hexes(c) = 0
    BY <1>11, <2>2 DEF part, Plain, Alpha, Digit, Hexes
  <2> HIDE DEF s
  <2> QED
    BY <1>0, <2>1, <2>2, <2>3, NameOn
<1>12. CASE c \in {"/", "?", "#"}
  <2>1. NameStep(cs, c) = EndAuthority(cs, c)
    BY <1>4, <1>12 DEF Plain, Alpha, Digit
  <2> QED
    BY <1>1, <1>12, <2>1, EndAuthorityOK
<1>13. CASE /\ c \notin Plain \cup {"%", ":", "/", "?", "#"}
            /\ ~ (c = "[" /\ first) /\ ~ (c = "@" /\ part = "name") /\ ~ (c = "STX" /\ at.o = "start")
  <2>1. NameStep(cs, c) = Refuse
    BY <1>4, <1>13, EndAuthorityRefuses
  <2>2. ~ r.valid
    <3>1. CASE c = "@"
      BY <1>1, <1>5, <1>13, <3>1, RefAtSign DEF r
    <3>2. CASE c = "["
      <4>1. p # HostStart(ref)
        BY <1>1, <1>13, <3>2
      <4> QED
        BY <1>1, <3>2, <4>1, RefBracket DEF r
    <3>3. CASE c \notin Delimiters
      BY <1>1, <1>13, <3>3, RefName DEF r
    <3> QED
      BY <1>13, <3>1, <3>2, <3>3 DEF Delimiters
  <2>3. Excused(r)
    BY <2>2 DEF Excused
  <2> QED
    BY <1>1, <2>1, <2>3, RefuseOK DEF r
<1> QED
  BY <1>6, <1>7, <1>8, <1>9, <1>10, <1>11, <1>12, <1>13

-----------------------------------------------------------------------------
(* IP literals.                                                            *)

\* What a character of a literal leaves alone.
LitKept(q, r) ==
    /\ q.scheme = r.scheme /\ q.auth = r.auth /\ q.at = r.at /\ q.colon = r.colon /\ q.num = r.num
    /\ q.digits = r.digits /\ q.q = r.q /\ q.f = r.f /\ q.numeric = r.numeric /\ q.pct = r.pct
    /\ (r.stx => q.stx) /\ (r.future => q.future) /\ (r.mid => q.mid)

LEMMA RefClosing ==
    ASSUME NEW r, DOMAIN r = RefFields, r.part = "lit", r.pct = 0, NEW i, NEW c, c = "]", NEW q, q = RefStep(r, i, c)
    PROVE  /\ LitKept(q, r) /\ q.part = "auth" /\ q.closed /\ q.lit = NoLiteral
           /\ q.valid <=> r.valid /\ (r.lit.future \/ Complete(r.lit))
           /\ Wide(r.lit) => q.mid
<1>1. q = RefLiteral(r, c)
  BY DEF RefStep
<1>2. q = [r EXCEPT !.part = "auth", !.closed = TRUE, !.lit = NoLiteral, !.mid = @ \/ Wide(r.lit),
                    !.valid = @ /\ (r.lit.future \/ Complete(r.lit))]
  BY <1>1 DEF RefLiteral
<1> QED
  BY <1>2 DEF LitKept, RefFields

LEMMA RefLiteralIs ==
    ASSUME NEW r, DOMAIN r = RefFields, DOMAIN r.lit = LitFields, r.part = "lit", r.pct = 0,
           NEW i, NEW c, c # "]", NEW q, q = RefStep(r, i, c)
    PROVE  /\ LitKept(q, r) /\ q.part = "lit" /\ q.closed = r.closed
           /\ r.lit.future => q = r
           /\ c = "v" /\ r.lit = NoLiteral => q.lit.future /\ q.future
           /\ ~ r.lit.future /\ ~ (c = "v" /\ r.lit = NoLiteral) /\ MayFollow(r.lit, c) =>
                 /\ q.lit = LiteralStep(r.lit, c) /\ q.valid = r.valid
                 /\ LiteralStep(r.lit, c).dots > 0 /\ Wide(LiteralStep(r.lit, c)) => q.mid
                 /\ c = "." /\ r.lit.val \in 200 .. 249 => q.octet2
                 /\ c # "." /\ LiteralStep(r.lit, c).dots > 0 /\ LiteralStep(r.lit, c).val \in 200 .. 249 => q.octet2
           /\ ~ r.lit.future /\ ~ (c = "v" /\ r.lit = NoLiteral) /\ ~ MayFollow(r.lit, c) =>
                 /\ ~ q.valid /\ q.lit = NoLiteral /\ (c = "STX" => q.stx)
<1>1. q = RefLiteral(r, c)
  BY DEF RefStep
<1> DEFINE next == LiteralStep(r.lit, c)
<1>2. CASE r.lit.future
  <2>1. q = r
    BY <1>1, <1>2 DEF RefLiteral, NoLiteral
  <2>2. r.lit # NoLiteral
    BY <1>2 DEF NoLiteral
  <2> QED
    BY <1>2, <2>1, <2>2 DEF LitKept
<1>3. CASE c = "v" /\ r.lit = NoLiteral
  <2> DEFINE lit == [r.lit EXCEPT !.future = TRUE]
  <2>1. q = [r EXCEPT !.lit = lit, !.future = TRUE] /\ ~ r.lit.future
    BY <1>1, <1>3 DEF RefLiteral, NoLiteral
  <2>2. lit.future
    BY DEF LitFields
  <2> HIDE DEF lit
  <2>3. LitKept(q, r) /\ q.part = "lit" /\ q.closed = r.closed
    BY <2>1 DEF LitKept, RefFields
  <2>4. q.lit = lit /\ q.future
    BY <2>1 DEF RefFields
  <2> QED
    BY <1>3, <2>1, <2>2, <2>3, <2>4
<1>4. CASE ~ r.lit.future /\ ~ (c = "v" /\ r.lit = NoLiteral) /\ MayFollow(r.lit, c)
  <2> DEFINE mid == r.mid \/ (next.dots > 0 /\ Wide(next))
             octet2 == r.octet2 \/ (IF c = "." THEN r.lit.val \in 200 .. 249
                                    ELSE next.dots > 0 /\ next.val \in 200 .. 249)
  <2>1. q = [r EXCEPT !.lit = next, !.mid = mid, !.octet2 = octet2]
    BY <1>1, <1>4 DEF RefLiteral
  <2> HIDE DEF next
  <2>0. /\ (r.mid => mid) /\ (next.dots > 0 /\ Wide(next) => mid)
        /\ c = "." /\ r.lit.val \in 200 .. 249 => octet2
        /\ c # "." /\ next.dots > 0 /\ next.val \in 200 .. 249 => octet2
    OBVIOUS
  <2> HIDE DEF mid, octet2
  <2>5. q.mid = mid /\ q.octet2 = octet2 /\ q.part = "lit" /\ q.closed = r.closed /\ q.lit = next /\ q.valid = r.valid
    BY <2>1 DEF RefFields
  <2>6. /\ q.scheme = r.scheme /\ q.auth = r.auth /\ q.at = r.at /\ q.colon = r.colon /\ q.num = r.num
        /\ q.digits = r.digits /\ q.q = r.q /\ q.f = r.f /\ q.numeric = r.numeric /\ q.pct = r.pct
        /\ q.stx = r.stx /\ q.future = r.future
    BY <2>1 DEF RefFields
  <2>2. LitKept(q, r) /\ q.part = "lit" /\ q.closed = r.closed /\ q.lit = next /\ q.valid = r.valid
    BY <2>0, <2>5, <2>6 DEF LitKept
  <2>3. /\ (next.dots > 0 /\ Wide(next) => q.mid)
        /\ c = "." /\ r.lit.val \in 200 .. 249 => q.octet2
        /\ c # "." /\ next.dots > 0 /\ next.val \in 200 .. 249 => q.octet2
    BY <2>0, <2>5
  <2> QED
    BY <1>4, <2>2, <2>3 DEF next
<1>5. CASE ~ r.lit.future /\ ~ (c = "v" /\ r.lit = NoLiteral) /\ ~ MayFollow(r.lit, c)
  <2> DEFINE octet2 == r.octet2 \/ (c = "." /\ r.lit.val \in 200 .. 249)
             stx == r.stx \/ c = "STX"
  <2>1. q = [r EXCEPT !.valid = FALSE, !.lit = NoLiteral, !.stx = stx, !.octet2 = octet2]
    BY <1>1, <1>5 DEF RefLiteral
  <2>0. (r.stx => stx) /\ (c = "STX" => stx)
    OBVIOUS
  <2> HIDE DEF octet2, stx
  <2>2. LitKept(q, r) /\ q.part = "lit" /\ q.closed = r.closed
    BY <2>0, <2>1 DEF LitKept, RefFields
  <2>3. ~ q.valid /\ q.lit = NoLiteral /\ (c = "STX" => q.stx)
    BY <2>0, <2>1 DEF RefFields
  <2> QED
    BY <1>5, <2>2, <2>3, Zenon
<1> QED
  BY <1>2, <1>3, <1>4, <1>5

\* What is known in a literal.
LEMMA BeforeLiteral ==
    ASSUME UriInv, phase = "read", cs.at \in Literals
    PROVE  /\ InLiteral /\ p \in Nat /\ Spans(m, p) /\ DOMAIN ref = RefFields /\ DOMAIN ref.lit = LitFields
           /\ cs.abs \in BOOLEAN /\ Placed(cs) /\ DOMAIN cs = PlaceFields /\ cs.pct = 0
           /\ ref.pct = 0 /\ ~ m.thrown /\ Named(m, ref) /\ InAuthority(cs, p, m, ref)
           /\ ref.part = "lit" /\ Portless(m, ref) /\ ref.colon = None /\ ~ ref.closed
           /\ m.mark = HostStart(ref) /\ HostStart(ref) < p /\ InLit(cs, ref)
           /\ ref.lit.future => cs.at = "future"
<1>1. cs.at \in Authorities /\ InLiteral
  BY DEF Authorities, Literals, InLiteral
<1>2. Literal(cs, p, m, ref) /\ InAuthority(cs, p, m, ref)
  BY <1>1, BeforeAuthority
<1> QED
  BY <1>1, <1>2, BeforeAuthority DEF Literal, InAuthority

\* A literal goes on.
LEMMA LiteralOn ==
    ASSUME UriInv, phase = "read", cs.at \in Literals, NEW c, c # "]",
           NEW s, Placed(s), s.at \in Literals, s.abs = cs.abs, s.pct = 0,
           InLit(s, RefStep(ref, p, c)), RefStep(ref, p, c).lit.future => s.at = "future"
    PROVE  StepOK(To(s, <<>>), c)
<1> DEFINE r == RefStep(ref, p, c)
           u == Left(To(s, <<>>), c)
<1>1. /\ InLiteral /\ p \in Nat /\ Spans(m, p) /\ DOMAIN ref = RefFields /\ DOMAIN ref.lit = LitFields
      /\ ref.pct = 0 /\ ~ m.thrown /\ Named(m, ref) /\ InAuthority(cs, p, m, ref)
      /\ ref.part = "lit" /\ Portless(m, ref) /\ ref.colon = None /\ ~ ref.closed
      /\ m.mark = HostStart(ref) /\ HostStart(ref) < p
  BY BeforeLiteral
<1>2. LitKept(r, ref) /\ r.part = "lit" /\ r.closed = ref.closed
  BY <1>1, RefLiteralIs
<1>3. SameSaved(u, m) /\ u.mark = m.mark /\ Spans(u, p)
  BY <1>1, NothingSaved DEF Literals
<1>4. InLit(s, r) /\ (r.lit.future => s.at = "future")
  OBVIOUS
<1> HIDE DEF r, u
<1>5. HostStart(r) = HostStart(ref) /\ r.pct = 0 /\ r.colon = None /\ ~ r.closed
  BY <1>1, <1>2 DEF HostStart, LitKept
<1>6. Named(u, r) /\ ~ u.thrown /\ Portless(u, r) /\ Headed(u, r)
  BY <1>1, <1>2, <1>3 DEF Named, NumericPassword, Portless, Unported, Headed, InAuthority, LitKept, SameSaved
<1>7. InAuthority(s, p, u, r)
  BY <1>1, <1>2, <1>3, <1>4, <1>5, <1>6 DEF InAuthority, LitKept, SameSaved
<1>8. Literal(s, p, u, r)
  BY <1>1, <1>2, <1>3, <1>4, <1>5, <1>6 DEF Literal
<1>9. Reading(s, p, u, r)
  BY <1>5, <1>6, <1>7, <1>8, ReadingIs
<1>10. To(s, <<>>).to = s
  BY DEF To
<1> QED
  BY <1>1, <1>3, <1>6, <1>9, <1>10 DEF StepOK, After, r, u

\* A literal ends.
LEMMA LiteralEnds ==
    ASSUME UriInv, phase = "read", cs.at \in Literals, NEW c, c = "]", Tolerated(RefStep(ref, p, c))
    PROVE  StepOK(To(At("end", cs.abs), <<>>), c)
<1> DEFINE r == RefStep(ref, p, c)
           s == At("end", cs.abs)
           u == Left(To(s, <<>>), c)
<1>1. /\ InLiteral /\ p \in Nat /\ Spans(m, p) /\ DOMAIN ref = RefFields /\ DOMAIN ref.lit = LitFields /\ cs.abs \in BOOLEAN
      /\ ref.pct = 0 /\ ~ m.thrown /\ Named(m, ref) /\ InAuthority(cs, p, m, ref)
      /\ ref.part = "lit" /\ Portless(m, ref) /\ ref.colon = None /\ ~ ref.closed
      /\ m.mark = HostStart(ref) /\ HostStart(ref) < p
  BY BeforeLiteral
<1>2. LitKept(r, ref) /\ r.part = "auth" /\ r.closed /\ r.lit = NoLiteral
  BY <1>1, RefClosing
<1>3. Placed(s) /\ s.at = "end" /\ s.abs = cs.abs /\ s.pct = 0
  BY <1>1, AtIs
<1>4. SameSaved(u, m) /\ u.mark = m.mark /\ Spans(u, p)
  BY <1>1, <1>3, NothingSaved
<1>5. Tolerated(r)
  OBVIOUS
<1> HIDE DEF r, s, u
<1>6. HostStart(r) = HostStart(ref) /\ r.pct = 0 /\ r.colon = None
  BY <1>1, <1>2 DEF HostStart, LitKept
<1>7. Named(u, r) /\ ~ u.thrown /\ Unported(u, r) /\ r.num = 0 /\ Headed(u, r)
  BY <1>1, <1>2, <1>4 DEF Named, NumericPassword, Portless, Unported, Headed, InAuthority, LitKept, SameSaved
<1>8. InAuthority(s, p, u, r)
  <2>1. ~ r.lit.future
    BY <1>2 DEF NoLiteral
  <2> QED
    BY <1>1, <1>2, <1>3, <1>4, <1>6, <1>7, <2>1 DEF InAuthority, LitKept, SameSaved
<1>9. Porting(s, p, u, r)
  BY <1>1, <1>2, <1>3, <1>4, <1>5, <1>6, <1>7 DEF Porting
<1>10. Reading(s, p, u, r)
  BY <1>3, <1>6, <1>7, <1>8, <1>9, ReadingIs DEF Ports
<1>11. To(s, <<>>).to = s
  BY DEF To
<1>12. StepOK(To(s, <<>>), c)
  BY <1>1, <1>3, <1>4, <1>7, <1>10, <1>11 DEF StepOK, After, r, u
<1> QED
  BY <1>12 DEF s

\* A literal is refused.
LEMMA LiteralRefused ==
    ASSUME UriInv, phase = "read", cs.at \in Literals, NEW c, Excused(RefStep(ref, p, c))
    PROVE  StepOK(Refuse, c)
BY BeforeLiteral, RefuseOK

LEMMA LiteralStepIs ==
    ASSUME NEW l, DOMAIN l = LitFields, NEW c, NEW next, next = LiteralStep(l, c)
    PROVE  /\ next.future = l.future
           /\ c = ":" /\ l.prev = ":" =>
                 /\ next.prev = "::" /\ next.dbl = (IF l.n = 0 THEN "lead" ELSE "mid")
                 /\ next.n = l.n /\ next.d = l.d /\ next.val = l.val /\ next.dots = l.dots
           /\ c = ":" /\ l.prev # ":" =>
                 /\ next.prev = ":" /\ next.dbl = l.dbl /\ next.n = (IF l.d > 0 THEN l.n + 1 ELSE l.n)
                 /\ next.d = 0 /\ next.val = 0 /\ next.dots = l.dots
           /\ c = "." =>
                 /\ next.prev = "." /\ next.dbl = l.dbl /\ next.n = l.n
                 /\ next.d = 0 /\ next.val = 0 /\ next.dots = l.dots + 1
           /\ c \notin {":", "."} =>
                 /\ next.prev = "h" /\ next.dbl = l.dbl /\ next.n = l.n
                 /\ next.d = l.d + 1 /\ next.val = Decimal(l, c) /\ next.dots = l.dots
BY DEF LiteralStep, LitFields

\* The digits of an octet, one by one.
LEMMA OctetBegins ==
    ASSUME NEW l, DOMAIN l = LitFields, l.d = 0, l.val = 0, NEW c \in Hex, NEW next, next = LiteralStep(l, c)
    PROVE  OctetOf(OctetStart(c), next)
<1>1. c \notin {":", "."}
  BY DEF Hex, Digit
<1>2. next.d = 1 /\ next.val = Decimal(l, c)
  BY <1>1, LiteralStepIs
<1>3. CASE c = "a"
  <2>1. Decimal(l, c) = -1 /\ OctetStart(c) = "no"
    BY <1>3 DEF Decimal, Digit, OctetStart
  <2> QED
    BY <1>2, <2>1 DEF OctetOf
<1>4. CASE c \in Digit
  <2>1. Decimal(l, c) = Value(c)
    BY <1>4, ValueIs DEF Decimal, Digit
  <2>2. next.val = Value(c)
    BY <1>2, <2>1
  <2> QED
    BY <1>2, <1>4, <2>2, ValueIs DEF OctetOf, OctetStart, Digit
<1> QED
  BY <1>3, <1>4 DEF Hex

LEMMA OctetGoesOn ==
    ASSUME NEW l, DOMAIN l = LitFields, NEW o, OctetOf(o, l), NEW c \in Hex, NEW next, next = LiteralStep(l, c)
    PROVE  OctetOf(Octet(o, c), next) /\ Octet(o, c) # "start"
<1>1. c \notin {":", "."}
  BY DEF Hex, Digit
<1>2. next.d = l.d + 1 /\ next.val = Decimal(l, c)
  BY <1>1, LiteralStepIs
<1>3. o \in {"two", "200", "25", "one", "full", "no"}
  BY DEF OctetOf
<1>4. CASE c = "a"
  <2>1. Decimal(l, c) = -1 /\ Octet(o, c) = "no"
    BY <1>3, <1>4 DEF Decimal, Digit, Octet
  <2> QED
    BY <1>2, <2>1 DEF OctetOf
<1>5. CASE c \in Digit
  <2>0. Value(c) \in {0, 1, 2, 3, 5, 6}
    BY <1>5, ValueIs DEF Digit
  <2>1. CASE o = "two"
    <3>1. l.val = 1 /\ l.d = 1 /\ Octet(o, c) = "one"
      BY <1>5, <2>1 DEF OctetOf, Octet
    <3>2. Decimal(l, c) = 10 + Value(c)
      BY <1>5, <2>0, <3>1 DEF Decimal
    <3> QED
      BY <1>2, <2>0, <3>1, <3>2 DEF OctetOf
  <2>2. CASE o = "200"
    <3>1. l.val = 2 /\ l.d = 1 /\ Octet(o, c) = IF c = "5" THEN "25" ELSE "full"
      BY <1>5, <2>2 DEF OctetOf, Octet
    <3>2. Decimal(l, c) = 20 + Value(c)
      BY <1>5, <2>0, <3>1 DEF Decimal
    <3>3. c = "5" <=> Value(c) = 5
      BY <1>5, ValueIs DEF Digit
    <3> QED
      BY <1>2, <2>0, <3>1, <3>2, <3>3 DEF OctetOf
  <2>3. CASE o = "25"
    <3>1. l.val = 25 /\ l.d = 2 /\ Octet(o, c) = IF c = "6" THEN "no" ELSE "full"
      BY <1>5, <2>3 DEF OctetOf, Octet
    <3>2. c = "6" <=> Value(c) = 6
      BY <1>5, ValueIs DEF Digit
    <3>3. Decimal(l, c) = IF c = "6" THEN -1 ELSE 250 + Value(c)
      BY <1>5, <2>0, <3>1, <3>2 DEF Decimal
    <3> QED
      BY <1>2, <2>0, <3>1, <3>2, <3>3 DEF OctetOf
  <2>4. CASE o = "one"
    <3>1. ((l.val \in {3, 5, 6} /\ l.d = 1) \/ (l.val \in 10 .. 19 /\ l.d = 2)) /\ Octet(o, c) = "full"
      BY <1>5, <2>4 DEF OctetOf, Octet
    <3>2. Decimal(l, c) = l.val * 10 + Value(c)
      BY <1>5, <2>0, <3>1 DEF Decimal
    <3> QED
      BY <1>2, <2>0, <3>1, <3>2 DEF OctetOf
  <2>5. CASE o = "full"
    <3>1. (l.val = 0 \/ l.val \in 20 .. 24 \/ l.val \in 26 .. 255) /\ l.d \in 1 .. 3 /\ Octet(o, c) = "no"
      BY <1>5, <2>5 DEF OctetOf, Octet
    <3>2. Decimal(l, c) = -1 \/ Decimal(l, c) \in 200 .. 249
      BY <1>5, <2>0, <3>1 DEF Decimal
    <3> QED
      BY <1>2, <3>1, <3>2 DEF OctetOf
  <2>6. CASE o = "no"
    <3>1. (l.val = -1 \/ l.val \in 200 .. 249) /\ Octet(o, c) = "no"
      BY <1>5, <2>6 DEF OctetOf, Octet
    <3>2. Decimal(l, c) = -1
      BY <1>5, <2>0, <3>1 DEF Decimal
    <3> QED
      BY <1>2, <3>1, <3>2 DEF OctetOf
  <2> QED
    BY <1>3, <2>1, <2>2, <2>3, <2>4, <2>5, <2>6
<1> QED
  BY <1>4, <1>5 DEF Hex

\* An octet that may end has a number.
LEMMA EndedOctet ==
    ASSUME NEW l, NEW o, OctetOf(o, l)
    PROVE  /\ o # "no" => Ended(o) /\ l.d \in 1 .. 3 /\ l.val \in 0 .. 255
           /\ o = "no" => ~ Ended(o) /\ (l.val = -1 \/ l.val \in 200 .. 249)
<1>1. o # "no" => Ended(o) /\ l.d \in 1 .. 3 /\ l.val \in 0 .. 255
  BY DEF OctetOf, Ended
<1>2. o = "no" => ~ Ended(o) /\ (l.val = -1 \/ l.val \in 200 .. 249)
  BY DEF OctetOf, Ended
<1> QED
  BY <1>1, <1>2

\* One more digit of a group: its place t after s.
Digits(t, s, c, quad) ==
    /\ DOMAIN t = PlaceFields /\ t.at = s.at /\ t.abs = s.abs /\ t.pct = s.pct /\ t.k = s.k /\ t.d = s.d + 1
    /\ (s.d > 0 => t.o = Octet(s.o, c))
    /\ (~ (s.d > 0) /\ quad => t.o = OctetStart(c))
    /\ (~ (s.d > 0) /\ ~ quad => t.o = "no")

LEMMA GroupingOn ==
    ASSUME NEW s, DOMAIN s = PlaceFields, NEW l, DOMAIN l = LitFields, NEW quad \in BOOLEAN, Grouping(s, l, quad),
           s.d \in Nat, NEW c \in Hex, NEW next, next = LiteralStep(l, c),
           NEW t, Digits(t, s, c, quad)
    PROVE  Grouping(t, next, quad)
<1>1. c \notin {":", "."}
  BY DEF Hex, Digit
<1>2. next.prev = "h" /\ next.n = l.n /\ next.d = l.d + 1 /\ next.dots = l.dots
  BY <1>1, LiteralStepIs
<1>3. /\ t.d = s.d + 1 /\ (s.d > 0 => t.o = Octet(s.o, c))
      /\ (~ (s.d > 0) /\ quad => t.o = OctetStart(c)) /\ (~ (s.d > 0) /\ ~ quad => t.o = "no")
  BY DEF Digits
<1>4. l.dots = 0 /\ l.n \in Nat /\ l.d = s.d
  BY DEF Grouping
<1>5. ~ quad => t.o = "no"
  <2>1. Octet("no", c) = "no"
    BY DEF Octet
  <2> QED
    BY <1>3, <2>1 DEF Grouping
<1>6. quad => OctetOf(t.o, next)
  <2>1. CASE s.d > 0 /\ quad
    <3>1. OctetOf(s.o, l)
      BY <2>1 DEF Grouping
    <3>2. OctetOf(Octet(s.o, c), next)
      BY <3>1, OctetGoesOn
    <3> QED
      BY <1>3, <2>1, <3>2
  <2>2. CASE ~ (s.d > 0) /\ quad
    <3>1. s.d = 0
      BY <2>2
    <3>2. l.d = 0 /\ l.val = 0
      BY <1>4, <3>1 DEF Grouping
    <3>3. OctetOf(OctetStart(c), next)
      BY <3>2, OctetBegins
    <3> QED
      BY <1>3, <2>2, <3>3
  <2> QED
    BY <2>1, <2>2
<1> QED
  BY <1>2, <1>3, <1>4, <1>5, <1>6 DEF Grouping

\* What is refused by both.
LEMMA NotFollowing ==
    ASSUME UriInv, phase = "read", cs.at \in Literals \ {"future"}, NEW c, c # "]", ~ MayFollow(ref.lit, c)
    PROVE  Excused(RefStep(ref, p, c))
<1>1. /\ DOMAIN ref = RefFields /\ DOMAIN ref.lit = LitFields /\ ref.pct = 0 /\ ref.part = "lit" /\ ~ ref.lit.future
  BY BeforeLiteral
<1> QED
  BY <1>1, RefLiteralIs DEF Excused

LEMMA NoLiteralChar ==
    ASSUME UriInv, phase = "read", cs.at \in Literals \ {"future"}, NEW c, c \notin Hex \cup {":", ".", "]"}
    PROVE  ~ MayFollow(ref.lit, c) /\ Excused(RefStep(ref, p, c))
<1>1. ~ MayFollow(ref.lit, c)
  BY DEF MayFollow
<1> QED
  BY <1>1, NotFollowing

\* The byte 2 begins an octet.
LEMMA QuadSTX ==
    ASSUME UriInv, phase = "read", cs.at \in Literals \ {"future"}, NEW c, c = "STX"
    PROVE  StepOK(To([At("quad", cs.abs) EXCEPT !.k = 1, !.o = "stx"], <<>>), c)
<1> DEFINE r == RefStep(ref, p, c)
           s == [At("quad", cs.abs) EXCEPT !.k = 1, !.o = "stx"]
<1>1. /\ DOMAIN ref = RefFields /\ DOMAIN ref.lit = LitFields /\ ref.pct = 0 /\ ref.part = "lit" /\ ~ ref.lit.future
      /\ cs.abs \in BOOLEAN
  BY BeforeLiteral
<1>2. ~ MayFollow(ref.lit, c)
  BY NoLiteralChar DEF Hex, Digit
<1>3. ~ r.valid /\ r.lit = NoLiteral /\ r.stx
  BY <1>1, <1>2, RefLiteralIs
<1>4. Placed(s) /\ s.at = "quad" /\ s.abs = cs.abs /\ s.pct = 0 /\ s.k = 1
  BY <1>1 DEF At, Placed, PlaceFields
<1> HIDE DEF s, r
<1>5. InLit(s, r)
  BY <1>3, <1>4 DEF InLit
<1>6. ~ r.lit.future
  BY <1>3 DEF NoLiteral
<1>7. StepOK(To(s, <<>>), c)
  BY <1>4, <1>5, <1>6, LiteralOn DEF Literals, r
<1> QED
  BY <1>7 DEF s

\* The first octet of an address that ends an IPv6 address is complete.
LEMMA QuadDot ==
    ASSUME UriInv, phase = "read", cs.at \in {"head", "tail", "lead"}, NEW c, c = ".", Ended(cs.o),
           NEW quad \in BOOLEAN, Grouping(cs, ref.lit, quad), ref.valid,
           quad => ref.lit.n <= (IF ref.lit.dbl = "none" THEN 6 ELSE 5) /\ (ref.lit.dbl = "none" => ref.lit.n = 6)
    PROVE  StepOK(To([At("quad", cs.abs) EXCEPT !.k = 2, !.o = "start"], <<>>), c)
<1> DEFINE r == RefStep(ref, p, c)
           s == [At("quad", cs.abs) EXCEPT !.k = 2, !.o = "start"]
           l == ref.lit
           next == LiteralStep(l, c)
<1>0. cs.at \in Literals \ {"future"}
  BY DEF Literals
<1>1. /\ DOMAIN ref = RefFields /\ DOMAIN l = LitFields /\ ref.pct = 0 /\ ref.part = "lit" /\ ~ l.future
      /\ cs.abs \in BOOLEAN /\ Placed(cs)
  BY <1>0, BeforeLiteral
<1>2. quad /\ cs.d > 0 /\ OctetOf(cs.o, l) /\ l.dots = 0 /\ l.n \in Nat /\ l.d = cs.d
  <2>1. cs.o # "no"
    BY DEF Ended
  <2>2. cs.d \in Nat
    BY <1>1 DEF Placed
  <2>3. quad /\ cs.d > 0
    BY <2>1, <2>2 DEF Grouping
  <2> QED
    BY <2>3 DEF Grouping
<1>3. l.val # -1
  BY <1>2, EndedOctet DEF Ended
<1>4. /\ next.prev = "." /\ next.dbl = l.dbl /\ next.n = l.n
      /\ next.d = 0 /\ next.val = 0 /\ next.dots = l.dots + 1 /\ next.future = l.future
  BY <1>1, LiteralStepIs
<1>5. MayFollow(l, c)
  <2>1. Groups(next) = l.n + 2
    BY <1>2, <1>4 DEF Groups
  <2> HIDE DEF next
  <2> QED
    BY <1>2, <1>3, <1>4, <2>1 DEF MayFollow, Hex, Digit, next
<1> HIDE DEF next
<1>6. r.lit = next /\ r.valid
  BY <1>1, <1>5, RefLiteralIs DEF next
<1>7. Placed(s) /\ s.at = "quad" /\ s.abs = cs.abs /\ s.pct = 0 /\ s.k = 2 /\ s.o = "start"
  BY <1>1 DEF At, Placed, PlaceFields
<1> HIDE DEF s, r
<1>8. InLit(s, r)
  BY <1>2, <1>4, <1>6, <1>7 DEF InLit
<1>9. ~ r.lit.future
  BY <1>1, <1>4, <1>6
<1>10. StepOK(To(s, <<>>), c)
  BY <1>0, <1>7, <1>8, <1>9, LiteralOn DEF Literals, r
<1> QED
  BY <1>10 DEF s

\* What is no octet is refused.
LEMMA DotExcused ==
    ASSUME UriInv, phase = "read", cs.at \in {"head", "tail", "lead"}, NEW c, c = ".", ~ Ended(cs.o),
           NEW quad \in BOOLEAN, Grouping(cs, ref.lit, quad), ~ quad => ~ MayFollow(ref.lit, c)
    PROVE  Excused(RefStep(ref, p, c))
<1> DEFINE r == RefStep(ref, p, c)
           l == ref.lit
<1>0. cs.at \in Literals \ {"future"}
  BY DEF Literals
<1>1. /\ DOMAIN ref = RefFields /\ DOMAIN l = LitFields /\ ref.pct = 0 /\ ref.part = "lit" /\ ~ l.future
      /\ Placed(cs)
  BY <1>0, BeforeLiteral
<1>2. CASE ~ MayFollow(l, c)
  BY <1>0, <1>2, NotFollowing
<1>3. CASE MayFollow(l, c)
  <2>1. quad /\ l.d > 0 /\ l.val # -1
    BY <1>3 DEF MayFollow
  <2>2. OctetOf(cs.o, l)
    BY <2>1 DEF Grouping
  <2>3. cs.o = "no"
    BY <2>2, EndedOctet
  <2>4. l.val \in 200 .. 249
    BY <2>1, <2>2, <2>3, EndedOctet
  <2>5. r.octet2
    BY <1>1, <1>3, <2>4, RefLiteralIs
  <2> QED
    BY <2>5 DEF Excused
<1> QED
  BY <1>2, <1>3

LEMMA HexFollows ==
    ASSUME UriInv, phase = "read", cs.at \in {"head", "tail", "lead"}, NEW c \in Hex, cs.d < 4,
           NEW quad \in BOOLEAN, Grouping(cs, ref.lit, quad),
           ~ (ref.lit.prev = ":" /\ ref.lit.n = 0), ref.lit.n + 1 <= (IF ref.lit.dbl = "none" THEN 8 ELSE 7),
           NEW s, Digits(s, cs, c, quad), NEW r, r = RefStep(ref, p, c)
    PROVE  /\ Placed(s) /\ s.at = cs.at /\ s.abs = cs.abs /\ s.pct = 0 /\ s.k = cs.k /\ s.d > 0
           /\ r.valid = ref.valid /\ Grouping(s, r.lit, quad)
           /\ r.lit.prev = "h" /\ r.lit.n = ref.lit.n /\ r.lit.dbl = ref.lit.dbl /\ ~ r.lit.future
<1> DEFINE l == ref.lit
           next == LiteralStep(l, c)
<1>0. cs.at \in Literals \ {"future"}
  BY DEF Literals
<1>1. /\ DOMAIN ref = RefFields /\ DOMAIN l = LitFields /\ ref.pct = 0 /\ ref.part = "lit" /\ ~ l.future
      /\ Placed(cs) /\ DOMAIN cs = PlaceFields /\ cs.pct = 0
  BY <1>0, BeforeLiteral
<1>2. c \notin {":", ".", "]", "v"} /\ cs.d \in Nat
  BY <1>1 DEF Hex, Digit, Placed
<1>3. /\ next.prev = "h" /\ next.dbl = l.dbl /\ next.n = l.n /\ next.d = l.d + 1 /\ next.dots = l.dots
      /\ next.future = l.future
  BY <1>1, <1>2, LiteralStepIs
<1>4. l.dots = 0 /\ l.n \in Nat /\ l.d = cs.d
  BY DEF Grouping
<1>5. Grouping(s, next, quad)
  BY <1>1, <1>2, GroupingOn
<1> HIDE DEF next
<1>6. MayFollow(l, c)
  <2>1. Groups(next) = l.n + 1
    BY <1>2, <1>3, <1>4 DEF Groups
  <2> QED
    BY <1>2, <1>3, <1>4, <2>1 DEF MayFollow, next
<1>7. r.lit = next /\ r.valid = ref.valid /\ LitKept(r, ref)
  BY <1>1, <1>2, <1>6, RefLiteralIs DEF next
<1>8. Placed(s) /\ s.at = cs.at /\ s.abs = cs.abs /\ s.pct = 0 /\ s.k = cs.k /\ s.d > 0
  BY <1>1, <1>2 DEF Placed, Digits
<1> QED
  BY <1>1, <1>3, <1>5, <1>7, <1>8 DEF LitKept

\* A group has four digits at most.
LEMMA HexRefused ==
    ASSUME UriInv, phase = "read", cs.at \in {"head", "tail", "lead"}, NEW c \in Hex, ~ (cs.d < 4),
           NEW quad, Grouping(cs, ref.lit, quad)
    PROVE  Excused(RefStep(ref, p, c))
<1>1. ~ MayFollow(ref.lit, c)
  BY DEF MayFollow, Grouping
<1>2. c # "]" /\ cs.at \in Literals \ {"future"}
  BY DEF Hex, Digit, Literals
<1> QED
  BY <1>1, <1>2, NotFollowing

\* A group is complete.
LEMMA GroupFollows ==
    ASSUME UriInv, phase = "read", cs.at \in {"head", "tail", "lead"}, NEW c, c = ":", cs.d > 0, cs.k > 1,
           NEW quad \in BOOLEAN, Grouping(cs, ref.lit, quad),
           ref.lit.n + 1 <= (IF ref.lit.dbl = "none" THEN 7 ELSE 6),
           NEW s, s = [cs EXCEPT !.k = @ - 1, !.d = 0, !.o = "no"], NEW r, r = RefStep(ref, p, c)
    PROVE  /\ Placed(s) /\ s.at = cs.at /\ s.abs = cs.abs /\ s.pct = 0 /\ s.k = cs.k - 1 /\ s.d = 0
           /\ r.valid = ref.valid /\ (\A q : Grouping(s, r.lit, q))
           /\ r.lit.prev = ":" /\ r.lit.n = ref.lit.n + 1 /\ r.lit.dbl = ref.lit.dbl /\ ~ r.lit.future
<1> DEFINE l == ref.lit
           next == LiteralStep(l, c)
<1>0. cs.at \in Literals \ {"future"}
  BY DEF Literals
<1>1. /\ DOMAIN ref = RefFields /\ DOMAIN l = LitFields /\ ref.pct = 0 /\ ref.part = "lit" /\ ~ l.future
      /\ Placed(cs) /\ DOMAIN cs = PlaceFields /\ cs.pct = 0
  BY <1>0, BeforeLiteral
<1>2. l.dots = 0 /\ l.n \in Nat /\ l.d = cs.d /\ l.prev = "h"
  BY DEF Grouping
<1>3. /\ next.prev = ":" /\ next.dbl = l.dbl /\ next.n = l.n + 1
      /\ next.d = 0 /\ next.val = 0 /\ next.dots = 0 /\ next.future = l.future
  BY <1>1, <1>2, LiteralStepIs
<1> HIDE DEF next
<1>4. MayFollow(l, c)
  <2>1. Groups(next) = l.n + 1
    BY <1>2, <1>3 DEF Groups
  <2> QED
    BY <1>2, <1>3, <2>1 DEF MayFollow, Hex, Digit, next
<1>5. r.lit = next /\ r.valid = ref.valid /\ LitKept(r, ref)
  BY <1>1, <1>4, RefLiteralIs DEF next
<1>6. Placed(s) /\ s.at = cs.at /\ s.abs = cs.abs /\ s.pct = 0 /\ s.k = cs.k - 1 /\ s.d = 0 /\ s.o = "no"
  BY <1>1 DEF Placed, PlaceFields
<1>7. \A q : Grouping(s, next, q)
  BY <1>2, <1>3, <1>6 DEF Grouping
<1> QED
  BY <1>1, <1>3, <1>5, <1>6, <1>7 DEF LitKept

\* GroupDigit(), by its cases.
LEMMA GroupDigitIs ==
    ASSUME NEW s, NEW c, NEW quad
    PROVE  /\ c \in Hex /\ s.d < 4 /\ s.k > 0 => GroupDigit(s, c, quad) =
                 To([s EXCEPT !.d = @ + 1, !.o = IF s.d > 0 THEN Octet(@, c) ELSE IF quad THEN OctetStart(c) ELSE "no"], <<>>)
           /\ c = "STX" /\ s.d = 0 /\ quad => GroupDigit(s, c, quad) = To([At("quad", s.abs) EXCEPT !.k = 1, !.o = "stx"], <<>>)
           /\ c = "." /\ Ended(s.o) => GroupDigit(s, c, quad) = To([At("quad", s.abs) EXCEPT !.k = 2, !.o = "start"], <<>>)
           /\ ~ (c \in Hex /\ s.d < 4 /\ s.k > 0) /\ ~ (c = "STX" /\ s.d = 0 /\ quad) /\ ~ (c = "." /\ Ended(s.o)) =>
                 GroupDigit(s, c, quad) = Refuse
<1>1. "STX" \notin Hex /\ "." \notin Hex
  BY DEF Hex, Digit
<1> QED
  BY <1>1 DEF GroupDigit

\* Where an IPv4 address may take the place of two groups.
MayQuad(s) == s.k = 2 \/ (s.at = "lead" /\ s.k > 1)

\* What is known between the groups.
LEMMA BetweenGroups ==
    ASSUME UriInv, phase = "read", cs.at \in {"head", "tail", "lead"}
    PROVE  /\ Grouping(cs, ref.lit, MayQuad(cs)) /\ ref.valid /\ cs.k \in Nat /\ cs.d \in Nat /\ ref.lit.n \in Nat
           /\ MayQuad(cs) \in BOOLEAN
           /\ ref.lit.n + cs.k = (IF cs.at = "head" THEN 8 ELSE 7)
           /\ ref.lit.dbl = (CASE cs.at = "head" -> "none" [] cs.at = "tail" -> "mid" [] OTHER -> "lead")
           /\ (cs.at # "tail" => cs.k > 0)
           /\ ~ (ref.lit.prev = ":" /\ ref.lit.n = 0)
<1>0. cs.at \in Literals
  BY DEF Literals
<1>1. InLit(cs, ref) /\ cs.k \in 0 .. 8 /\ cs.d \in 0 .. 4
  BY <1>0, BeforeLiteral DEF Placed
<1>2. MayQuad(cs) \in BOOLEAN
  BY <1>1 DEF MayQuad
<1>3. NoLiteral.prev = "["
  BY DEF NoLiteral
<1>4. CASE cs.at = "head"
  BY <1>1, <1>2, <1>3, <1>4 DEF InLit, MayQuad, Grouping
<1>5. CASE cs.at = "tail"
  BY <1>1, <1>2, <1>5 DEF InLit, MayQuad, Grouping
<1>6. CASE cs.at = "lead"
  BY <1>1, <1>2, <1>6 DEF InLit, MayQuad, Grouping
<1> QED
  BY <1>4, <1>5, <1>6

\* One more character of a group.
LEMMA GroupOK ==
    ASSUME UriInv, phase = "read", cs.at \in {"head", "tail", "lead"}, NEW c \in Chars, c \notin {":", "]"},
           ~ (c = "v" /\ cs.at = "head" /\ cs.k = 8 /\ cs.d = 0)
    PROVE  StepOK(GroupDigit(cs, c, MayQuad(cs)), c)
<1> DEFINE quad == MayQuad(cs)
           l == ref.lit
           r == RefStep(ref, p, c)
<1>0. cs.at \in Literals /\ cs.at # "future"
  BY DEF Literals
<1>1. /\ p \in Nat /\ Spans(m, p) /\ ~ m.thrown /\ cs.abs \in BOOLEAN
  BY <1>0, BeforeLiteral
<1>2. /\ Grouping(cs, l, quad) /\ ref.valid /\ cs.k \in Nat /\ cs.d \in Nat /\ l.n \in Nat
      /\ quad \in BOOLEAN
      /\ l.n + cs.k = (IF cs.at = "head" THEN 8 ELSE 7)
      /\ l.dbl = (CASE cs.at = "head" -> "none" [] cs.at = "tail" -> "mid" [] OTHER -> "lead")
      /\ (cs.at # "tail" => cs.k > 0)
      /\ ~ (l.prev = ":" /\ l.n = 0)
  BY BetweenGroups
<1>3. Excused(r) => StepOK(Refuse, c)
  BY <1>1, RefuseOK
<1>4. quad <=> cs.k = 2 \/ (cs.at = "lead" /\ cs.k > 1)
  BY DEF MayQuad
<1> HIDE DEF quad, r
<1>5. CASE c \in Hex /\ cs.d < 4 /\ cs.k > 0
  <2> DEFINE s == [cs EXCEPT !.d = @ + 1, !.o = IF cs.d > 0 THEN Octet(@, c) ELSE IF quad THEN OctetStart(c) ELSE "no"]
  <2>0. c # "STX" /\ c # "."
    BY <1>5 DEF Hex, Digit
  <2>1. GroupDigit(cs, c, quad) = To(s, <<>>)
    BY <1>5, <2>0 DEF GroupDigit
  <2>2. l.n + 1 <= (IF l.dbl = "none" THEN 8 ELSE 7)
    BY <1>2, <1>5
  <2>3. /\ Placed(s) /\ s.at = cs.at /\ s.abs = cs.abs /\ s.pct = 0 /\ s.k = cs.k /\ s.d > 0
        /\ r.valid = ref.valid /\ Grouping(s, r.lit, quad)
        /\ r.lit.prev = "h" /\ r.lit.n = l.n /\ r.lit.dbl = l.dbl /\ ~ r.lit.future
    <3>1. c \in Hex /\ cs.d < 4 /\ quad \in BOOLEAN /\ Grouping(cs, l, quad) /\ ~ (l.prev = ":" /\ l.n = 0)
      BY <1>2, <1>5
    <3> HIDE DEF s
    <3>2. Digits(s, cs, c, quad)
      <4>1. DOMAIN cs = PlaceFields
        BY <1>0, BeforeLiteral
      <4> QED
        BY <4>1 DEF Digits, s, PlaceFields
    <3> QED
      BY <2>2, <3>1, <3>2, HexFollows DEF r
  <2>4. InLit(cs, ref)
    BY <1>0, BeforeLiteral
  <2> HIDE DEF s
  <2>5. InLit(s, r)
    BY <1>2, <1>4, <1>5, <2>3, <2>4 DEF InLit
  <2>6. c # "]"
    OBVIOUS
  <2>7. StepOK(To(s, <<>>), c)
    BY <1>0, <2>3, <2>5, LiteralOn DEF r
  <2> QED
    BY <2>1, <2>7 DEF quad
<1>6. CASE c \in Hex /\ ~ (cs.d < 4 /\ cs.k > 0)
  <2>1. Excused(r)
    <3>1. CASE cs.d < 4
      <4> DEFINE next == LiteralStep(l, c)
      <4>1. DOMAIN l = LitFields /\ c \notin {":", ".", "]"}
        BY <1>0, <1>6, BeforeLiteral DEF Hex, Digit
      <4>2. l.n = 7 /\ l.dbl = "mid" /\ l.dots = 0 /\ l.d \in Nat
        BY <1>2, <1>6, <3>1 DEF Grouping
      <4>3. next.n = 7 /\ next.dbl = "mid" /\ next.d = l.d + 1 /\ next.dots = 0
        BY <4>1, <4>2, LiteralStepIs
      <4> HIDE DEF next
      <4>4. Groups(next) = 8
        BY <4>2, <4>3 DEF Groups
      <4>5. ~ MayFollow(l, c)
        BY <4>3, <4>4 DEF MayFollow, next
      <4> QED
        BY <1>0, <4>1, <4>5, NotFollowing DEF r
    <3>2. CASE ~ (cs.d < 4)
      BY <1>2, <1>6, <3>2, HexRefused DEF r
    <3> QED
      BY <3>1, <3>2
  <2>2. c # "STX" /\ c # "."
    BY <1>6 DEF Hex, Digit
  <2>3. GroupDigit(cs, c, quad) = Refuse
    BY <1>6, <2>2, GroupDigitIs
  <2> QED
    BY <1>3, <2>1, <2>3 DEF quad
<1>7. CASE c = "STX"
  <2>1. c \notin Hex /\ c \notin Hex \cup {":", ".", "]"}
    BY <1>7 DEF Hex, Digit
  <2>2. CASE cs.d = 0 /\ quad
    <3>1. GroupDigit(cs, c, quad) = To([At("quad", cs.abs) EXCEPT !.k = 1, !.o = "stx"], <<>>)
      BY <1>7, <2>2, GroupDigitIs
    <3>2. StepOK(To([At("quad", cs.abs) EXCEPT !.k = 1, !.o = "stx"], <<>>), c)
      BY <1>0, <1>7, QuadSTX
    <3> QED
      BY <3>1, <3>2 DEF quad
  <2>3. CASE ~ (cs.d = 0 /\ quad)
    <3>1. GroupDigit(cs, c, quad) = Refuse
      BY <1>7, <2>1, <2>3, GroupDigitIs
    <3>2. Excused(r)
      BY <1>0, <2>1, NoLiteralChar DEF r
    <3> QED
      BY <1>3, <3>1, <3>2 DEF quad
  <2> QED
    BY <2>2, <2>3
<1>8. CASE c = "."
  <2>1. c \notin Hex
    BY <1>8 DEF Hex, Digit
  <2>2. CASE Ended(cs.o)
    <3>1. GroupDigit(cs, c, quad) = To([At("quad", cs.abs) EXCEPT !.k = 2, !.o = "start"], <<>>)
      BY <1>8, <2>2, GroupDigitIs
    <3>2. quad => l.n <= (IF l.dbl = "none" THEN 6 ELSE 5) /\ (l.dbl = "none" => l.n = 6)
      BY <1>2, <1>4
    <3>3. StepOK(To([At("quad", cs.abs) EXCEPT !.k = 2, !.o = "start"], <<>>), c)
      BY <1>2, <1>8, <2>2, <3>2, QuadDot
    <3> QED
      BY <3>1, <3>3 DEF quad
  <2>3. CASE ~ Ended(cs.o)
    <3>1. GroupDigit(cs, c, quad) = Refuse
      BY <1>8, <2>1, <2>3, GroupDigitIs
    <3>2. Excused(r)
      <4> DEFINE next == LiteralStep(l, c)
      <4>1. DOMAIN l = LitFields /\ DOMAIN ref = RefFields /\ ref.part = "lit" /\ ref.pct = 0 /\ ~ l.future
        BY <1>0, BeforeLiteral
      <4>2. next.dots = 1 /\ next.n = l.n /\ next.dbl = l.dbl
        BY <1>2, <1>8, <4>1, LiteralStepIs DEF Grouping
      <4> HIDE DEF next
      <4>3. Groups(next) = l.n + 2
        BY <1>2, <4>2 DEF Groups
      <4>4. MayFollow(l, c) => (l.dbl = "none" => l.n = 6) /\ Groups(next) <= (IF next.dbl = "none" THEN 8 ELSE 7)
        BY <1>8 DEF MayFollow, next
      <4>5. CASE quad \/ ~ MayFollow(l, c)
        BY <1>2, <1>8, <2>3, <4>5, DotExcused DEF r
      <4>6. CASE ~ quad /\ MayFollow(l, c)
        <5>1. cs.at = "tail" /\ Groups(next) < 7 /\ next.dbl = "mid"
          BY <1>2, <1>4, <4>2, <4>3, <4>4, <4>6
        <5>2. Wide(next)
          BY <5>1 DEF Wide
        <5>3. r.mid
          BY <1>8, <4>1, <4>2, <4>6, <5>2, RefLiteralIs DEF r, next
        <5> QED
          BY <5>3 DEF Excused
      <4> QED
        BY <4>5, <4>6
    <3> QED
      BY <1>3, <3>1, <3>2 DEF quad
  <2> QED
    BY <2>2, <2>3
<1>9. CASE c \notin Hex \cup {"STX", "."}
  <2>1. GroupDigit(cs, c, quad) = Refuse
    BY <1>9, GroupDigitIs
  <2>2. Excused(r)
    BY <1>0, <1>9, NoLiteralChar DEF r
  <2> QED
    BY <1>3, <2>1, <2>2 DEF quad
<1> QED
  BY <1>5, <1>6, <1>7, <1>8, <1>9

\* After ":" or "]" no group goes on.
LEMMA NoGroup ==
    ASSUME NEW s, NEW c \in {":", "]"}, NEW quad
    PROVE  GroupDigit(s, c, quad) = Refuse
<1>1. c \notin Hex /\ c # "STX" /\ c # "."
  BY DEF Hex, Digit
<1> QED
  BY <1>1 DEF GroupDigit

\* A group is complete and another one follows.
LEMMA NextGroupOK ==
    ASSUME UriInv, phase = "read", cs.at \in {"head", "tail", "lead"}, NEW c, c = ":", cs.d > 0, cs.k > 1
    PROVE  StepOK(NextGroup(cs), c)
<1> DEFINE s == [cs EXCEPT !.k = @ - 1, !.d = 0, !.o = "no"]
           l == ref.lit
           r == RefStep(ref, p, c)
           quad == MayQuad(cs)
<1>0. cs.at \in Literals
  BY DEF Literals
<1>1. /\ Grouping(cs, l, quad) /\ ref.valid /\ cs.k \in Nat /\ cs.d \in Nat /\ l.n \in Nat
      /\ quad \in BOOLEAN
      /\ l.n + cs.k = (IF cs.at = "head" THEN 8 ELSE 7)
      /\ l.dbl = (CASE cs.at = "head" -> "none" [] cs.at = "tail" -> "mid" [] OTHER -> "lead")
  BY BetweenGroups
<1>2. InLit(cs, ref)
  BY <1>0, BeforeLiteral
<1>3. l.n + 1 <= (IF l.dbl = "none" THEN 7 ELSE 6)
  BY <1>1
<1>4. /\ Placed(s) /\ s.at = cs.at /\ s.abs = cs.abs /\ s.pct = 0 /\ s.k = cs.k - 1 /\ s.d = 0
      /\ r.valid = ref.valid /\ (\A q : Grouping(s, r.lit, q))
      /\ r.lit.prev = ":" /\ r.lit.n = l.n + 1 /\ r.lit.dbl = l.dbl /\ ~ r.lit.future
  <2>1. quad \in BOOLEAN /\ Grouping(cs, l, quad)
    BY <1>1
  <2> HIDE DEF quad
  <2> QED
    BY <1>3, <2>1, GroupFollows
<1>5. NextGroup(cs) = To(s, <<>>)
  BY DEF NextGroup
<1> HIDE DEF s, r, quad
<1>6. InLit(s, r)
  BY <1>1, <1>2, <1>4 DEF InLit
<1> QED
  BY <1>0, <1>4, <1>5, <1>6, LiteralOn DEF r

\* An address that is complete is one for the reference too.
LEMMA AddressEnds ==
    ASSUME UriInv, phase = "read", cs.at \in Literals, NEW c, c = "]", ref.valid, Complete(ref.lit)
    PROVE  StepOK(To(At("end", cs.abs), <<>>), c)
<1>1. DOMAIN ref = RefFields /\ ref.part = "lit" /\ ref.pct = 0
  BY BeforeLiteral
<1>2. RefStep(ref, p, c).valid
  BY <1>1, RefClosing
<1> QED
  BY <1>2, LiteralEnds DEF Tolerated

\* And one that is not is refused by both.
LEMMA Incomplete ==
    ASSUME UriInv, phase = "read", cs.at \in Literals \ {"future"}, NEW c, c = "]", ~ Complete(ref.lit)
    PROVE  Excused(RefStep(ref, p, c))
<1>1. DOMAIN ref = RefFields /\ ref.part = "lit" /\ ref.pct = 0 /\ ~ ref.lit.future
  BY BeforeLiteral
<1>2. ~ RefStep(ref, p, c).valid
  BY <1>1, RefClosing
<1> QED
  BY <1>2 DEF Excused

LEMMA V6TailOK ==
    ASSUME UriInv, phase = "read", cs.at = "tail", NEW c \in Chars
    PROVE  StepOK(V6Tail(cs, c), c)
<1> DEFINE l == ref.lit
<1>0. cs.at \in Literals /\ cs.at \in Literals \ {"future"}
  BY DEF Literals
<1>1. p \in Nat /\ Spans(m, p) /\ ~ m.thrown /\ InLit(cs, ref)
  BY <1>0, BeforeLiteral
<1>2. Excused(RefStep(ref, p, c)) => StepOK(Refuse, c)
  BY <1>1, RefuseOK
<1>3. /\ ref.valid /\ cs.d \in Nat /\ l.dots = 0 /\ l.n \in Nat /\ l.d = cs.d /\ l.dbl = "mid"
      /\ cs.k \in Nat /\ l.n + cs.k = 7
      /\ (cs.d > 0 => l.prev = "h" /\ cs.k > 0) /\ (cs.d = 0 => l.prev = "::" \/ (l.prev = ":" /\ cs.k > 0))
  BY <1>1, BetweenGroups DEF InLit, Grouping
<1>4. CASE c = ":" /\ cs.d > 0 /\ cs.k > 1
  <2>1. V6Tail(cs, c) = NextGroup(cs)
    BY <1>4 DEF V6Tail
  <2> QED
    BY <1>4, <2>1, NextGroupOK
<1>5. CASE c = "]" /\ cs.k = (IF cs.d > 0 THEN 1 ELSE 0)
  <2>1. V6Tail(cs, c) = To(At("end", cs.abs), <<>>)
    BY <1>5 DEF V6Tail
  <2>2. Complete(l)
    BY <1>3, <1>5 DEF Complete
  <2> QED
    BY <1>0, <1>3, <1>5, <2>1, <2>2, AddressEnds
<1>6. CASE c \in {":", "]"} /\ ~ (c = ":" /\ cs.d > 0 /\ cs.k > 1) /\ ~ (c = "]" /\ cs.k = (IF cs.d > 0 THEN 1 ELSE 0))
  <2>1. V6Tail(cs, c) = GroupDigit(cs, c, cs.k = 2)
    BY <1>6 DEF V6Tail
  <2>2. V6Tail(cs, c) = Refuse
    BY <1>6, <2>1, NoGroup
  <2>3. DOMAIN ref = RefFields /\ DOMAIN l = LitFields /\ ref.part = "lit" /\ ref.pct = 0
    BY <1>0, BeforeLiteral
  <2>4. CASE c = ":"
    <3>1. ~ MayFollow(l, c)
      <4>1. CASE cs.d > 0
        <5> DEFINE next == LiteralStep(l, c)
        <5>1. cs.k = 1 /\ l.n = 6 /\ l.prev = "h" /\ l.d > 0
          BY <1>3, <1>6, <2>4, <4>1
        <5>2. next.n = 7 /\ next.prev = ":"
          BY <1>3, <2>3, <2>4, <5>1, LiteralStepIs
        <5> HIDE DEF next
        <5> QED
          BY <1>3, <2>4, <5>2 DEF MayFollow, next
      <4>2. CASE ~ (cs.d > 0)
        <5>1. l.prev \in {":", "::"}
          BY <1>3, <4>2
        <5> QED
          BY <1>3, <2>4, <5>1 DEF MayFollow
      <4> QED
        BY <4>1, <4>2
    <3> QED
      BY <1>0, <1>2, <2>2, <2>4, <3>1, NotFollowing
  <2>5. CASE c = "]"
    <3>1. Groups(l) = l.n + (IF cs.d > 0 THEN 1 ELSE 0)
      BY <1>3 DEF Groups
    <3>2. Groups(l) < 7
      BY <1>3, <1>6, <2>5, <3>1
    <3>3. Wide(l)
      BY <1>3, <3>2 DEF Wide
    <3>4. RefStep(ref, p, c).mid
      BY <2>3, <2>5, <3>3, RefClosing
    <3> QED
      BY <1>2, <2>2, <3>4 DEF Excused
  <2> QED
    BY <1>6, <2>4, <2>5
<1>7. CASE c \notin {":", "]"}
  <2>1. V6Tail(cs, c) = GroupDigit(cs, c, cs.k = 2)
    BY <1>7 DEF V6Tail
  <2>2. (cs.k = 2) = MayQuad(cs)
    BY DEF MayQuad
  <2>3. StepOK(GroupDigit(cs, c, MayQuad(cs)), c)
    BY <1>7, GroupOK
  <2> QED
    BY <2>1, <2>2, <2>3
<1> QED
  BY <1>4, <1>5, <1>6, <1>7

LEMMA V6LeadOK ==
    ASSUME UriInv, phase = "read", cs.at \in {"colon1", "lead"}, NEW c \in Chars
    PROVE  StepOK(V6Lead(cs, c), c)
<1> DEFINE l == ref.lit
           r == RefStep(ref, p, c)
           next == LiteralStep(l, c)
<1>0. cs.at \in Literals /\ cs.at \in Literals \ {"future"}
  BY DEF Literals
<1>1. /\ p \in Nat /\ Spans(m, p) /\ ~ m.thrown /\ InLit(cs, ref) /\ DOMAIN ref = RefFields /\ DOMAIN l = LitFields
      /\ ref.part = "lit" /\ ref.pct = 0 /\ cs.abs \in BOOLEAN /\ ~ l.future
  BY <1>0, BeforeLiteral
<1>2. Excused(r) => StepOK(Refuse, c)
  BY <1>1, RefuseOK
<1>3. c # "]" /\ ~ MayFollow(l, c) => StepOK(Refuse, c)
  BY <1>0, <1>2, NotFollowing
<1>4. c = "]" /\ ~ Complete(l) => StepOK(Refuse, c)
  BY <1>0, <1>2, Incomplete
<1> HIDE DEF r
<1>5. CASE cs.at = "colon1"
  <2>1. ref.valid /\ l.n = 0 /\ l.d = 0 /\ l.val = 0 /\ l.dots = 0 /\ l.dbl = "none" /\ l.prev = ":"
    BY <1>1, <1>5 DEF InLit
  <2>2. CASE c = ":"
    <3> DEFINE s == [At("lead", cs.abs) EXCEPT !.k = 7]
    <3>1. V6Lead(cs, c) = To(s, <<>>)
      BY <1>5, <2>2 DEF V6Lead
    <3>2. /\ next.prev = "::" /\ next.dbl = "lead" /\ next.n = 0 /\ next.d = 0 /\ next.val = 0 /\ next.dots = 0
          /\ next.future = l.future
      BY <1>1, <2>1, <2>2, LiteralStepIs
    <3> HIDE DEF next
    <3>3. MayFollow(l, c)
      <4>1. Groups(next) = 0
        BY <3>2 DEF Groups
      <4> QED
        BY <2>1, <2>2, <3>2, <4>1 DEF MayFollow, Hex, Digit, next
    <3>4. r.lit = next /\ r.valid = ref.valid
      BY <1>1, <2>2, <3>3, RefLiteralIs DEF next, r
    <3>5. Placed(s) /\ s.at = "lead" /\ s.abs = cs.abs /\ s.pct = 0 /\ s.k = 7 /\ s.d = 0 /\ s.o = "no"
      BY <1>1 DEF At, Placed, PlaceFields
    <3> HIDE DEF s
    <3>6. InLit(s, r)
      BY <2>1, <3>2, <3>4, <3>5 DEF InLit, Grouping
    <3>7. StepOK(To(s, <<>>), c)
      BY <1>0, <1>1, <2>2, <3>2, <3>4, <3>5, <3>6, LiteralOn DEF Literals, r
    <3> QED
      BY <3>1, <3>7
  <2>3. CASE c # ":"
    <3>1. V6Lead(cs, c) = Refuse
      BY <1>5, <2>3 DEF V6Lead
    <3>2. c # "]" => ~ MayFollow(l, c)
      BY <2>1, <2>3 DEF MayFollow
    <3>3. ~ Complete(l)
      BY <2>1 DEF Complete
    <3> QED
      BY <1>3, <1>4, <3>1, <3>2, <3>3
  <2> QED
    BY <2>2, <2>3
<1>6. CASE cs.at = "lead"
  <2>0. cs.at \in {"head", "tail", "lead"} /\ cs.at # "colon1"
    BY <1>6
  <2>1. /\ ref.valid /\ cs.d \in Nat /\ l.dots = 0 /\ l.n \in Nat /\ l.d = cs.d /\ l.dbl = "lead" /\ cs.k \in 1 .. 7
        /\ (cs.d > 0 => l.prev = "h") /\ (cs.d = 0 => l.prev = (IF cs.k = 7 THEN "::" ELSE ":"))
        /\ l.n + cs.k = 7
    BY <1>1, <1>6, <2>0, BetweenGroups DEF InLit, Grouping
  <2>2. CASE c = ":" /\ cs.d > 0 /\ cs.k > 1
    <3>1. V6Lead(cs, c) = NextGroup(cs)
      BY <2>0, <2>2 DEF V6Lead
    <3> QED
      BY <2>0, <2>2, <3>1, NextGroupOK
  <2>3. CASE c = "]" /\ (cs.d > 0 \/ cs.k = 7)
    <3>1. V6Lead(cs, c) = To(At("end", cs.abs), <<>>)
      BY <2>0, <2>3 DEF V6Lead
    <3>2. Complete(l)
      BY <2>1, <2>3 DEF Complete
    <3> QED
      BY <1>0, <2>1, <2>3, <3>1, <3>2, AddressEnds
  <2>4. CASE c \in {":", "]"} /\ ~ (c = ":" /\ cs.d > 0 /\ cs.k > 1) /\ ~ (c = "]" /\ (cs.d > 0 \/ cs.k = 7))
    <3>1. V6Lead(cs, c) = GroupDigit(cs, c, cs.k > 1)
      BY <2>0, <2>4 DEF V6Lead
    <3>2. V6Lead(cs, c) = Refuse
      BY <2>4, <3>1, NoGroup
    <3>3. CASE c = ":"
      <4>1. ~ MayFollow(l, c)
        <5>1. CASE cs.d > 0
          <6>1. cs.k = 1 /\ l.n = 6 /\ l.prev = "h" /\ l.d > 0
            BY <2>1, <2>4, <3>3, <5>1
          <6>2. next.n = 7 /\ next.prev = ":"
            BY <1>1, <2>1, <3>3, <6>1, LiteralStepIs
          <6> HIDE DEF next
          <6> QED
            BY <2>1, <3>3, <6>2 DEF MayFollow, next
        <5>2. CASE ~ (cs.d > 0)
          <6>1. l.prev \in {":", "::"}
            BY <2>1, <5>2
          <6> QED
            BY <2>1, <3>3, <6>1 DEF MayFollow
        <5> QED
          BY <5>1, <5>2
      <4> QED
        BY <1>3, <3>2, <3>3, <4>1
    <3>4. CASE c = "]"
      <4>1. l.prev = ":"
        BY <2>1, <2>4, <3>4
      <4>2. ~ Complete(l)
        BY <4>1 DEF Complete
      <4> QED
        BY <1>4, <3>2, <3>4, <4>2
    <3> QED
      BY <2>4, <3>3, <3>4
  <2>5. CASE c \notin {":", "]"}
    <3>1. V6Lead(cs, c) = GroupDigit(cs, c, cs.k > 1)
      BY <2>0, <2>5 DEF V6Lead
    <3>2. (cs.k > 1) = MayQuad(cs)
      BY <1>6, <2>1 DEF MayQuad
    <3>3. StepOK(GroupDigit(cs, c, MayQuad(cs)), c)
      BY <2>0, <2>5, <1>6, GroupOK
    <3> QED
      BY <3>1, <3>2, <3>3
  <2> QED
    BY <2>2, <2>3, <2>4, <2>5
<1> QED
  BY <1>5, <1>6

LEMMA V6HeadOK ==
    ASSUME UriInv, phase = "read", cs.at = "head", NEW c \in Chars
    PROVE  StepOK(V6Head(cs, c), c)
<1> DEFINE l == ref.lit
           r == RefStep(ref, p, c)
           next == LiteralStep(l, c)
<1>0. cs.at \in Literals /\ cs.at \in Literals \ {"future"} /\ cs.at \in {"head", "tail", "lead"}
  BY DEF Literals
<1>1. /\ p \in Nat /\ Spans(m, p) /\ ~ m.thrown /\ InLit(cs, ref) /\ DOMAIN ref = RefFields /\ DOMAIN l = LitFields
      /\ ref.part = "lit" /\ ref.pct = 0 /\ cs.abs \in BOOLEAN /\ ~ l.future
      /\ DOMAIN cs = PlaceFields /\ Placed(cs) /\ cs.pct = 0
  BY <1>0, BeforeLiteral
<1>2. Excused(r) => StepOK(Refuse, c)
  BY <1>1, RefuseOK
<1>3. c # "]" /\ ~ MayFollow(l, c) => StepOK(Refuse, c)
  BY <1>0, <1>2, NotFollowing
<1>4. c = "]" /\ ~ Complete(l) => StepOK(Refuse, c)
  BY <1>0, <1>2, Incomplete
<1>5. /\ ref.valid /\ cs.d \in Nat /\ l.dots = 0 /\ l.n \in Nat /\ l.d = cs.d /\ l.dbl = "none" /\ cs.k \in 1 .. 8
      /\ (cs.d > 0 => l.prev = "h") /\ (cs.d = 0 => l.val = 0 /\ cs.o = "no")
      /\ (cs.d = 0 /\ cs.k = 8 => l = NoLiteral) /\ (cs.d = 0 /\ cs.k < 8 => l.prev = ":")
      /\ l.n + cs.k = 8
  BY <1>0, <1>1, BetweenGroups DEF InLit, Grouping
<1> HIDE DEF r
<1>6. CASE c = "v" /\ cs.k = 8 /\ cs.d = 0
  <2> DEFINE s == At("future", cs.abs)
  <2>1. V6Head(cs, c) = To(s, <<>>)
    BY <1>6 DEF V6Head
  <2>2. r.lit.future /\ r.future
    BY <1>1, <1>5, <1>6, RefLiteralIs DEF r
  <2>3. Placed(s) /\ s.at = "future" /\ s.abs = cs.abs /\ s.pct = 0
    BY <1>1, AtIs
  <2> HIDE DEF s
  <2>4. InLit(s, r)
    BY <2>2, <2>3 DEF InLit
  <2>5. StepOK(To(s, <<>>), c)
    BY <1>0, <1>6, <2>3, <2>4, LiteralOn DEF Literals, r
  <2> QED
    BY <2>1, <2>5
<1>7. CASE c = ":" /\ cs.k = 8 /\ cs.d = 0
  <2> DEFINE s == At("colon1", cs.abs)
  <2>1. V6Head(cs, c) = To(s, <<>>)
    BY <1>7 DEF V6Head
  <2>2. l.prev = "[" /\ l.n = 0 /\ l.d = 0 /\ l.val = 0
    BY <1>5, <1>7 DEF NoLiteral
  <2>3. /\ next.prev = ":" /\ next.dbl = "none" /\ next.n = 0 /\ next.d = 0 /\ next.val = 0 /\ next.dots = 0
        /\ next.future = l.future
    BY <1>1, <1>5, <1>7, <2>2, LiteralStepIs
  <2> HIDE DEF next
  <2>4. MayFollow(l, c)
    <3>1. Groups(next) = 0
      BY <2>3 DEF Groups
    <3> QED
      BY <1>5, <1>7, <2>2, <2>3, <3>1 DEF MayFollow, Hex, Digit, next
  <2>5. r.lit = next /\ r.valid = ref.valid
    BY <1>1, <1>7, <2>4, RefLiteralIs DEF next, r
  <2>6. Placed(s) /\ s.at = "colon1" /\ s.abs = cs.abs /\ s.pct = 0
    BY <1>1, AtIs
  <2> HIDE DEF s
  <2>7. InLit(s, r)
    BY <1>5, <2>3, <2>5, <2>6 DEF InLit
  <2>8. StepOK(To(s, <<>>), c)
    BY <1>0, <1>1, <1>7, <2>3, <2>5, <2>6, <2>7, LiteralOn DEF Literals, r
  <2> QED
    BY <2>1, <2>8
<1>8. CASE c = ":" /\ cs.k # 8 /\ cs.d = 0
  <2> DEFINE s == [[cs EXCEPT !.at = "tail"] EXCEPT !.k = @ - 1, !.d = 0, !.o = "no"]
  <2>1. V6Head(cs, c) = To(s, <<>>)
    BY <1>8 DEF V6Head, NextGroup
  <2>2. l.prev = ":" /\ l.n > 0 /\ l.n <= 7 /\ l.d = 0 /\ l.val = 0 /\ cs.k \in 1 .. 7
    BY <1>5, <1>8
  <2>3. /\ next.prev = "::" /\ next.dbl = "mid" /\ next.n = l.n /\ next.d = 0 /\ next.val = 0 /\ next.dots = 0
        /\ next.future = l.future
    BY <1>1, <1>5, <1>8, <2>2, LiteralStepIs
  <2> HIDE DEF next
  <2>4. MayFollow(l, c)
    <3>1. Groups(next) = l.n
      BY <1>5, <2>3 DEF Groups
    <3> QED
      BY <1>5, <1>8, <2>2, <2>3, <3>1 DEF MayFollow, Hex, Digit, next
  <2>5. r.lit = next /\ r.valid = ref.valid
    BY <1>1, <1>8, <2>3, <2>4, RefLiteralIs DEF next, r
  <2>6. /\ Placed(s) /\ s.at = "tail" /\ s.abs = cs.abs /\ s.pct = 0 /\ s.k = cs.k - 1 /\ s.d = 0 /\ s.o = "no"
    BY <1>1, <2>2 DEF Placed, PlaceFields
  <2> HIDE DEF s
  <2>7. InLit(s, r)
    BY <1>5, <2>2, <2>3, <2>5, <2>6 DEF InLit, Grouping
  <2>8. StepOK(To(s, <<>>), c)
    BY <1>0, <1>1, <1>8, <2>3, <2>5, <2>6, <2>7, LiteralOn DEF Literals, r
  <2> QED
    BY <2>1, <2>8
<1>9. CASE c = ":" /\ cs.d > 0 /\ cs.k > 1
  <2>1. V6Head(cs, c) = NextGroup(cs)
    BY <1>9 DEF V6Head
  <2> QED
    BY <1>0, <1>9, <2>1, NextGroupOK
<1>10. CASE c = "]" /\ cs.d > 0 /\ cs.k = 1
  <2>1. V6Head(cs, c) = To(At("end", cs.abs), <<>>)
    BY <1>10 DEF V6Head
  <2>2. Groups(l) = 8
    BY <1>5, <1>10 DEF Groups
  <2>3. Complete(l)
    BY <1>5, <1>10, <2>2 DEF Complete
  <2> QED
    BY <1>0, <1>5, <1>10, <2>1, <2>3, AddressEnds
<1>11. CASE c = ":" /\ cs.d > 0 /\ ~ (cs.k > 1)
  <2>1. V6Head(cs, c) = GroupDigit(cs, c, cs.k = 2)
    BY <1>11 DEF V6Head
  <2>2. V6Head(cs, c) = Refuse
    BY <1>11, <2>1, NoGroup
  <2>3. l.n = 7 /\ l.prev = "h" /\ l.d > 0
    BY <1>5, <1>11
  <2>4. next.n = 8 /\ next.prev = ":"
    BY <1>1, <1>11, <2>3, LiteralStepIs
  <2> HIDE DEF next
  <2>5. ~ MayFollow(l, c)
    BY <1>5, <1>11, <2>4 DEF MayFollow, next
  <2> QED
    BY <1>3, <1>11, <2>2, <2>5
<1>12. CASE c = "]" /\ ~ (cs.d > 0 /\ cs.k = 1)
  <2>1. V6Head(cs, c) = GroupDigit(cs, c, cs.k = 2)
    BY <1>12 DEF V6Head
  <2>2. V6Head(cs, c) = Refuse
    BY <1>12, <2>1, NoGroup
  <2>3. ~ Complete(l)
    <3>1. CASE cs.d > 0
      <4>1. Groups(l) = l.n + 1 /\ l.n # 7
        BY <1>5, <1>12, <3>1 DEF Groups
      <4>2. Groups(l) # 8
        BY <1>5, <4>1
      <4> QED
        BY <1>5, <4>2 DEF Complete
    <3>2. CASE ~ (cs.d > 0)
      <4>1. l.prev \in {"[", ":"}
        BY <1>5, <3>2 DEF NoLiteral
      <4> QED
        BY <4>1 DEF Complete
    <3> QED
      BY <3>1, <3>2
  <2> QED
    BY <1>4, <1>12, <2>2, <2>3
<1>13. CASE c \notin {":", "]"} /\ ~ (c = "v" /\ cs.k = 8 /\ cs.d = 0)
  <2>1. V6Head(cs, c) = GroupDigit(cs, c, cs.k = 2)
    BY <1>13 DEF V6Head
  <2>2. (cs.k = 2) = MayQuad(cs)
    BY DEF MayQuad
  <2>3. StepOK(GroupDigit(cs, c, MayQuad(cs)), c)
    BY <1>0, <1>13, GroupOK
  <2> QED
    BY <2>1, <2>2, <2>3
<1> QED
  BY <1>5, <1>6, <1>7, <1>8, <1>9, <1>10, <1>11, <1>12, <1>13

LEMMA FutureOK ==
    ASSUME UriInv, phase = "read", cs.at = "future", NEW c \in Chars
    PROVE  StepOK(Future(cs, c), c)
<1> DEFINE r == RefStep(ref, p, c)
<1>0. cs.at \in Literals
  BY DEF Literals
<1>1. /\ p \in Nat /\ Spans(m, p) /\ ~ m.thrown /\ InLit(cs, ref) /\ DOMAIN ref = RefFields /\ DOMAIN ref.lit = LitFields
      /\ ref.part = "lit" /\ ref.pct = 0 /\ DOMAIN cs = PlaceFields /\ Placed(cs) /\ cs.pct = 0
  BY <1>0, BeforeLiteral
<1>2. ref.future /\ ref.lit.future
  BY <1>1 DEF InLit
<1>3. r.future
  <2>1. LitKept(r, ref)
    <3>1. CASE c = "]"
      BY <1>1, <3>1, RefClosing
    <3>2. CASE c # "]"
      BY <1>1, <3>2, RefLiteralIs
    <3> QED
      BY <3>1, <3>2
  <2> HIDE DEF r
  <2> QED
    BY <1>2, <2>1 DEF LitKept
<1>4. Excused(r) /\ Tolerated(r)
  <2> HIDE DEF r
  <2> QED
    BY <1>3 DEF Excused, Tolerated
<1>5. StepOK(Refuse, c)
  BY <1>1, <1>4, RefuseOK
<1>6. ASSUME NEW n \in 1 .. 3, c # "]"
      PROVE  StepOK(To([cs EXCEPT !.d = n], <<>>), c)
  <2> DEFINE s == [cs EXCEPT !.d = n]
  <2>1. Placed(s) /\ s.at = "future" /\ s.abs = cs.abs /\ s.pct = 0
    BY <1>1 DEF Placed, PlaceFields
  <2>2. r = ref
    BY <1>1, <1>2, <1>6, RefLiteralIs
  <2> HIDE DEF s, r
  <2>3. InLit(s, r)
    BY <1>2, <2>1, <2>2 DEF InLit
  <2>4. StepOK(To(s, <<>>), c)
    BY <1>0, <1>6, <2>1, <2>3, LiteralOn DEF r
  <2> QED
    BY <2>4 DEF s
<1>7. c = "]" => StepOK(To(At("end", cs.abs), <<>>), c)
  BY <1>0, <1>4, LiteralEnds
<1>8. "]" \notin Hex /\ "." \notin Hex /\ "]" \notin Plain \cup {":"}
  BY DEF Plain, Alpha, Hex, Digit
<1>9. cs.d \in Nat
  BY <1>1 DEF Placed
<1>10. CASE cs.d < 2 /\ c \in Hex
  <2>1. Future(cs, c) = To([cs EXCEPT !.d = 1], <<>>)
    BY <1>8, <1>9, <1>10 DEF Future
  <2>2. StepOK(To([cs EXCEPT !.d = 1], <<>>), c)
    BY <1>6, <1>8, <1>10
  <2> QED
    BY <2>1, <2>2
<1>11. CASE cs.d = 1 /\ c = "."
  <2>1. Future(cs, c) = To([cs EXCEPT !.d = 2], <<>>)
    BY <1>8, <1>9, <1>11 DEF Future
  <2>2. StepOK(To([cs EXCEPT !.d = 2], <<>>), c)
    BY <1>6, <1>11
  <2> QED
    BY <2>1, <2>2
<1>12. CASE cs.d > 1 /\ c \in Plain \cup {":"}
  <2>1. Future(cs, c) = To([cs EXCEPT !.d = 3], <<>>)
    BY <1>8, <1>9, <1>12 DEF Future
  <2>2. StepOK(To([cs EXCEPT !.d = 3], <<>>), c)
    BY <1>6, <1>8, <1>12
  <2> QED
    BY <2>1, <2>2
<1>13. CASE cs.d = 3 /\ c = "]"
  <2>1. Future(cs, c) = To(At("end", cs.abs), <<>>)
    BY <1>8, <1>9, <1>13 DEF Future
  <2> QED
    BY <1>7, <1>13, <2>1
<1>14. CASE ~ (cs.d < 2 /\ c \in Hex) /\ ~ (cs.d = 1 /\ c = ".") /\ ~ (cs.d > 1 /\ c \in Plain \cup {":"})
             /\ ~ (cs.d = 3 /\ c = "]")
  <2>1. Future(cs, c) = Refuse
    BY <1>14 DEF Future
  <2> QED
    BY <1>5, <2>1
<1> QED
  BY <1>10, <1>11, <1>12, <1>13, <1>14

\* One more digit of an octet.
LEMMA OctetOK ==
    ASSUME UriInv, phase = "read", cs.at = "quad", ref.valid, NEW c \in Hex,
           NEW r, r = RefStep(ref, p, c), NEW o, o = Octet(cs.o, c)
    PROVE  /\ o # "start"
           /\ o # "no" => /\ r.valid /\ ~ r.lit.future /\ r.lit.dots = ref.lit.dots /\ r.lit.n = ref.lit.n
                          /\ r.lit.dbl = ref.lit.dbl /\ r.lit.prev = "h" /\ OctetOf(o, r.lit)
           /\ o = "no" => Excused(r)
<1> DEFINE l == ref.lit
           next == LiteralStep(l, c)
<1>0. cs.at \in Literals \ {"future"}
  BY DEF Literals
<1>1. /\ InLit(cs, ref) /\ DOMAIN ref = RefFields /\ DOMAIN l = LitFields
      /\ ref.part = "lit" /\ ref.pct = 0 /\ ~ l.future
  BY <1>0, BeforeLiteral
<1>2. /\ cs.k \in 1 .. 4 /\ cs.k > 1 /\ l.dots = cs.k - 1 /\ l.n \in Nat
      /\ l.n <= (IF l.dbl = "none" THEN 6 ELSE 5)
      /\ (cs.o = "start" => l.d = 0 /\ l.val = 0 /\ l.prev = ".")
      /\ (cs.o # "start" => cs.o # "no" /\ OctetOf(cs.o, l) /\ l.prev = "h")
  BY <1>1 DEF InLit
<1>3. c \notin {":", ".", "]", "v", "STX"}
  BY DEF Hex, Digit
<1>4. OctetOf(o, next) /\ o # "start"
  <2>1. CASE cs.o = "start"
    <3>1. o = OctetStart(c)
      BY <2>1 DEF Octet
    <3>2. OctetOf(o, next)
      BY <1>1, <1>2, <2>1, <3>1, OctetBegins
    <3>3. o # "start"
      BY <3>1 DEF OctetStart
    <3> QED
      BY <3>2, <3>3
  <2>2. CASE cs.o # "start"
    BY <1>1, <1>2, <2>2, OctetGoesOn
  <2> QED
    BY <2>1, <2>2
<1>5. /\ next.prev = "h" /\ next.dbl = l.dbl /\ next.n = l.n /\ next.d = l.d + 1 /\ next.dots = l.dots
      /\ next.future = l.future
  BY <1>1, <1>3, LiteralStepIs
<1>6. /\ (o # "no" => next.val \in 0 .. 255)
      /\ (o = "no" => next.val = -1 \/ next.val \in 200 .. 249)
  <2> HIDE DEF next
  <2> QED
    BY <1>4, EndedOctet
<1>7. l.d \in 0 .. 3
  <2>1. CASE cs.o = "start"
    BY <1>2, <2>1
  <2>2. CASE cs.o # "start"
    BY <1>2, <2>2, EndedOctet
  <2> QED
    BY <2>1, <2>2
<1> HIDE DEF next
<1>8. Groups(next) = l.n + 2
  BY <1>2, <1>5 DEF Groups
<1>9. MayFollow(l, c) <=> next.val # -1
  BY <1>2, <1>3, <1>5, <1>7, <1>8 DEF MayFollow, next
<1>10. CASE o # "no"
  <2>1. next.val # -1
    BY <1>6, <1>10
  <2>2. r.lit = next /\ r.valid
    <3>1. MayFollow(l, c) /\ c # "]" /\ c # "v"
      BY <1>3, <1>9, <2>1
    <3> QED
      BY <1>1, <3>1, RefLiteralIs DEF next
  <2> QED
    BY <1>1, <1>4, <1>5, <1>10, <2>2
<1>11. CASE o = "no"
  <2>1. CASE next.val = -1
    BY <1>0, <1>3, <1>4, <1>9, <1>11, <2>1, NotFollowing
  <2>2. CASE next.val \in 200 .. 249
    <3>1. MayFollow(l, c)
      BY <1>9, <2>2
    <3>2. next.dots > 0
      BY <1>2, <1>5
    <3>3. r.octet2
      BY <1>1, <1>3, <2>2, <3>1, <3>2, RefLiteralIs DEF next
    <3> QED
      BY <1>4, <1>11, <3>3 DEF Excused
  <2> QED
    BY <1>6, <1>11, <2>1, <2>2
<1> QED
  BY <1>10, <1>11

LEMMA QuadOK ==
    ASSUME UriInv, phase = "read", cs.at = "quad", NEW c \in Chars
    PROVE  StepOK(Quad(cs, c), c)
<1> DEFINE l == ref.lit
           r == RefStep(ref, p, c)
           o == Octet(cs.o, c)
<1>0. cs.at \in Literals /\ cs.at \in Literals \ {"future"}
  BY DEF Literals
<1>1. /\ p \in Nat /\ Spans(m, p) /\ ~ m.thrown /\ InLit(cs, ref) /\ DOMAIN ref = RefFields /\ DOMAIN l = LitFields
      /\ ref.part = "lit" /\ ref.pct = 0 /\ ~ l.future /\ DOMAIN cs = PlaceFields /\ Placed(cs) /\ cs.pct = 0
  BY <1>0, BeforeLiteral
<1>2. (ref.valid \/ ref.stx) /\ cs.k \in 1 .. 4
  BY <1>1 DEF InLit
<1>3. ref.valid =>
        /\ cs.k > 1 /\ l.dots = cs.k - 1 /\ l.n \in Nat
        /\ l.n <= (IF l.dbl = "none" THEN 6 ELSE 5) /\ (l.dbl = "none" => l.n = 6)
        /\ (cs.o = "start" => l.d = 0 /\ l.val = 0 /\ l.prev = ".")
        /\ (cs.o # "start" => cs.o # "no" /\ OctetOf(cs.o, l) /\ l.prev = "h")
  BY <1>1 DEF InLit
<1>4. ref.valid /\ cs.o # "start" => Ended(cs.o) /\ l.d \in 1 .. 3 /\ l.val \in 0 .. 255
  BY <1>3, EndedOctet
<1>5. ~ ref.valid => ~ r.valid
  BY <1>1, RefInvalid
<1>6. LitKept(r, ref)
  <2>1. CASE c = "]"
    BY <1>1, <2>1, RefClosing
  <2>2. CASE c # "]"
    BY <1>1, <2>2, RefLiteralIs
  <2> QED
    BY <2>1, <2>2
<1>7. ref.stx => r.stx
  <2> HIDE DEF r
  <2> QED
    BY <1>6 DEF LitKept
<1>8. c \notin {"]", "v"} => ~ r.lit.future
  <2>1. CASE c \notin {"]", "v"} /\ MayFollow(l, c)
    <3>1. r.lit = LiteralStep(l, c)
      BY <1>1, <2>1, RefLiteralIs
    <3>2. LiteralStep(l, c).future = l.future
      BY <1>1, LiteralStepIs
    <3> HIDE DEF r
    <3> QED
      BY <1>1, <3>1, <3>2
  <2>2. CASE c \notin {"]", "v"} /\ ~ MayFollow(l, c)
    <3>1. r.lit = NoLiteral
      BY <1>1, <2>2, RefLiteralIs
    <3> HIDE DEF r
    <3> QED
      BY <3>1 DEF NoLiteral
  <2> QED
    BY <2>1, <2>2
<1>9. Excused(r) => StepOK(Refuse, c)
  BY <1>1, RefuseOK
<1> HIDE DEF r, o
\* What the reference refuses already.
<1>10. ~ ref.valid => Excused(r) /\ Tolerated(r)
  BY <1>2, <1>5, <1>7 DEF Excused, Tolerated
<1>11. ASSUME ~ r.valid, r.stx, c \notin {"]", "v"}, NEW s, Placed(s), s.at = "quad", s.abs = cs.abs, s.pct = 0, s.k \in 1 .. 4
       PROVE  StepOK(To(s, <<>>), c)
  <2>1. InLit(s, r)
    BY <1>11 DEF InLit
  <2> QED
    BY <1>0, <1>8, <1>11, <2>1, LiteralOn DEF r, Literals
<1>12. CASE c = "." /\ Ended(cs.o) /\ cs.k < 4
  <2> DEFINE s == [cs EXCEPT !.k = @ + 1, !.o = "start"]
             next == LiteralStep(l, c)
  <2>0. Octet(cs.o, c) = "no"
    BY <1>12, OctetChars DEF Digit
  <2>1. Quad(cs, c) = To(s, <<>>)
    BY <1>12, <2>0 DEF Quad
  <2>2. Placed(s) /\ s.at = "quad" /\ s.abs = cs.abs /\ s.pct = 0 /\ s.k = cs.k + 1 /\ s.o = "start" /\ s.k \in 2 .. 4
    BY <1>1, <1>2, <1>12 DEF Placed, PlaceFields
  <2> HIDE DEF s
  <2>3. CASE ~ ref.valid
    BY <1>2, <1>5, <1>7, <1>11, <1>12, <2>1, <2>2, <2>3
  <2>4. CASE ref.valid
    <3>1. cs.o # "start"
      BY <1>12 DEF Ended
    <3>2. /\ next.prev = "." /\ next.dbl = l.dbl /\ next.n = l.n
          /\ next.d = 0 /\ next.val = 0 /\ next.dots = l.dots + 1 /\ next.future = l.future
      BY <1>1, <1>12, LiteralStepIs
    <3> HIDE DEF next
    <3>3. MayFollow(l, c)
      <4>1. Groups(next) = l.n + 2
        BY <1>2, <1>3, <2>4, <3>2 DEF Groups
      <4>2. l.d > 0 /\ l.val # -1 /\ l.dots < 3
        BY <1>2, <1>3, <1>4, <1>12, <2>4, <3>1
      <4>3. Groups(next) <= (IF next.dbl = "none" THEN 8 ELSE 7)
        BY <1>3, <2>4, <3>2, <4>1
      <4> QED
        BY <1>3, <1>12, <2>4, <4>2, <4>3 DEF MayFollow, Hex, Digit, next
    <3>4. r.lit = next /\ r.valid
      BY <1>1, <1>12, <2>4, <3>3, RefLiteralIs DEF next, r
    <3>5. InLit(s, r)
      BY <1>2, <1>3, <2>2, <2>4, <3>2, <3>4 DEF InLit
    <3>6. StepOK(To(s, <<>>), c)
      BY <1>0, <1>8, <1>12, <2>2, <3>5, LiteralOn DEF r, Literals
    <3> QED
      BY <2>1, <3>6
  <2> QED
    BY <2>3, <2>4
<1>13. CASE c = "]" /\ Ended(cs.o) /\ cs.k = 4
  <2>0. Octet(cs.o, c) = "no"
    BY <1>13, OctetChars DEF Digit
  <2>1. Quad(cs, c) = To(At("end", cs.abs), <<>>)
    BY <1>13, <2>0 DEF Quad
  <2>2. CASE ~ ref.valid
    BY <1>0, <1>10, <1>13, <2>1, <2>2, LiteralEnds DEF r
  <2>3. CASE ref.valid
    <3>1. cs.o # "start"
      BY <1>13 DEF Ended
    <3>2. l.prev = "h" /\ l.dots = 3 /\ (l.dbl = "none" => l.n = 6)
      BY <1>3, <1>13, <2>3, <3>1
    <3>3. Complete(l)
      BY <3>2 DEF Complete, Groups
    <3> QED
      BY <1>0, <1>13, <2>1, <2>3, <3>3, AddressEnds
  <2> QED
    BY <2>2, <2>3
<1>14. CASE Octet(cs.o, c) # "no"
  <2> DEFINE s == [cs EXCEPT !.o = Octet(cs.o, c)]
  <2>0. c \in Digit \cup {"STX"}
    BY <1>14, OctetChars
  <2>1. Quad(cs, c) = To(s, <<>>)
    BY <1>14, <2>0 DEF Quad, Digit
  <2>2. Placed(s) /\ s.at = "quad" /\ s.abs = cs.abs /\ s.pct = 0 /\ s.k = cs.k /\ s.o = o
    BY <1>1 DEF Placed, PlaceFields, o
  <2> HIDE DEF s
  <2>3. c \notin {"]", "v"}
    BY <2>0 DEF Digit
  <2>4. CASE ~ ref.valid
    BY <1>2, <1>5, <1>7, <1>11, <2>1, <2>2, <2>3, <2>4
  <2>5. CASE ref.valid /\ c = "STX"
    <3>1. ~ MayFollow(l, c)
      BY <2>5 DEF MayFollow, Hex, Digit
    <3>2. ~ r.valid /\ r.stx
      BY <1>1, <2>5, <3>1, RefLiteralIs DEF r
    <3> QED
      BY <1>2, <1>11, <2>1, <2>2, <2>3, <3>2
  <2>6. CASE ref.valid /\ c # "STX"
    <3>1. c \in Hex /\ o # "no"
      BY <1>14, <2>0, <2>6 DEF Hex, o
    <3>2. /\ o # "start" /\ r.valid /\ r.lit.dots = l.dots /\ r.lit.n = l.n
          /\ r.lit.dbl = l.dbl /\ r.lit.prev = "h" /\ OctetOf(o, r.lit)
      BY <2>6, <3>1, OctetOK DEF r, o
    <3>3. InLit(s, r)
      BY <1>2, <1>3, <2>2, <2>6, <3>1, <3>2 DEF InLit
    <3>4. StepOK(To(s, <<>>), c)
      BY <1>0, <1>8, <2>2, <2>3, <3>3, LiteralOn DEF r, Literals
    <3> QED
      BY <2>1, <3>4
  <2> QED
    BY <2>4, <2>5, <2>6
<1>15. CASE ~ (c = "." /\ Ended(cs.o) /\ cs.k < 4) /\ ~ (c = "]" /\ Ended(cs.o) /\ cs.k = 4) /\ Octet(cs.o, c) = "no"
  <2>1. Quad(cs, c) = Refuse
    BY <1>15 DEF Quad
  <2>2. Excused(r)
    <3>1. CASE ~ ref.valid
      BY <1>10, <3>1
    <3>2. CASE ref.valid /\ c \in Hex
      BY <1>15, <3>2, OctetOK DEF r
    <3>3. CASE ref.valid /\ c = "."
      <4>1. l.d = 0 \/ l.dots = 3
        BY <1>2, <1>3, <1>4, <1>15, <3>3
      <4>2. ~ MayFollow(l, c)
        BY <3>3, <4>1 DEF MayFollow
      <4> QED
        BY <1>0, <3>3, <4>2, NotFollowing DEF r
    <3>4. CASE ref.valid /\ c = "]"
      <4>1. l.prev = "." \/ l.dots \in 1 .. 2
        BY <1>2, <1>3, <1>4, <1>15, <3>4
      <4>2. ~ Complete(l)
        BY <4>1 DEF Complete
      <4> QED
        BY <1>0, <3>4, <4>2, Incomplete DEF r
    <3>5. CASE ref.valid /\ c = ":"
      <4>1. ~ MayFollow(l, c)
        BY <1>2, <1>3, <3>5 DEF MayFollow
      <4> QED
        BY <1>0, <3>5, <4>1, NotFollowing DEF r
    <3>6. CASE c \notin Hex \cup {":", ".", "]"}
      BY <1>0, <3>6, NoLiteralChar DEF r
    <3> QED
      BY <3>1, <3>2, <3>3, <3>4, <3>5, <3>6
  <2> QED
    BY <1>9, <2>1, <2>2
<1> QED
  BY <1>12, <1>13, <1>14, <1>15

-----------------------------------------------------------------------------
(* The two hex digits after "%".                                           *)

\* A hex digit of "%" leaves everything else as it is.
LEMMA RefHex ==
    ASSUME NEW r, DOMAIN r = RefFields, r.pct > 0, NEW i, NEW c, NEW q, q = RefStep(r, i, c)
    PROVE  /\ SameHead(q, r) /\ q.part = r.part /\ q.maybe = r.maybe /\ q.q = r.q /\ q.f = r.f /\ q.stx = r.stx
           /\ q.pct = r.pct - 1 /\ (q.valid <=> r.valid /\ c \in Hex)
<1> DEFINE ok == c \in Hex
<1>1. q = [r EXCEPT !.pct = @ - 1, !.valid = @ /\ ok]
  BY DEF RefStep
<1> HIDE DEF ok
<1>2. SameHead(q, r) /\ q.part = r.part /\ q.maybe = r.maybe /\ q.q = r.q /\ q.f = r.f /\ q.stx = r.stx
  BY <1>1 DEF SameHead, RefFields
<1>3. q.pct = r.pct - 1 /\ (q.valid <=> r.valid /\ ok)
  BY <1>1 DEF RefFields
<1> QED
  BY <1>2, <1>3 DEF ok

\* The places in which a "%" may be read.
PctPlaces == {"first", "name", "host", "user", "segments", "path", "query", "fragment"}

LEMMA PctPlace ==
    ASSUME UriInv, phase = "read", cs.pct > 0
    PROVE  cs.at \in PctPlaces
<1>1. Reading(cs, p, m, ref)
  BY Before
<1>2. cs.at \in Openings \cup Authorities \cup Segs \cup Queries \cup Fragments
  BY <1>1 DEF Reading
<1>3. CASE cs.at \in Openings
  BY <1>1, <1>3 DEF Reading, Opening, Openings, PctPlaces
<1>4. CASE cs.at \in Names
  BY <1>1, <1>4 DEF Reading, Naming, Names, PctPlaces
<1>5. CASE cs.at \in Passwords
  BY <1>1, <1>5 DEF Reading, Password, Passwords, PctPlaces
<1>6. CASE cs.at \in Ports
  BY <1>1, <1>6 DEF Reading, Porting, Ports, PctPlaces
<1>7. CASE cs.at \in Literals
  BY <1>1, <1>7 DEF Reading, Literal, Literals, PctPlaces
<1>8. CASE cs.at \in Segs
  BY <1>8 DEF Segs, PctPlaces
<1>9. CASE cs.at \in Queries
  BY <1>1, <1>9 DEF Reading, Querying, Queries, PctPlaces
<1>10. CASE cs.at \in Fragments
  BY <1>1, <1>10 DEF Reading, Fragmented, Fragments, PctPlaces
<1> QED
  BY <1>2, <1>3, <1>4, <1>5, <1>6, <1>7, <1>8, <1>9, <1>10 DEF Authorities

LEMMA PctOK ==
    ASSUME UriInv, phase = "read", cs.pct > 0, NEW c \in Chars
    PROVE  StepOK(IF c \in Hex THEN To([cs EXCEPT !.pct = @ - 1], <<>>) ELSE Refuse, c)
<1> DEFINE r == RefStep(ref, p, c)
           s == [cs EXCEPT !.pct = @ - 1]
           u == Left(To(s, <<>>), c)
<1>1. /\ p \in Nat /\ Spans(m, p) /\ ~ m.thrown /\ DOMAIN ref = RefFields /\ Placed(cs) /\ Reading(cs, p, m, ref)
      /\ ref.pct = cs.pct /\ Named(m, ref)
  BY Before DEF Reading
<1>2. cs.at \in PctPlaces
  BY PctPlace
<1>3. /\ SameHead(r, ref) /\ r.part = ref.part /\ r.maybe = ref.maybe /\ r.q = ref.q /\ r.f = ref.f /\ r.stx = ref.stx
      /\ r.pct = ref.pct - 1 /\ (r.valid <=> ref.valid /\ c \in Hex)
  BY <1>1, RefHex
<1>4. CASE c \notin Hex
  <2>1. Excused(r)
    <3> HIDE DEF r
    <3> QED
      BY <1>3, <1>4 DEF Excused
  <2>2. StepOK(Refuse, c)
    BY <1>1, <2>1, RefuseOK
  <2> QED
    BY <1>4, <2>2
<1>5. CASE c \in Hex
  <2>1. Placed(s) /\ s.at = cs.at /\ s.abs = cs.abs /\ s.pct = cs.pct - 1
    BY <1>1 DEF Placed, PlaceFields
  <2> HIDE DEF s
  <2>2. SameSaved(u, m) /\ u.mark = m.mark /\ u.num = 0 /\ Spans(u, p)
    BY <1>1, <1>2, <2>1, NothingSaved DEF PctPlaces
  <2>3. ~ InLiteral
    BY <1>2 DEF InLiteral, PctPlaces
  <2>4. r.valid <=> ref.valid
    BY <1>3, <1>5
  <2> HIDE DEF r, u
  <2>5. ~ u.thrown /\ Named(u, r) /\ r.pct = s.pct /\ HostStart(r) = HostStart(ref)
    BY <1>1, <1>3, <2>1, <2>2 DEF SameSaved, SameHead, Named, NumericPassword, HostStart
  <2>6. Reading(s, p + 1, u, r)
    <3>1. CASE cs.at = "first"
      <4>1. Opening(cs, p, m, ref)
        BY <1>1, <3>1 DEF Reading, Openings
      <4>2. Opening(s, p + 1, u, r)
        BY <1>1, <1>3, <2>1, <2>2, <2>4, <3>1, <4>1
        DEF Opening, NoAuthority, Headed, Portless, Unported, SameSaved, SameHead
      <4> QED
        BY <2>1, <2>5, <3>1, <4>2, ReadingIs DEF Openings
    <3>2. ASSUME cs.at \in {"name", "host", "user"}
          PROVE  InAuthority(s, p + 1, u, r)
      <4>1. InAuthority(cs, p, m, ref)
        BY <1>1, <3>2 DEF Reading, Authorities, Names, Passwords
      <4>2. HostStart(ref) <= p + 1
        <5>1. HostStart(ref) \in Nat /\ HostStart(ref) <= p
          BY <4>1 DEF InAuthority, HostStart
        <5> QED
          BY <1>1, <5>1
      <4> QED
        BY <1>1, <1>3, <2>1, <2>2, <2>5, <4>1, <4>2
        DEF InAuthority, Headed, SameSaved, SameHead
    <3>3. CASE cs.at \in {"name", "host"}
      <4>1. Naming(cs, p, m, ref) /\ InAuthority(cs, p, m, ref)
        BY <1>1, <3>3 DEF Reading, Names, Authorities
      <4>2. HostStart(ref) \in Nat
        BY <4>1 DEF InAuthority, HostStart
      <4>3. Naming(s, p + 1, u, r)
        BY <1>1, <1>3, <2>1, <2>2, <2>4, <2>5, <3>3, <4>1, <4>2
        DEF Naming, Portless, Unported, SameSaved, SameHead
      <4> QED
        BY <2>1, <2>5, <3>2, <3>3, <4>3, ReadingIs DEF Names
    <3>4. CASE cs.at = "user"
      <4>1. Password(cs, p, m, ref) /\ InAuthority(cs, p, m, ref)
        BY <1>1, <3>4 DEF Reading, Passwords, Authorities
      <4>2. ref.auth \in Nat /\ ref.colon \in ref.auth .. p
        BY <1>1, <4>1 DEF InAuthority, Password
      <4>3. Password(s, p + 1, u, r)
        BY <1>1, <1>3, <2>1, <2>2, <2>4, <3>4, <4>1, <4>2
        DEF Password, SameSaved, SameHead
      <4> QED
        BY <2>1, <2>5, <3>2, <3>4, <4>3, ReadingIs DEF Passwords
    <3>5. ASSUME Settled(m, ref)
          PROVE  Settled(u, r)
      BY <1>3, <2>2, <2>4, <2>5, <3>5 DEF Settled, Tolerated, SameSaved, SameHead
    <3>6. CASE cs.at \in Segs
      <4>1. Segmented(cs, p, m, ref)
        BY <1>1, <3>6 DEF Reading
      <4>2. Settled(u, r)
        BY <3>5, <4>1 DEF Segmented
      <4>3. Segmented(s, p + 1, u, r)
        BY <1>1, <1>3, <2>1, <2>2, <4>1, <4>2 DEF Segmented, Headed, SameSaved, SameHead
      <4> QED
        BY <2>1, <2>5, <3>6, <4>3, ReadingIs
    <3>7. CASE cs.at = "query"
      <4>1. Querying(cs, p, m, ref)
        BY <1>1, <3>7 DEF Reading, Queries
      <4>2. Settled(u, r)
        BY <3>5, <4>1 DEF Querying
      <4>3. Querying(s, p + 1, u, r)
        BY <1>1, <1>3, <2>1, <2>2, <3>7, <4>1, <4>2 DEF Querying, PathSaved, SameSaved, SameHead
      <4> QED
        BY <2>1, <2>5, <3>7, <4>3, ReadingIs DEF Queries
    <3>8. CASE cs.at = "fragment"
      <4>1. Fragmented(cs, p, m, ref)
        BY <1>1, <3>8 DEF Reading, Fragments
      <4>2. Settled(u, r)
        BY <3>5, <4>1 DEF Fragmented
      <4>3. Fragmented(s, p + 1, u, r)
        BY <1>1, <1>3, <2>1, <2>2, <3>8, <4>1, <4>2 DEF Fragmented, PathSaved, SameSaved, SameHead
      <4> QED
        BY <2>1, <2>5, <3>8, <4>3, ReadingIs DEF Fragments
    <3> QED
      BY <1>2, <3>1, <3>3, <3>4, <3>6, <3>7, <3>8 DEF PctPlaces, Segs
  <2>7. StepOK(To(s, <<>>), c)
    BY <2>1, <2>2, <2>3, <2>5, <2>6, GoOnOK DEF r, u
  <2> QED
    BY <1>5, <2>7 DEF s
<1> QED
  BY <1>4, <1>5

-----------------------------------------------------------------------------
(* The end of the input.                                                   *)

LEMMA RefEndIs ==
    ASSUME NEW r, DOMAIN r = RefFields, NEW i, NEW q, q = RefEnd(r, i)
    PROVE  /\ DOMAIN q = RefFields /\ q.lit = r.lit
           /\ q.scheme = r.scheme /\ q.auth = r.auth /\ q.at = r.at /\ q.colon = r.colon /\ q.num = r.num
           /\ q.numeric = r.numeric /\ q.future = r.future /\ q.stx = r.stx /\ q.q = r.q /\ q.f = r.f
           /\ (r.part = "auth" => q.end = i) /\ (r.part # "auth" => q.end = r.end)
           /\ q.valid <=> r.valid /\ (r.part = "auth" => r.digits) /\ r.pct = 0 /\ r.part # "lit"
<1>1. CASE r.part = "auth"
  <2> DEFINE e == EndAuthorityAt(r, i)
  <2>1. q = [e EXCEPT !.valid = @ /\ r.pct = 0 /\ r.part # "lit"]
    BY <1>1 DEF RefEnd
  <2>2. /\ DOMAIN e = RefFields /\ e.end = i /\ (e.valid <=> r.valid /\ r.digits)
        /\ e.scheme = r.scheme /\ e.auth = r.auth /\ e.at = r.at /\ e.colon = r.colon /\ e.num = r.num
        /\ e.numeric = r.numeric /\ e.future = r.future /\ e.stx = r.stx /\ e.q = r.q /\ e.f = r.f /\ e.lit = r.lit
    BY DEF EndAuthorityAt, RefFields
  <2> HIDE DEF e
  <2> QED
    BY <1>1, <2>1, <2>2 DEF RefFields
<1>2. CASE r.part # "auth"
  <2>1. q = [r EXCEPT !.valid = @ /\ r.pct = 0 /\ r.part # "lit"]
    BY <1>2 DEF RefEnd
  <2> QED
    BY <1>2, <2>1 DEF RefFields
<1> QED
  BY <1>1, <1>2

\* What create() returns, and where it throws.
Returned(u, r) ==
    /\ Named(u, r) /\ Settled(u, r) /\ PathSaved(u, r, OrElse(r.q, OrElse(r.f, p)))
    /\ u.query = (IF r.q = None THEN NoSpan ELSE <<r.q + 1, OrElse(r.f, p)>>)
    /\ u.fragment = (IF r.f = None THEN NoSpan ELSE <<r.f + 1, p>>)

Ends(u, r) ==
    /\ Spans(u, p)
    /\ IF u.thrown THEN Tolerated(r) /\ r.scheme # None /\ r.colon # None /\ r.end = r.colon + 1
       ELSE Returned(u, r)

\* What is not an end is no end for the reference.
LEMMA NotFinal ==
    ASSUME UriInv, phase = "read", ~ Final(cs)
    PROVE  Excused(RefEnd(ref, p))
<1> DEFINE q == RefEnd(ref, p)
<1>1. Reading(cs, p, m, ref) /\ DOMAIN ref = RefFields /\ cs.pct \in 0 .. 2 /\ ref.pct = cs.pct
  BY Before DEF Placed, Reading
<1>2. q.valid => ref.valid /\ (ref.part = "auth" => ref.digits) /\ ref.pct = 0 /\ ref.part # "lit"
  BY <1>1, RefEndIs
<1> HIDE DEF q
<1>3. CASE cs.pct # 0
  BY <1>1, <1>2, <1>3 DEF Excused, q
<1>4. CASE cs.at = "user"
  <2>1. ref.part = "auth" /\ ~ ref.digits
    BY <1>1, <1>4 DEF Reading, Passwords, Password
  <2> QED
    BY <1>2, <2>1 DEF Excused, q
<1>5. CASE cs.at \in Literals
  <2>1. ref.part = "lit"
    BY <1>1, <1>5 DEF Reading, Literal
  <2> QED
    BY <1>2, <2>1 DEF Excused, q
<1>6. CASE cs.at = "v4"
  <2>1. ~ ref.valid
    BY <1>1, <1>6 DEF Reading, Names, Naming
  <2> QED
    BY <1>2, <2>1 DEF Excused, q
<1> QED
  BY <1>3, <1>4, <1>5, <1>6 DEF Final, Literals

\* The end of an authority.
LEMMA EofAuthority ==
    ASSUME UriInv, phase = "read", cs.at \in Enders, cs.pct = 0
    PROVE  Ends(Actions(EmptyPathSaves(cs)), RefEnd(ref, p))
<1> DEFINE q == RefEnd(ref, p)
           v == Actions(EndSaves(cs) \o EndMarks(cs))
           u == Actions(EmptyPathSaves(cs))
<1>0. cs.at \in Authorities
  BY DEF Enders, Authorities, Names, Passwords, Ports
<1>1. /\ p \in Nat /\ DOMAIN ref = RefFields /\ cs.abs \in BOOLEAN
      /\ ref.pct = 0 /\ ~ m.thrown /\ Named(m, ref) /\ InAuthority(cs, p, m, ref)
  BY <1>0, BeforeAuthority
<1>2. Tolerated(ref) /\ ref.digits /\ ref.part = "auth"
  BY EndingIs DEF Ending
<1>3. Headed(m, ref) /\ (cs.abs <=> ref.scheme # None) /\ ref.auth # None
  BY <1>1 DEF InAuthority, None
<1>4. /\ q.scheme = ref.scheme /\ q.auth = ref.auth /\ q.at = ref.at /\ q.colon = ref.colon /\ q.num = ref.num
      /\ q.numeric = ref.numeric /\ q.future = ref.future /\ q.stx = ref.stx /\ q.q = ref.q /\ q.f = ref.f
      /\ q.end = p /\ (q.valid <=> ref.valid)
  BY <1>1, <1>2, RefEndIs
<1>5. /\ Hosted(v)
      /\ cs.abs => v.mark = p \/ (v.mark = NULL /\ ref.colon # None /\ p = ref.colon + 1)
      /\ u = IF cs.abs THEN Save(v, "path") ELSE v
  BY EndedIs
<1> HIDE DEF q, v, u
<1>6. Tolerated(q) /\ HostStart(q) = HostStart(ref)
  BY <1>2, <1>4 DEF Tolerated, HostStart
<1>7. /\ Spans(v, p) /\ ~ v.thrown /\ v.scheme = m.scheme /\ v.userinfo = m.userinfo
      /\ v.path = m.path /\ v.query = m.query /\ v.fragment = m.fragment
      /\ v.host = <<HostStart(ref), OrElse(ref.colon, p)>> /\ v.port = ref.num % PortRange
  BY <1>1, <1>5 DEF Hosted, Keeps, SavedFields
<1>8. Named(v, q) /\ Settled(v, q)
  BY <1>1, <1>3, <1>4, <1>6, <1>7 DEF Named, NumericPassword, Settled
<1>9. CASE ~ cs.abs
  <2>1. u = v /\ q.scheme = None
    BY <1>3, <1>4, <1>5, <1>9
  <2>2. Returned(v, q)
    BY <1>3, <1>4, <1>7, <1>8, <2>1 DEF Returned, PathSaved, Headed
  <2> QED
    BY <1>7, <2>1, <2>2 DEF Ends, u, q
<1>10. CASE cs.abs
  <2>1. u = Save(v, "path") /\ "path" \in SaveNames
    BY <1>5, <1>10 DEF SaveNames, SavedFields
  <2>2. Spans(u, p)
    BY <1>1, <1>7, <2>1, SaveSpans
  <2>3. IF v.mark = NULL THEN Keeps(u, v, {"thrown"}) /\ u.thrown
        ELSE Keeps(u, v, {"path"}) /\ u.path = <<v.mark, p>>
    BY <1>1, <1>7, <2>1, SaveIs
  <2>4. CASE v.mark = NULL
    <3>1. p # NULL
      BY <1>1 DEF NULL
    <3>2. ref.colon # None /\ p = ref.colon + 1
      BY <1>5, <1>10, <2>4, <3>1
    <3>3. u.thrown /\ Tolerated(q) /\ q.scheme # None /\ q.colon # None /\ q.end = q.colon + 1
      BY <1>3, <1>4, <1>6, <1>10, <2>3, <2>4, <3>2
    <3> QED
      BY <2>2, <3>3 DEF Ends, u, q
  <2>5. CASE v.mark # NULL
    <3>1. Keeps(u, v, {"path"}) /\ u.path = <<p, p>>
      BY <1>5, <1>10, <2>3, <2>5
    <3>2. /\ u.scheme = v.scheme /\ u.userinfo = v.userinfo /\ u.host = v.host /\ u.port = v.port
          /\ u.query = v.query /\ u.fragment = v.fragment /\ u.thrown = v.thrown
      BY <3>1 DEF Keeps, SavedFields
    <3>3. Named(u, q) /\ Settled(u, q)
      BY <1>8, <3>2 DEF Named, NumericPassword, Settled
    <3>4. q.q = None /\ q.f = None /\ u.query = NoSpan /\ u.fragment = NoSpan
      BY <1>3, <1>4, <1>7, <3>2 DEF Headed
    <3>5. Returned(u, q)
      BY <1>3, <1>4, <1>10, <3>1, <3>3, <3>4 DEF Returned, PathSaved, OrElse
    <3> QED
      BY <1>7, <2>2, <3>2, <3>5 DEF Ends, u, q
  <2> QED
    BY <2>4, <2>5
<1> QED
  BY <1>1, <1>9, <1>10

\* The end of what comes before an authority or after it.
LEMMA EofElsewhere ==
    ASSUME UriInv, phase = "read", cs.at \in Openings \cup Segs \cup Queries \cup Fragments, cs.pct = 0
    PROVE  Ends(Actions(EofSaves(cs)), RefEnd(ref, p))
<1> DEFINE q == RefEnd(ref, p)
           u == Actions(EofSaves(cs))
<1>1. /\ p \in Nat /\ Spans(m, p) /\ DOMAIN ref = RefFields /\ ref.pct = 0 /\ ~ m.thrown /\ Named(m, ref)
      /\ Reading(cs, p, m, ref)
  BY Before DEF Reading
<1>2. ref.part \notin {"auth", "lit"}
  <2>1. CASE cs.at \in Openings
    BY <1>1, <2>1 DEF Reading, Openings, Opening
  <2>2. CASE cs.at \in Segs
    BY <1>1, <2>2 DEF Reading, Segmented
  <2>3. CASE cs.at \in Queries
    BY <1>1, <2>3 DEF Reading, Querying
  <2>4. CASE cs.at \in Fragments
    BY <1>1, <2>4 DEF Reading, Fragmented
  <2> QED
    BY <2>1, <2>2, <2>3, <2>4
<1>3. /\ q.scheme = ref.scheme /\ q.auth = ref.auth /\ q.at = ref.at /\ q.colon = ref.colon /\ q.num = ref.num
      /\ q.numeric = ref.numeric /\ q.future = ref.future /\ q.stx = ref.stx /\ q.q = ref.q /\ q.f = ref.f
      /\ q.end = ref.end /\ (q.valid <=> ref.valid)
  BY <1>1, <1>2, RefEndIs
<1> HIDE DEF q
<1>4. HostStart(q) = HostStart(ref) /\ (Settled(m, ref) => Settled(m, q) /\ Tolerated(q)) /\ Named(m, q)
  BY <1>1, <1>3 DEF HostStart, Settled, Tolerated, Named, NumericPassword
<1>5. CASE cs.at \in Openings \cup {"segments"}
  <2>1. u = m
    <3>1. EofSaves(cs) = <<>>
      BY <1>5 DEF EofSaves, Openings
    <3> QED
      BY <3>1, ActionsAre
  <2>2. /\ Settled(m, ref) /\ Headed(m, ref) /\ (ref.auth = None \/ ref.scheme = None)
    <3>1. CASE cs.at \in Openings
      <4>1. NoAuthority(m, ref) /\ Headed(m, ref) /\ ref.valid
        BY <1>1, <3>1 DEF Reading, Opening
      <4>2. ref.num = 0 /\ 0 % PortRange = 0
        BY <4>1, PortRangeIs DEF NoAuthority, Portless
      <4> QED
        BY <4>1, <4>2 DEF NoAuthority, Portless, Unported, Settled, Tolerated
    <3>2. CASE cs.at = "segments"
      BY <1>1, <3>2 DEF Reading, Segs, Segmented
    <3> QED
      BY <1>5, <3>1, <3>2
  <2>3. Returned(m, q)
    BY <1>3, <1>4, <2>2 DEF Returned, PathSaved, Headed
  <2> QED
    BY <1>1, <2>1, <2>3 DEF Ends, q
<1>6. CASE cs.at \in {"path", "query0", "query", "fragment0", "fragment"}
  <2> DEFINE field == CASE cs.at = "path" -> "path" [] cs.at \in Queries -> "query" [] OTHER -> "fragment"
             w == IF cs.at \in {"query0", "fragment0"} THEN Save(m, "mark") ELSE m
  <2>1. EofSaves(cs) = IF cs.at \in {"query0", "fragment0"} THEN <<"mark", field>> ELSE <<field>>
    BY <1>6 DEF EofSaves, Queries
  <2>2. /\ field \in {"path", "query", "fragment"} /\ field \in {"scheme", "path", "query", "fragment"}
        /\ field \in SaveNames /\ "mark" \in SaveNames
        /\ (cs.at = "path" => field = "path") /\ (cs.at \in Queries => field = "query")
        /\ (cs.at \in Fragments => field = "fragment")
    BY DEF SaveNames, SavedFields, Queries, Fragments
  <2> HIDE DEF field
  <2>3. u = Save(w, field)
    BY <2>1, ActionsAre
  <2>4. /\ Spans(w, p) /\ ~ w.thrown /\ Keeps(w, m, {})
        /\ w.mark = IF cs.at \in {"query0", "fragment0"} THEN p ELSE m.mark
    <3>1. Keeps(m, m, {})
      BY DEF Keeps
    <3>2. Spans(Save(m, "mark"), p)
      BY <1>1, <2>2, SaveSpans
    <3>3. Keeps(Save(m, "mark"), m, {}) /\ Save(m, "mark").mark = p
      BY <1>1, SaveIs
    <3>4. ~ Save(m, "mark").thrown
      BY <1>1, <3>3 DEF Keeps
    <3> QED
      BY <1>1, <3>1, <3>2, <3>3, <3>4
  <2> HIDE DEF w
  <2>5. Spans(u, p)
    BY <1>1, <2>2, <2>3, <2>4, SaveSpans
  <2>6. IF w.mark = NULL THEN Keeps(u, w, {"thrown"}) /\ u.thrown
        ELSE Keeps(u, w, {field}) /\ u[field] = <<w.mark, p>>
    <3>1. \A g \in {"scheme", "path", "query", "fragment"} :
            IF w.mark = NULL THEN Keeps(Save(w, g), w, {"thrown"}) /\ Save(w, g).thrown
            ELSE Keeps(Save(w, g), w, {g}) /\ Save(w, g)[g] = <<w.mark, p>>
      BY <1>1, <2>4, SaveIs
    <3> HIDE DEF u
    <3> QED
      BY <2>2, <2>3, <3>1, Zenon
  <2> HIDE DEF u
  <2>7. \A g \in {"scheme", "userinfo", "host", "port", "path", "query", "fragment", "thrown"} \ {field} :
          w.mark # NULL => u[g] = m[g]
    BY <2>4, <2>6 DEF Keeps, SavedFields
  <2>8. w.mark # NULL =>
          /\ u.scheme = m.scheme /\ u.userinfo = m.userinfo /\ u.host = m.host /\ u.port = m.port /\ ~ u.thrown
          /\ (field # "path" => u.path = m.path) /\ (field # "query" => u.query = m.query)
          /\ (field # "fragment" => u.fragment = m.fragment)
          /\ u[field] = <<w.mark, p>>
    BY <1>1, <2>2, <2>6, <2>7
  <2>9. w.mark # NULL /\ Settled(m, ref) => Named(u, q) /\ Settled(u, q)
    BY <1>4, <2>8 DEF Named, NumericPassword, Settled
  <2>10. CASE cs.at = "path"
    <3>1. /\ Settled(m, ref) /\ Headed(m, ref) /\ ref.auth # None /\ ref.scheme # None
          /\ m.mark = ref.end \/ (m.mark = NULL /\ ref.colon # None /\ ref.end = ref.colon + 1)
      BY <1>1, <2>10 DEF Reading, Segs, Segmented
    <3>2. w.mark = m.mark /\ field = "path"
      BY <2>2, <2>4, <2>10
    <3>3. CASE m.mark = NULL
      <4>1. u.thrown /\ Tolerated(q)
        BY <1>4, <2>6, <3>1, <3>2, <3>3
      <4>2. ref.end \in Nat
        BY <1>1, <2>10 DEF Reading, Segs, Segmented
      <4>3. ref.colon # None /\ ref.end = ref.colon + 1
        BY <3>1, <3>3, <4>2 DEF NULL
      <4> QED
        BY <1>3, <2>5, <3>1, <4>1, <4>3 DEF Ends, q, u
    <3>4. CASE m.mark # NULL
      <4>1. u.path = <<ref.end, p>> /\ u.query = m.query /\ u.fragment = m.fragment /\ ~ u.thrown
        BY <2>8, <3>1, <3>2, <3>4
      <4>2. Named(u, q) /\ Settled(u, q)
        BY <2>9, <3>1, <3>2, <3>4
      <4>3. Returned(u, q)
        BY <1>3, <3>1, <4>1, <4>2 DEF Returned, PathSaved, Headed, OrElse
      <4> QED
        BY <2>5, <4>1, <4>3 DEF Ends, q, u
    <3> QED
      BY <3>3, <3>4
  <2>11. CASE cs.at \in Queries
    <3>1. Querying(cs, p, m, ref)
      BY <1>1, <2>11 DEF Reading
    <3>2. /\ Settled(m, ref) /\ PathSaved(m, ref, ref.q) /\ ref.f = None /\ ref.q \in 0 .. p - 1 /\ m.fragment = NoSpan
      BY <3>1 DEF Querying
    <3>3. w.mark = ref.q + 1 /\ field = "query" /\ w.mark # NULL /\ ref.q # None
      BY <1>1, <2>2, <2>4, <2>11, <3>1, <3>2 DEF Querying, Queries, NULL, None
    <3>4. u.path = m.path /\ u.query = <<ref.q + 1, p>> /\ u.fragment = NoSpan /\ ~ u.thrown
      BY <2>8, <3>2, <3>3
    <3>5. Named(u, q) /\ Settled(u, q)
      BY <2>9, <3>2, <3>3
    <3>6. Returned(u, q)
      BY <1>3, <3>2, <3>3, <3>4, <3>5 DEF Returned, PathSaved, OrElse
    <3> QED
      BY <2>5, <3>4, <3>6 DEF Ends, q, u
  <2>12. CASE cs.at \in Fragments
    <3>1. Fragmented(cs, p, m, ref)
      BY <1>1, <2>12 DEF Reading
    <3>2. /\ Settled(m, ref) /\ PathSaved(m, ref, OrElse(ref.q, ref.f)) /\ ref.f \in 0 .. p - 1
          /\ m.query = (IF ref.q = None THEN NoSpan ELSE <<ref.q + 1, ref.f>>)
      BY <3>1 DEF Fragmented
    <3>3. w.mark = ref.f + 1 /\ field = "fragment" /\ w.mark # NULL /\ ref.f # None
      BY <1>1, <2>2, <2>4, <2>12, <3>1, <3>2 DEF Fragmented, Fragments, NULL, None
    <3>4. u.path = m.path /\ u.query = m.query /\ u.fragment = <<ref.f + 1, p>> /\ ~ u.thrown
      BY <2>8, <3>3
    <3>5. Named(u, q) /\ Settled(u, q)
      BY <2>9, <3>2, <3>3
    <3>6. Returned(u, q)
      BY <1>3, <3>2, <3>3, <3>4, <3>5 DEF Returned, PathSaved, OrElse
    <3> QED
      BY <2>5, <3>4, <3>6 DEF Ends, q, u
  <2> QED
    BY <1>6, <2>10, <2>11, <2>12 DEF Queries, Fragments
<1> QED
  BY <1>5, <1>6 DEF Openings, Segs, Queries, Fragments

LEMMA EofOK ==
    ASSUME UriInv, Eof
    PROVE  UriInv'
<1> DEFINE q == RefEnd(ref, p)
           u == IF Final(cs) THEN Actions(EofSaves(cs)) ELSE m
<1>0. phase = "read"
  BY DEF Eof
<1>1. /\ Shape(cs, p, m, ref) /\ TypeOK /\ Spans(m, p) /\ DOMAIN ref = RefFields /\ DOMAIN ref.lit = LitFields
      /\ DOMAIN cs = PlaceFields /\ p \in Nat /\ cs.abs \in BOOLEAN
  BY <1>0, Before DEF UriInv, FieldsExact
<1>2. /\ m' = u /\ ref' = q /\ cs' = cs /\ p' = p
      /\ phase' = IF ~ Final(cs) THEN "rejected" ELSE IF u.thrown THEN "thrown" ELSE "accepted"
  BY DEF Eof
<1>3. DOMAIN q = RefFields /\ q.lit = ref.lit
  BY <1>1, RefEndIs
<1>4. IF Final(cs) THEN Ends(u, q) ELSE Spans(u, p) /\ Excused(q)
  <2>1. CASE ~ Final(cs)
    BY <1>0, <1>1, <2>1, NotFinal
  <2>2. CASE Final(cs) /\ cs.at \in Openings \cup Segs \cup Queries \cup Fragments
    <3>1. cs.pct = 0
      BY <2>2 DEF Final
    <3> QED
      BY <1>0, <2>2, <3>1, EofElsewhere
  <2>3. CASE Final(cs) /\ cs.at \notin Openings \cup Segs \cup Queries \cup Fragments
    <3>1. cs.pct = 0 /\ cs.at \in Enders
      <4>1. cs.at \in Authorities
        BY <1>0, <2>3, Before DEF Reading
      <4> QED
        BY <2>3, <4>1 DEF Final, Authorities, Names, Passwords, Ports, Literals, Enders
    <3>2. EofSaves(cs) = EmptyPathSaves(cs)
      BY <3>1 DEF EofSaves, Enders
    <3> QED
      BY <1>0, <2>3, <3>1, <3>2, EofAuthority
  <2> QED
    BY <2>1, <2>2, <2>3
<1> HIDE DEF u, q
<1>5. Spans(u, p)
  BY <1>4 DEF Ends
<1>6. Shape(cs', p', m', ref')
  BY <1>1, <1>2, <1>3, <1>5 DEF Shape, Spans
<1>7. TypeOK'
  <2>1. m'.mark \in -1 .. p' /\ m'.port \in 0 .. PortRange - 1
    BY <1>2, <1>5 DEF Spans
  <2>2. \A field \in SavedFields : IsSpan(m'[field], p')
    BY <1>2, <1>5 DEF Spans
  <2>3. phase' \in {"read", "accepted", "rejected", "thrown"}
    BY <1>2
  <2> QED
    BY <1>1, <1>2, <2>1, <2>2, <2>3 DEF TypeOK, IsSpan, SavedFields
<1>8. CASE ~ Final(cs)
  <2>1. phase' = "rejected" /\ Excused(q)
    BY <1>2, <1>4, <1>8
  <2>2. FieldsExact' /\ Decides'
    BY <1>2, <1>7, <2>1 DEF FieldsExact, Decides, Excused
  <2> QED
    BY <1>6, <2>1, <2>2 DEF UriInv
<1>9. CASE Final(cs) /\ u.thrown
  <2>1. phase' = "thrown" /\ Tolerated(q) /\ q.scheme # None /\ q.colon # None /\ q.end = q.colon + 1
    BY <1>2, <1>4, <1>9 DEF Ends
  <2>2. FieldsExact' /\ Decides'
    BY <1>2, <1>7, <2>1 DEF FieldsExact, Decides, Tolerated
  <2> QED
    BY <1>6, <2>1, <2>2 DEF UriInv
<1>10. CASE Final(cs) /\ ~ u.thrown
  <2>1. phase' = "accepted" /\ Returned(u, q)
    BY <1>2, <1>4, <1>10 DEF Ends
  <2>2. Named(u, q) /\ Settled(u, q)
    BY <2>1 DEF Returned
  <2>3. Decides'
    BY <1>2, <2>1, <2>2 DEF Decides, Settled, Tolerated
  <2>4. u.scheme = (IF q.scheme = None THEN NoSpan ELSE <<0, q.scheme>>)
    BY <2>2 DEF Named, NumericPassword
  <2>5. NumericPassword(q) \/ u.userinfo = (IF q.at = None THEN NoSpan ELSE <<q.auth, q.at>>)
    BY <2>2 DEF Named, NumericPassword
  <2>6. u.host = (IF q.auth # None THEN <<HostStart(q), OrElse(q.colon, q.end)>> ELSE NoSpan) /\ u.port = q.num % PortRange
    BY <2>2 DEF Settled
  <2>7. /\ u.path = (IF q.auth # None /\ q.scheme # None THEN <<q.end, OrElse(q.q, OrElse(q.f, p))>> ELSE NoSpan)
        /\ u.query = (IF q.q = None THEN NoSpan ELSE <<q.q + 1, OrElse(q.f, p)>>)
        /\ u.fragment = (IF q.f = None THEN NoSpan ELSE <<q.f + 1, p>>)
    BY <2>1 DEF Returned, PathSaved
  <2>8. FieldsExact'
    BY <1>2, <1>7, <2>1, <2>4, <2>5, <2>6, <2>7 DEF FieldsExact, OrElse, HostStart
  <2> QED
    BY <1>6, <2>1, <2>3, <2>8 DEF UriInv
<1> QED
  BY <1>8, <1>9, <1>10

-----------------------------------------------------------------------------
(* The invariant holds.                                                    *)

LEMMA InitInv ==
    ASSUME Init
    PROVE  UriInv
<1>1. MaxLen \in Nat
  BY UriAssumption
<1>2. /\ phase = "read" /\ cs = At("start", FALSE) /\ p = 0 /\ ref = RefInit
      /\ DOMAIN m = UriFields /\ m.mark = NULL /\ m.num = 0 /\ m.port = 0 /\ m.thrown = FALSE
      /\ m.scheme = NoSpan /\ m.userinfo = NoSpan /\ m.host = NoSpan /\ m.path = NoSpan
      /\ m.query = NoSpan /\ m.fragment = NoSpan
  BY DEF Init, UriFields, SavedFields
<1>3. /\ DOMAIN cs = PlaceFields /\ cs.at = "start" /\ cs.abs = FALSE /\ cs.pct = 0 /\ cs.k = 0 /\ cs.d = 0
  BY <1>2 DEF At, PlaceFields
<1>4. /\ DOMAIN ref = RefFields /\ DOMAIN ref.lit = LitFields /\ ref.part = "first" /\ ref.pct = 0 /\ ref.valid
      /\ ref.maybe /\ ref.scheme = None /\ ref.auth = None /\ ref.at = None /\ ref.colon = None /\ ref.num = 0
      /\ ref.digits /\ ref.q = None /\ ref.f = None /\ ~ ref.closed /\ ref.lit = NoLiteral
  BY <1>2 DEF RefInit, RefFields, LitFields, NoLiteral
<1>5. Shape(cs, p, m, ref)
  <2>1. cs.abs \in BOOLEAN
    BY <1>3, Zenon
  <2>2. p \in Nat /\ m.num \in Nat
    BY <1>2
  <2> QED
    BY <1>2, <1>3, <1>4, <2>1, <2>2, Zenon DEF Shape
<1>6. TypeOK
  <2>1. 0 \in 0 .. PortRange - 1
    BY PortRangeIs
  <2>2. \A field \in SavedFields : m[field] = NoSpan
    BY <1>2 DEF SavedFields
  <2>3. m.mark \in -1 .. p /\ m.port \in 0 .. PortRange - 1 /\ p \in 0 .. MaxLen
    BY <1>1, <1>2, <2>1 DEF NULL
  <2>4. cs.pct \in 0 .. 2 /\ cs.k \in 0 .. 8 /\ cs.d \in 0 .. 4
    BY <1>3
  <2> QED
    BY <1>2, <2>2, <2>3, <2>4 DEF TypeOK, SavedFields
<1>7. FieldsExact /\ Decides
  BY <1>2, <1>6 DEF FieldsExact, Decides
<1>8. Opening(cs, p, m, ref)
  BY <1>2, <1>3, <1>4 DEF Opening, NoAuthority, Portless, Unported, Headed
<1>9. Named(m, ref)
  BY <1>2, <1>4 DEF Named, NumericPassword
<1>10. Reading(cs, p, m, ref)
  BY <1>2, <1>3, <1>4, <1>8, <1>9, ReadingIs DEF Openings
<1> QED
  BY <1>5, <1>7, <1>10 DEF UriInv

LEMMA NextInv ==
    ASSUME UriInv, [Next]_vars
    PROVE  UriInv'
<1>1. CASE Start
  BY <1>1, StartOK, ConsumeInv DEF Start, Read
<1>2. CASE Scheme
  BY <1>2, SchemeOK, ConsumeInv DEF Scheme, Read
<1>3. CASE First
  BY <1>3, FirstOK, ConsumeInv DEF First, Read
<1>4. CASE Hier
  BY <1>4, HierOK, SlashOK, ConsumeInv DEF Hier, Read
<1>5. CASE Slash
  BY <1>5, SlashOK, ConsumeInv DEF Slash, Read
<1>6. CASE Segments
  BY <1>6, SegmentsOK, ConsumeInv DEF Segments, Read
<1>7. CASE Path
  BY <1>7, PathOK, ConsumeInv DEF Path, Read
<1>8. CASE Query
  BY <1>8, QueryOK, ConsumeInv DEF Query, Read
<1>9. CASE Fragment
  BY <1>9, FragmentOK, ConsumeInv DEF Fragment, Read
<1>10. CASE RelAuthority \/ RelName \/ RelHost \/ AbsAuthority \/ AbsName \/ AbsHost
  BY <1>10, NameOK, ConsumeInv DEF RelAuthority, RelName, RelHost, AbsAuthority, AbsName, AbsHost, Read
<1>11. CASE RelPassword \/ AbsPassword
  BY <1>11, PasswordOK, ConsumeInv DEF RelPassword, AbsPassword, Read
<1>12. CASE RelV4 \/ AbsV4
  BY <1>12, V4OK, ConsumeInv DEF RelV4, AbsV4, Read
<1>13. CASE RelPort \/ AbsPort
  BY <1>13, EndOK, PortOK, ConsumeInv DEF RelPort, AbsPort, Read
<1>14. CASE RelV6Head \/ AbsV6Head
  BY <1>14, V6HeadOK, ConsumeInv DEF RelV6Head, AbsV6Head, Read
<1>15. CASE RelV6Tail \/ AbsV6Tail
  BY <1>15, V6TailOK, ConsumeInv DEF RelV6Tail, AbsV6Tail, Read
<1>16. CASE RelV6Lead \/ AbsV6Lead
  BY <1>16, V6LeadOK, ConsumeInv DEF RelV6Lead, AbsV6Lead, Read
<1>17. CASE RelQuad \/ AbsQuad
  BY <1>17, QuadOK, ConsumeInv DEF RelQuad, AbsQuad, Read
<1>18. CASE RelFuture \/ AbsFuture
  BY <1>18, FutureOK, ConsumeInv DEF RelFuture, AbsFuture, Read
<1>19. CASE PctEncoded
  BY <1>19, PctOK, ConsumeInv DEF PctEncoded
<1>20. CASE Eof
  BY <1>20, EofOK
<1>21. CASE UNCHANGED vars
  BY <1>21 DEF vars, UriInv, FieldsExact, Decides, TypeOK, HostStart
<1> QED
  BY <1>1, <1>2, <1>3, <1>4, <1>5, <1>6, <1>7, <1>8, <1>9, <1>10, <1>11, <1>12, <1>13, <1>14, <1>15,
     <1>16, <1>17, <1>18, <1>19, <1>20, <1>21 DEF Next, Relative, Absolute

\* What create() returns for an input of any length has each field where RFC
\* 3986 has it (uri.rl:20-131), and it throws for one kind of input only: a
\* scheme, an authority and an empty port.
THEOREM FieldsStay == Spec => []FieldsExact
<1>1. Init => UriInv
  BY InitInv
<1>2. UriInv /\ [Next]_vars => UriInv'
  BY NextInv
<1>3. UriInv => FieldsExact
  BY DEF UriInv
<1> QED
  BY <1>1, <1>2, <1>3, PTL DEF Spec

\* The machine decides what RFC 3986 decides, for an input of any length, but
\* for the byte 2, the "::" between groups, the octets from 200 to 249 and
\* IPvFuture (uri.rl:46-63).
THEOREM DecidesRightly == Spec => []Decides
<1>1. Init => UriInv
  BY InitInv
<1>2. UriInv /\ [Next]_vars => UriInv'
  BY NextInv
<1>3. UriInv => Decides
  BY DEF UriInv
<1> QED
  BY <1>1, <1>2, <1>3, PTL DEF Spec
=============================================================================
