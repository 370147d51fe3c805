----------------------------- MODULE UriReference -----------------------------
(***************************************************************************)
(* What RFC 3986, to which net/uri.rl refers, makes of the same input: its *)
(* delimiters in the order of appendix B, the characters each component    *)
(* may have, and an IPv6 address by counting groups and octets.  Nothing   *)
(* here is translated from the program.                                    *)
(***************************************************************************)
EXTENDS IPLiteral

None == -1

\* The number that stands for a class of digits.
Value(c) == CHOOSE n \in {0, 1, 2, 3, 5, 6} : c = <<"0", "1", "2", "3", "4", "5", "6">>[n + 1]

NoLiteral == [n |-> 0, d |-> 0, val |-> 0, dots |-> 0, dbl |-> "none", prev |-> "[", future |-> FALSE]

\* part: the component of the next character; scheme, auth, at, colon, end,
\* q, f: positions of the delimiters; num: the number after colon, digits:
\* nothing else came after it; closed: an IP literal was read.
RefInit ==
    [part |-> "first", pct |-> 0, valid |-> TRUE, maybe |-> TRUE, scheme |-> None, auth |-> None,
     at |-> None, colon |-> None, num |-> 0, digits |-> TRUE, end |-> None, q |-> None, f |-> None,
     closed |-> FALSE, lit |-> NoLiteral,
     \* Where the grammar of the program is known to differ.  mid: a "::" after a
     \* group stands for more than one group; numeric: a digit follows the first ":".
     stx |-> FALSE, mid |-> FALSE, octet2 |-> FALSE, future |-> FALSE, numeric |-> FALSE]

-----------------------------------------------------------------------------
(* IPv6: n groups are complete, the current group or octet has d digits    *)
(* and, as a decimal number, the value val (-1: it is none).               *)

Decimal(l, c) ==
    IF c \in Digit /\ l.val # -1 /\ (l.val = 0 => l.d = 0) /\ l.val * 10 + Value(c) <= 255
    THEN l.val * 10 + Value(c) ELSE -1

LiteralStep(l, c) ==
    CASE c = ":" /\ l.prev = ":" -> [l EXCEPT !.prev = "::", !.dbl = IF l.n = 0 THEN "lead" ELSE "mid"]
      [] c = ":" /\ l.prev # ":" -> [l EXCEPT !.n = IF l.d > 0 THEN @ + 1 ELSE @, !.d = 0, !.val = 0, !.prev = ":"]
      [] c = "." -> [l EXCEPT !.dots = @ + 1, !.d = 0, !.val = 0, !.prev = "."]
      [] OTHER   -> [l EXCEPT !.d = @ + 1, !.val = Decimal(l, c), !.prev = "h"]

Groups(l) == l.n + (IF l.dots > 0 THEN 2 ELSE IF l.d > 0 THEN 1 ELSE 0)

\* Character c may come after l in an address.
MayFollow(l, c) ==
    LET next == LiteralStep(l, c) IN
    /\ c \in Hex \cup {":", "."}
    /\ c = ":" => /\ l.prev \in {"[", "h"} \/ (l.prev = ":" /\ l.dbl = "none")
                  /\ l.dots = 0
                  /\ next.prev = ":" => next.n <= (IF l.dbl = "none" THEN 7 ELSE 6)
    /\ c = "." => l.d > 0 /\ l.val # -1 /\ l.dots < 3 /\ (l.dbl = "none" => l.n = 6)
    /\ c \in Hex => l.d < 4 /\ ~ (l.prev = ":" /\ l.n = 0)
    /\ c \in Hex /\ l.dots > 0 => next.val # -1
    /\ Groups(next) <= (IF next.dbl = "none" THEN 8 ELSE 7)

Complete(l) ==
    /\ l.prev \in {"h", "::"} /\ l.dots \in {0, 3}
    /\ l.dbl = "none" => Groups(l) = 8

\* A "::" after a group stands for more than one group: known when the address
\* ends, and as soon as it goes on with an IPv4 address, which comes last.
Wide(l) == l.dbl = "mid" /\ Groups(l) < 7

RefLiteral(r, c) ==
    LET next == LiteralStep(r.lit, c) IN
    CASE c = "]" -> [r EXCEPT !.part = "auth", !.closed = TRUE, !.lit = NoLiteral, !.mid = @ \/ Wide(r.lit),
                              !.valid = @ /\ (r.lit.future \/ Complete(r.lit))]
      [] c # "]" /\ r.lit.future -> r
      [] c = "v" /\ r.lit = NoLiteral -> [r EXCEPT !.lit.future = TRUE, !.future = TRUE]
      [] OTHER ->
            IF MayFollow(r.lit, c)
            THEN [r EXCEPT !.lit = next, !.mid = @ \/ (next.dots > 0 /\ Wide(next)),
                           !.octet2 = @ \/ (IF c = "." THEN r.lit.val \in 200 .. 249
                                            ELSE next.dots > 0 /\ next.val \in 200 .. 249)]
            ELSE [r EXCEPT !.valid = FALSE, !.lit = NoLiteral, !.stx = @ \/ c = "STX",
                           !.octet2 = @ \/ (c = "." /\ r.lit.val \in 200 .. 249)]

-----------------------------------------------------------------------------
(* The components.                                                         *)

\* c is a character of the component: one of chars, or begins a "%".
Inside(r, c, chars) ==
    [r EXCEPT !.valid = @ /\ c \in chars \cup {"%"}, !.pct = IF c = "%" THEN 2 ELSE 0,
              !.stx = @ \/ c = "STX"]

Delimiter(r, i, c) ==
    IF c = "?" THEN [r EXCEPT !.part = "query", !.q = i]
               ELSE [r EXCEPT !.part = "fragment", !.f = i]

RefPath(r, i, c) ==
    IF c \in {"?", "#"} THEN Delimiter(r, i, c)
    ELSE Inside([r EXCEPT !.part = "path"], c, PChar \cup {"/"})

RefFirst(r, i, c) ==
    CASE c = ":" -> IF r.maybe /\ i > 0 THEN [r EXCEPT !.scheme = i, !.part = "hier"]
                                        ELSE [r EXCEPT !.valid = FALSE]
      [] c = "/" -> [r EXCEPT !.part = IF i = 0 THEN "slash" ELSE "path"]
      [] c \in {"?", "#"} -> Delimiter(r, i, c)
      [] OTHER -> [Inside(r, c, PChar) EXCEPT
                     !.maybe = @ /\ c \in (IF i = 0 THEN Alpha ELSE Alpha \cup Digit \cup {"-", "."})]

HostStart(r) == IF r.at = None THEN r.auth ELSE r.at + 1
Fixed(r) == r.at # None \/ r.closed        \* no userinfo may follow any more

\* The userinfo has a password, and it begins with a digit.
NumericPassword(r) == r.at # None /\ r.numeric

EndAuthorityAt(r, i) == [r EXCEPT !.end = i, !.valid = @ /\ r.digits]

RefAuthority(r, i, c) ==
    CASE c \in {"?", "#"} -> Delimiter(EndAuthorityAt(r, i), i, c)
      [] c = "/" -> [EndAuthorityAt(r, i) EXCEPT !.part = "path"]
      [] c = "@" -> [r EXCEPT !.valid = @ /\ ~ Fixed(r), !.at = i, !.colon = None, !.num = 0,
                              !.digits = TRUE]
      [] c = ":" /\ r.colon = None -> [r EXCEPT !.colon = i]
      [] c = "[" -> [r EXCEPT !.valid = @ /\ i = HostStart(r) /\ ~ r.closed, !.part = "lit"]
      [] OTHER ->
            IF r.colon = None THEN [Inside(r, c, Plain) EXCEPT !.valid = @ /\ ~ r.closed]
            ELSE IF c \in Digit
            THEN [r EXCEPT !.num = @ * 10 + Value(c), !.numeric = @ \/ (r.colon = i - 1 /\ ~ Fixed(r))]
            ELSE [Inside(r, c, Plain \cup {":"}) EXCEPT !.valid = @ /\ ~ Fixed(r), !.digits = FALSE,
                                                         !.num = 0]

RefStep(r, i, c) ==
    IF r.pct > 0 THEN [r EXCEPT !.pct = @ - 1, !.valid = @ /\ c \in Hex]
    ELSE
    CASE r.part = "lit"   -> RefLiteral(r, c)
      [] r.part = "first" -> RefFirst(r, i, c)
      [] r.part = "hier"  -> IF c = "/" THEN [r EXCEPT !.part = "slash"] ELSE RefPath(r, i, c)
      [] r.part = "slash" -> IF c = "/" THEN [r EXCEPT !.part = "auth", !.auth = i + 1] ELSE RefPath(r, i, c)
      [] r.part = "path"  -> RefPath(r, i, c)
      [] r.part = "auth"  -> RefAuthority(r, i, c)
      [] r.part = "query" -> IF c = "#" THEN Delimiter(r, i, c) ELSE Inside(r, c, PChar \cup {"/", "?"})
      [] OTHER -> Inside(r, c, PChar \cup {"/", "?"})

RefEnd(r, i) ==
    LET s == IF r.part = "auth" THEN EndAuthorityAt(r, i) ELSE r IN
    [s EXCEPT !.valid = @ /\ r.pct = 0 /\ r.part # "lit"]
=============================================================================
