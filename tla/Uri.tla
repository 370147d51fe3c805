---------------------------------- MODULE Uri ----------------------------------
(***************************************************************************)
(* Uri::create() of net/uri.rl: the machine that Ragel generates from the  *)
(* grammar (net/uri.rl.cpp), character by character, with the actions that *)
(* save the fields of a Uri.  A behavior parses one input.                 *)
(*                                                                         *)
(* A field is the span of input it was copied from.  Positions count the   *)
(* characters outside an IP literal: inside one nothing is marked or saved.*)
(* An action of Next is a block of the generated code; the blocks of an    *)
(* authority exist twice, without and with a scheme before it.             *)
(***************************************************************************)
EXTENDS UriReference, SequencesExt

CONSTANTS
    MaxLen,    \* bound: characters of the input outside an IP literal
    MaxNumber  \* bound: the number that atoi() reads, which is an int

MaxInt == 2147483647
PortRange == 65536     \* of the uint16_t that is the port

ASSUME UriAssumption == MaxLen \in Nat /\ MaxNumber \in 0 .. MaxInt

VARIABLES
    phase,     \* "read", "accepted", "rejected", "thrown"
    cs,        \* the place of the machine
    p,         \* the position
    m,         \* mark, the fields, and the number that starts at mark
    ref        \* the reference reading of the same input

vars == <<phase, cs, p, m, ref>>

NULL == -1
NoSpan == <<NULL, NULL>>

Init ==
    /\ phase = "read"
    /\ cs = At("start", FALSE) /\ p = 0
    /\ m = [mark |-> NULL, num |-> 0, scheme |-> NoSpan, userinfo |-> NoSpan,
            host |-> NoSpan, port |-> 0, path |-> NoSpan, query |-> NoSpan, fragment |-> NoSpan,
            thrown |-> FALSE]
    /\ ref = RefInit

-----------------------------------------------------------------------------
(* The actions of the grammar.                                             *)

Span(u) == <<u.mark, p>>

\* A std::string made from a NULL mark throws.
Saved(u, field) ==
    IF u.mark = NULL THEN [u EXCEPT !.thrown = TRUE] ELSE [u EXCEPT ![field] = Span(u), !.mark = NULL]

Save(u, a) ==
    IF u.thrown THEN u
    ELSE
    CASE a = "mark" -> [u EXCEPT !.mark = p]
      [] a = "userinfo" -> IF u.mark = NULL THEN u ELSE Saved(u, "userinfo")
      [] a = "host" -> IF u.mark = NULL THEN u ELSE [u EXCEPT !.host = Span(u)]
      [] a = "port" -> [u EXCEPT !.port = IF u.mark = p THEN @ ELSE u.num % PortRange, !.mark = NULL]
      [] OTHER -> Saved(u, a)

Actions(do) == FoldLeft(Save, m, do)

\* What atoi(mark) reads is kept where it may be a port.
Number(u, s, c) == [u EXCEPT !.num = IF s.at \in {"digits", "port"} THEN @ * 10 + Value(c) ELSE 0]

-----------------------------------------------------------------------------
(* The parts of the grammar.                                               *)

Pct(s, do) == To([s EXCEPT !.pct = 2], do)

Suffix(c, do) ==
    CASE c = "?" -> To(At("query0", FALSE), do)
      [] c = "#" -> To(At("fragment0", FALSE), do)
      [] OTHER -> Refuse

\* A segment that has no scheme before it: what is read next in a path.
InPath(c, part, chars) ==
    CASE c \in chars -> To(At(part, FALSE), <<>>)
      [] c = "%" -> Pct(At(part, FALSE), <<>>)
      [] OTHER -> Suffix(c, <<>>)

StartStep(s, c) ==
    CASE c \in Alpha -> To(At("scheme", TRUE), <<"mark">>)
      [] c = "/" -> To(At("slash", FALSE), <<>>)
      [] OTHER -> InPath(c, "first", PChar \ {":"})

SchemeStep(s, c) ==
    CASE c \in Alpha \cup Digit \cup {"-", "."} -> To(s, <<>>)
      [] c = ":" -> To(At("hier", TRUE), <<"scheme">>)
      [] c = "/" -> To(At("segments", FALSE), <<>>)
      [] OTHER -> InPath(c, "first", PChar)

FirstStep(s, c) ==
    IF c = "/" THEN To(At("segments", FALSE), <<>>) ELSE InPath(c, "first", PChar \ {":"})

HierStep(s, c) ==
    IF c = "/" THEN To(At("slash", TRUE), <<>>) ELSE InPath(c, "segments", PChar)

SlashStep(s, c) ==
    IF c = "/" THEN To(At("auth0", s.abs), <<>>) ELSE InPath(c, "segments", PChar)

SegmentsStep(s, c) == InPath(c, "segments", PChar \cup {"/"})

\* The path after an authority, the only one that is saved.
PathStep(s, c) ==
    CASE c \in PChar \cup {"/"} -> To(s, <<>>)
      [] c = "%" -> Pct(s, <<>>)
      [] OTHER -> Suffix(c, <<"path">>)

QueryStep(s, c) ==
    LET entering == IF s.at = "query0" THEN <<"mark">> ELSE <<>> IN
    CASE c \in PChar \cup {"/", "?"} -> To(At("query", FALSE), entering)
      [] c = "%" -> Pct(At("query", FALSE), entering)
      [] c = "#" -> To(At("fragment0", FALSE), entering \o <<"query">>)
      [] OTHER -> Refuse

FragmentStep(s, c) ==
    LET entering == IF s.at = "fragment0" THEN <<"mark">> ELSE <<>> IN
    CASE c \in PChar \cup {"/", "?"} -> To(At("fragment", FALSE), entering)
      [] c = "%" -> Pct(At("fragment", FALSE), entering)
      [] OTHER -> Refuse

-----------------------------------------------------------------------------
(* The authority.                                                          *)

\* Mutant: an empty host is saved without marking it.
EndSavesUnmarked(s) ==
    CASE s.at \in {"colon", "port0"} -> <<"mark", "port">>
      [] s.at \in {"digits", "port"} -> <<"port">>
      [] OTHER -> <<"host">>

\* save_host or save_port, whichever ends; marking the path comes to nothing
\* where markh ran already at the same position.
EndSaves(s) ==
    CASE s.at \in {"auth0", "host0"} -> <<"mark", "host">>
      [] s.at \in {"colon", "port0"} -> <<"mark", "port">>
      [] s.at \in {"digits", "port"} -> <<"port">>
      [] OTHER -> <<"host">>

EndMarks(s) == IF s.at \in {"auth0", "host0", "colon", "port0"} \/ ~ s.abs THEN <<>> ELSE <<"mark">>

EmptyPathSaves(s) == EndSaves(s) \o EndMarks(s) \o (IF s.abs THEN <<"path">> ELSE <<>>)

EndAuthority(s, c) ==
    IF c = "/" THEN To(At(IF s.abs THEN "path" ELSE "segments", s.abs), EndSaves(s) \o EndMarks(s))
    ELSE Suffix(c, EmptyPathSaves(s))

\* One more character of a name that may still be an IPv4 address.
NameChar(s, c) ==
    CASE s.k \in 1 .. 3 /\ c = "." /\ Ended(s.o) -> [s EXCEPT !.k = @ + 1, !.o = "start"]
      [] s.k \in 1 .. 3 /\ Octet(s.o, c) # "no" -> [s EXCEPT !.o = Octet(@, c)]
      [] OTHER -> At(s.at, s.abs)

\* The first character of an authority or, after "@", of a host, and the
\* following ones as long as they may be those of a name.
NameStep(s, c) ==
    LET first == s.at \in {"auth0", "host0"}
        entering == IF first THEN <<"mark">> ELSE <<>>
        part == CASE s.at = "auth0" -> "name" [] s.at = "host0" -> "host" [] OTHER -> s.at
        at == IF first THEN [At(part, s.abs) EXCEPT !.k = 1, !.o = "start"] ELSE s
    IN
    CASE c = "[" /\ first       -> To([At("head", s.abs) EXCEPT !.k = 8], entering)
      [] c = "@" /\ part = "name" -> To(At("host0", s.abs), entering \o <<"userinfo">>)
      [] c = ":" -> To(At(IF part = "name" THEN "colon" ELSE "port0", s.abs), entering \o <<"host">>)
      [] c = "%" -> Pct(At(part, s.abs), entering)
      [] c = "STX" /\ at.o = "start" -> To([at EXCEPT !.at = "v4", !.o = "stx"], entering)
      [] c \in Plain -> To(NameChar(at, c), entering)
      [] OTHER -> EndAuthority(s, c)

\* An IPv4 address that is no name; it ends like an IP literal.
V4Step(s, c) ==
    LET ended == s.k = 4 /\ Ended(s.o) IN
    CASE c = ":" /\ ended -> To(At("port0", s.abs), <<"host">>)
      [] c \in {"/", "?", "#"} /\ ended -> EndAuthority(s, c)
      [] c = "." /\ Ended(s.o) /\ s.k < 4 -> To([s EXCEPT !.k = @ + 1, !.o = "start"], <<>>)
      [] Octet(s.o, c) # "no" -> To([s EXCEPT !.o = Octet(@, c)], <<>>)
      [] OTHER -> Refuse

EndStep(s, c) == IF c = ":" THEN To(At("port0", s.abs), <<"host">>) ELSE EndAuthority(s, c)

PortStep(s, c) ==
    IF c \in Digit THEN To(At("port", s.abs), IF s.at = "port0" THEN <<"mark">> ELSE <<>>)
    ELSE EndAuthority(s, c)

\* After the first ":": a port, or the rest of a userinfo.
PasswordStep(s, c) ==
    CASE c = "@" -> To(At("host0", s.abs), <<"userinfo">>)
      [] c \in Digit /\ s.at # "user" ->
            To(At("digits", s.abs), IF s.at = "colon" THEN <<"mark">> ELSE <<>>)
      [] c \in Plain \cup {":"} /\ (c \in Digit => s.at = "user") -> To(At("user", s.abs), <<>>)
      [] c = "%" -> Pct(At("user", s.abs), <<>>)
      [] OTHER -> IF s.at = "user" THEN Refuse ELSE EndAuthority(s, c)

-----------------------------------------------------------------------------
(* The blocks of the machine.                                              *)

InLiteral == cs.at \in {"head", "tail", "colon1", "lead", "quad", "future"}

Consume(c, step) ==
    /\ IF InLiteral THEN p' = p ELSE p < MaxLen /\ p' = p + 1
    /\ cs' = step.to
    /\ m' = Number(Actions(step.do), step.to, c) /\ m'.num <= MaxNumber
    /\ phase' = IF m'.thrown THEN "thrown" ELSE IF step.to = Error THEN "rejected" ELSE "read"
    /\ ref' = RefStep(ref, p, c)

\* The next character is read by the part of the grammar at hand.
Read(parts, abs) == phase = "read" /\ cs.at \in parts /\ cs.abs = abs /\ cs.pct = 0

Start    == Read({"start"}, FALSE) /\ \E c \in Chars : Consume(c, StartStep(cs, c))
Scheme   == Read({"scheme"}, TRUE) /\ \E c \in Chars : Consume(c, SchemeStep(cs, c))
First    == Read({"first"}, FALSE) /\ \E c \in Chars : Consume(c, FirstStep(cs, c))
Hier ==
    \/ Read({"hier"}, TRUE) /\ \E c \in Chars : Consume(c, HierStep(cs, c))
    \/ Read({"slash"}, TRUE) /\ \E c \in Chars : Consume(c, SlashStep(cs, c))
Slash    == Read({"slash"}, FALSE) /\ \E c \in Chars : Consume(c, SlashStep(cs, c))
Segments == Read({"segments"}, FALSE) /\ \E c \in Chars : Consume(c, SegmentsStep(cs, c))
Path     == Read({"path"}, TRUE) /\ \E c \in Chars : Consume(c, PathStep(cs, c))
Query    == Read({"query0", "query"}, FALSE) /\ \E c \in Chars : Consume(c, QueryStep(cs, c))
Fragment == Read({"fragment0", "fragment"}, FALSE) /\ \E c \in Chars : Consume(c, FragmentStep(cs, c))

RelAuthority == Read({"auth0"}, FALSE) /\ \E c \in Chars : Consume(c, NameStep(cs, c))
RelName      == Read({"name"}, FALSE) /\ \E c \in Chars : Consume(c, NameStep(cs, c))
RelPassword  == Read({"colon", "digits", "user"}, FALSE) /\ \E c \in Chars : Consume(c, PasswordStep(cs, c))
RelHost      == Read({"host0", "host"}, FALSE) /\ \E c \in Chars : Consume(c, NameStep(cs, c))
RelV4        == Read({"v4"}, FALSE) /\ \E c \in Chars : Consume(c, V4Step(cs, c))
RelPort ==
    \/ Read({"end"}, FALSE) /\ \E c \in Chars : Consume(c, EndStep(cs, c))
    \/ Read({"port0", "port"}, FALSE) /\ \E c \in Chars : Consume(c, PortStep(cs, c))
RelV6Head    == Read({"head"}, FALSE) /\ \E c \in Chars : Consume(c, V6Head(cs, c))
RelV6Tail    == Read({"tail"}, FALSE) /\ \E c \in Chars : Consume(c, V6Tail(cs, c))
RelV6Lead    == Read({"colon1", "lead"}, FALSE) /\ \E c \in Chars : Consume(c, V6Lead(cs, c))
RelQuad      == Read({"quad"}, FALSE) /\ \E c \in Chars : Consume(c, Quad(cs, c))
RelFuture    == Read({"future"}, FALSE) /\ \E c \in Chars : Consume(c, Future(cs, c))

AbsAuthority == Read({"auth0"}, TRUE) /\ \E c \in Chars : Consume(c, NameStep(cs, c))
AbsName      == Read({"name"}, TRUE) /\ \E c \in Chars : Consume(c, NameStep(cs, c))
AbsPassword  == Read({"colon", "digits", "user"}, TRUE) /\ \E c \in Chars : Consume(c, PasswordStep(cs, c))
AbsHost      == Read({"host0", "host"}, TRUE) /\ \E c \in Chars : Consume(c, NameStep(cs, c))
AbsV4        == Read({"v4"}, TRUE) /\ \E c \in Chars : Consume(c, V4Step(cs, c))
AbsPort ==
    \/ Read({"end"}, TRUE) /\ \E c \in Chars : Consume(c, EndStep(cs, c))
    \/ Read({"port0", "port"}, TRUE) /\ \E c \in Chars : Consume(c, PortStep(cs, c))
AbsV6Head    == Read({"head"}, TRUE) /\ \E c \in Chars : Consume(c, V6Head(cs, c))
AbsV6Tail    == Read({"tail"}, TRUE) /\ \E c \in Chars : Consume(c, V6Tail(cs, c))
AbsV6Lead    == Read({"colon1", "lead"}, TRUE) /\ \E c \in Chars : Consume(c, V6Lead(cs, c))
AbsQuad      == Read({"quad"}, TRUE) /\ \E c \in Chars : Consume(c, Quad(cs, c))
AbsFuture    == Read({"future"}, TRUE) /\ \E c \in Chars : Consume(c, Future(cs, c))

\* The two hex digits after "%", wherever it came.
PctEncoded ==
    /\ phase = "read" /\ cs.pct > 0
    /\ \E c \in Chars : Consume(c, IF c \in Hex THEN To([cs EXCEPT !.pct = @ - 1], <<>>) ELSE Refuse)

\* The places in which the input may end, and what is saved there.
Final(s) ==
    /\ s.pct = 0
    /\ s.at \notin {"user", "head", "tail", "colon1", "lead", "quad", "future"}
    /\ s.at = "v4" => s.k = 4 /\ Ended(s.o)

EofSaves(s) ==
    CASE s.at \in {"start", "scheme", "first", "hier", "slash", "segments"} -> <<>>
      [] s.at = "query0" -> <<"mark", "query">>
      [] s.at = "fragment0" -> <<"mark", "fragment">>
      [] s.at \in {"path", "query", "fragment"} -> <<s.at>>
      [] OTHER -> EmptyPathSaves(s)

Eof ==
    /\ phase = "read"
    /\ m' = IF Final(cs) THEN Actions(EofSaves(cs)) ELSE m
    /\ phase' = IF ~ Final(cs) THEN "rejected" ELSE IF m'.thrown THEN "thrown" ELSE "accepted"
    /\ ref' = RefEnd(ref, p)
    /\ UNCHANGED <<cs, p>>

Relative == RelAuthority \/ RelName \/ RelPassword \/ RelHost \/ RelV4 \/ RelPort
               \/ RelV6Head \/ RelV6Tail \/ RelV6Lead \/ RelQuad \/ RelFuture
Absolute == AbsAuthority \/ AbsName \/ AbsPassword \/ AbsHost \/ AbsV4 \/ AbsPort
               \/ AbsV6Head \/ AbsV6Tail \/ AbsV6Lead \/ AbsQuad \/ AbsFuture
Next == Start \/ Scheme \/ First \/ Hier \/ Slash \/ Segments \/ Path \/ Query \/ Fragment
           \/ Relative \/ Absolute \/ PctEncoded \/ Eof

Spec == Init /\ [][Next]_vars

-----------------------------------------------------------------------------
TypeOK ==
    /\ phase \in {"read", "accepted", "rejected", "thrown"}
    /\ cs.pct \in 0 .. 2 /\ cs.k \in 0 .. 8 /\ cs.d \in 0 .. 4
    /\ p \in 0 .. MaxLen /\ m.mark \in -1 .. p /\ m.port \in 0 .. PortRange - 1
    /\ \A field \in {"scheme", "userinfo", "host", "path", "query", "fragment"} :
          m[field] = NoSpan \/ \E i \in 0 .. p : \E j \in i .. p : m[field] = <<i, j>>

\* What create() returns has each field where RFC 3986 has it (uri.rl:20-131):
\* the marks are never those of another field.  The program keeps a path only
\* after a scheme and an authority.  The userinfo is not stated where it has a
\* password that begins with a digit: the program takes that for a port and
\* loses the beginning of the userinfo.  A port beyond 16 bits is taken modulo
\* 2^16.  A field is saved without a mark, and create() throws, for one kind of
\* input only: a scheme, an authority and an empty port (uri.rl:33: save_port
\* clears the mark that the path has set).
FieldsExact ==
    /\ TypeOK
    /\ phase = "accepted" =>
          LET OrElse(i, j) == IF i = None THEN j ELSE i
              auth == ref.auth # None
          IN
          /\ m.scheme = IF ref.scheme = None THEN NoSpan ELSE <<0, ref.scheme>>
          /\ NumericPassword(ref) \/ m.userinfo = IF ref.at = None THEN NoSpan ELSE <<ref.auth, ref.at>>
          /\ m.host = IF auth THEN <<HostStart(ref), OrElse(ref.colon, ref.end)>> ELSE NoSpan
          /\ m.port = ref.num % PortRange
          /\ m.path = IF auth /\ ref.scheme # None THEN <<ref.end, OrElse(ref.q, OrElse(ref.f, p))>> ELSE NoSpan
          /\ m.query = IF ref.q = None THEN NoSpan ELSE <<ref.q + 1, OrElse(ref.f, p)>>
          /\ m.fragment = IF ref.f = None THEN NoSpan ELSE <<ref.f + 1, p>>
    /\ phase = "thrown" => ref.scheme # None /\ ref.colon # None /\ ref.end = ref.colon + 1

\* The machine decides what RFC 3986 decides.  It accepts something else only
\* for the byte 2 (uri.rl:52: it stands where the digit 2 is meant), and
\* rejects something valid only in an IPv6 literal: one where a "::" after a
\* group stands for more than one (uri.rl:56-63 has {n} where the RFC has at
\* most n), and one with an octet from 200 to 249.  The reference does not read
\* IPvFuture.
Decides ==
    /\ phase \in {"accepted", "thrown"} => ref.valid \/ ref.stx \/ ref.future
    /\ phase = "rejected" => ~ ref.valid \/ ref.mid \/ ref.octet2 \/ ref.future
=============================================================================
