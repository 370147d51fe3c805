------------------------------- MODULE IPLiteral -------------------------------
(***************************************************************************)
(* The parts of the generated machine of net/uri.rl.cpp that read numeric  *)
(* hosts: an IPv4 address, and what stands between "[" and "]".            *)
(*                                                                         *)
(* A character is the class of characters that the machine never tells     *)
(* apart, named by one of them: "3" is 3 or 4, "6" is 6 to 9, "a" a to f,  *)
(* "g" the other letters but v, "-" is - or +, "_" any other character of  *)
(* a name, "x" one that is allowed nowhere, "hi" one beyond ASCII, "STX"   *)
(* the byte 2 that dec_octet asks for where it means the digit 2.          *)
(*                                                                         *)
(* A place of the machine is a record: at, the part of the grammar; abs,   *)
(* whether a scheme was read (the machine has a copy of the authority for  *)
(* each case); pct, the hex digits of "%" that are still to come; and the  *)
(* counters k, d and o of numeric hosts.                                   *)
(***************************************************************************)
EXTENDS Integers

Digit == {"0", "1", "2", "3", "5", "6"}
Hex   == Digit \cup {"a"}
Alpha == {"a", "g", "v"}
Plain == Alpha \cup Digit \cup {"-", ".", "_"}    \* unreserved and sub_delims
PChar == Plain \cup {":", "@", "hi"}
Chars == PChar \cup {"/", "?", "#", "[", "]", "%", "STX", "x"}

At(part, abs) == [at |-> part, abs |-> abs, pct |-> 0, k |-> 0, d |-> 0, o |-> "no"]

\* A step of the machine: the place it goes to and the actions it runs.
To(s, do) == [to |-> s, do |-> do]
Error == At("error", FALSE)
Refuse == To(Error, <<>>)

-----------------------------------------------------------------------------
(* dec_octet, by how many digits may follow.                               *)

OctetStart(c) ==
    CASE c = "STX" -> "stx"
      [] c = "0"   -> "full"
      [] c = "1"   -> "two"
      [] c = "2"   -> "200"
      [] c \in {"3", "5", "6"} -> "one"
      [] OTHER -> "no"

\* Mutant: an octet ends with 254.
OctetBelow255(o, c) ==
    IF o = "start" THEN OctetStart(c)
    ELSE IF c \notin Digit THEN "no"
    ELSE
    CASE o \in {"one", "stx2"} -> "full"
      [] o = "two" -> "one"
      [] o = "200" -> IF c = "5" THEN "25" ELSE "full"
      [] o = "25"  -> IF c \in {"5", "6"} THEN "no" ELSE "full"
      [] o = "stx" -> IF c \in {"5", "6"} THEN "no" ELSE "stx2"
      [] OTHER -> "no"

Octet(o, c) ==
    IF o = "start" THEN OctetStart(c)
    ELSE IF c \notin Digit THEN "no"
    ELSE
    CASE o = "two" -> "one"
      [] o = "one" -> "full"
      [] o = "200" -> IF c = "5" THEN "25" ELSE "full"
      [] o = "25"  -> IF c = "6" THEN "no" ELSE "full"
      [] o = "stx" -> IF c \in {"5", "6"} THEN "no" ELSE "stx2"
      [] o = "stx2" -> "full"
      [] OTHER -> "no"

Ended(o) == o \in {"full", "one", "two", "200", "25"}

\* The four octets of an address that ends an IPv6 address.
Quad(s, c) ==
    CASE c = "." /\ Ended(s.o) /\ s.k < 4 -> To([s EXCEPT !.k = @ + 1, !.o = "start"], <<>>)
      [] c = "]" /\ Ended(s.o) /\ s.k = 4 -> To(At("end", s.abs), <<>>)
      [] Octet(s.o, c) # "no"             -> To([s EXCEPT !.o = Octet(s.o, c)], <<>>)
      [] OTHER -> Refuse

-----------------------------------------------------------------------------
(* IPv6address: k groups are still to come, the current one has d digits,  *)
(* and o says whether they may be those of an octet.                       *)

\* One more digit; an IPv4 address may take the place of two groups.
GroupDigit(s, c, quad) ==
    CASE c \in Hex /\ s.d < 4 /\ s.k > 0 ->
            To([s EXCEPT !.d = @ + 1,
                         !.o = IF s.d > 0 THEN Octet(@, c)
                               ELSE IF quad THEN OctetStart(c) ELSE "no"], <<>>)
      [] c = "STX" /\ s.d = 0 /\ quad -> To([At("quad", s.abs) EXCEPT !.k = 1, !.o = "stx"], <<>>)
      [] c = "." /\ Ended(s.o)        -> To([At("quad", s.abs) EXCEPT !.k = 2, !.o = "start"], <<>>)
      [] OTHER -> Refuse

NextGroup(s) == To([s EXCEPT !.k = @ - 1, !.d = 0, !.o = "no"], <<>>)

\* Before any "::".  It stands for one group exactly when one came before it.
V6Head(s, c) ==
    CASE c = "v" /\ s.k = 8 /\ s.d = 0 -> To(At("future", s.abs), <<>>)
      [] c = ":" /\ s.k = 8 /\ s.d = 0 -> To(At("colon1", s.abs), <<>>)
      [] c = ":" /\ s.k # 8 /\ s.d = 0 -> NextGroup([s EXCEPT !.at = "tail"])
      [] c = ":" /\ s.d > 0 /\ s.k > 1 -> NextGroup(s)
      [] c = "]" /\ s.d > 0 /\ s.k = 1 -> To(At("end", s.abs), <<>>)
      [] OTHER -> GroupDigit(s, c, s.k = 2)

\* After a "::" that followed a group.
V6Tail(s, c) ==
    CASE c = ":" /\ s.d > 0 /\ s.k > 1           -> NextGroup(s)
      [] c = "]" /\ s.k = (IF s.d > 0 THEN 1 ELSE 0) -> To(At("end", s.abs), <<>>)
      [] OTHER -> GroupDigit(s, c, s.k = 2)

\* After a "::" at the beginning: any number of groups up to seven.
V6Lead(s, c) ==
    IF s.at = "colon1" THEN IF c = ":" THEN To([At("lead", s.abs) EXCEPT !.k = 7], <<>>) ELSE Refuse
    ELSE
    CASE c = ":" /\ s.d > 0 /\ s.k > 1  -> NextGroup(s)
      [] c = "]" /\ (s.d > 0 \/ s.k = 7) -> To(At("end", s.abs), <<>>)
      [] OTHER -> GroupDigit(s, c, s.k > 1)

\* IPvFuture, after the "v".
Future(s, c) ==
    CASE s.d < 2 /\ c \in Hex                  -> To([s EXCEPT !.d = 1], <<>>)
      [] s.d = 1 /\ c = "."                    -> To([s EXCEPT !.d = 2], <<>>)
      [] s.d > 1 /\ c \in Plain \cup {":"}     -> To([s EXCEPT !.d = 3], <<>>)
      [] s.d = 3 /\ c = "]"                    -> To(At("end", s.abs), <<>>)
      [] OTHER -> Refuse
=============================================================================
