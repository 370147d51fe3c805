------------------------------ MODULE ByteBuffer ------------------------------
(***************************************************************************)
(* What a byte array promises its user: one string of bytes and a position *)
(* in it, however the bytes are spread over memory.                        *)
(***************************************************************************)
EXTENDS Integers, Sequences

VARIABLES
    bytes,  \* the string
    pos,    \* how many bytes of it are in front of the position
    ret     \* what the last call moved, or Throw

vars == <<bytes, pos, ret>>

\* An exception instead of bytes.
Throw == <<-1>>

Init == bytes = <<>> /\ pos = 0 /\ ret = <<>>

\* The bytes at the position are replaced, the string grows as it has to.
Put ==
    \E n \in 0 .. pos' - pos :
        /\ n = pos' - pos
        /\ bytes' = SubSeq(bytes, 1, pos) \o SubSeq(bytes', pos + 1, pos + n)
                        \o SubSeq(bytes, pos + n + 1, Len(bytes))
        /\ ret' = SubSeq(bytes', pos + 1, pos + n)

Take ==
    /\ pos' \in pos .. Len(bytes)
    /\ ret' = SubSeq(bytes, pos + 1, pos')
    /\ UNCHANGED bytes

\* Not enough bytes: what was asked for in parts may be gone in part.
Fail ==
    /\ pos' \in pos .. Len(bytes)
    /\ ret' = Throw
    /\ UNCHANGED bytes

\* Bytes nobody wrote come in when the position is moved beyond the end.
Seek ==
    /\ pos' \in Nat
    /\ Len(bytes') = IF pos' > Len(bytes) THEN pos' ELSE Len(bytes)
    /\ SubSeq(bytes', 1, Len(bytes)) = bytes
    /\ ret' = <<>>

Drop == bytes' = <<>> /\ pos' = 0 /\ ret' = <<>>

Next == Put \/ Take \/ Fail \/ Seek \/ Drop

Spec == Init /\ [][Next]_vars
=============================================================================
