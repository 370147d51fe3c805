------------------------------- MODULE MCStream -------------------------------
(* Small instance of Stream, and of the ByteArray under it, for TLC.       *)
EXTENDS Stream, TLC

\* Bytes of four bits, of which three are payload; numbers of eight bits.
SomeStrings == {<<1>>, <<2, 9, 3>>}
SomeNumbers == {9, 200}
SomeFresh   == {0, 15}
FromPeer    == <<4, 5, 6>>
=============================================================================
