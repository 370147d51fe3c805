--------------------------------- MODULE Stream ---------------------------------
(***************************************************************************)
(* Reading and writing whole blocks over a socket (util/stream.cpp) with   *)
(* the transfers of net/socketstream.cpp, into and out of a byte array or  *)
(* plain memory.  The socket moves as many bytes at a time as it likes,    *)
(* and may fail or be closed between two transfers.                        *)
(***************************************************************************)
EXTENDS ByteArray

CONSTANTS
    Peer,       \* the bytes that the other side sends
    MaxLen      \* bound: bytes of one block

ASSUME StreamAssumption == Peer \in Seq(Byte) /\ MaxLen \in Nat

VARIABLES
    m_is_connected,
    received,   \* how many bytes of Peer were received
    sent,       \* the bytes that were sent
    job         \* the readF() or writeF() in progress, or the last one

streamVars == <<m_is_connected, received, sent, job>>
allVars == <<vars, streamVars>>

NoJob == [kind |-> "none", memory |-> FALSE, start |-> 0, len |-> 0, left |-> 0,
          moved |-> <<>>, state |-> "idle"]

StreamInit ==
    /\ Init
    /\ m_is_connected = TRUE /\ received = 0 /\ sent = <<>>
    /\ job = NoJob

Smaller(a, b) == IF a < b THEN a ELSE b
Data(n) == SubSeq(Peer, received + 1, received + n)

\* readF(), writeF(): len bytes of the array or of the caller's memory.
Begin(kind, memory, len) ==
    /\ job.state # "run" /\ calls < MaxCalls
    /\ calls' = calls + 1
    /\ job' = [kind |-> kind, memory |-> memory, start |-> m_position, len |-> len,
               left |-> len, moved |-> <<>>, state |-> IF len = 0 THEN "done" ELSE "run"]
    /\ last' = Nothing
    /\ UNCHANGED <<arrayVars, m_little, ret, m_is_connected, received, sent>>

\* One round of the loop that moved the bytes s.
Moved(s) ==
    job' = [job EXCEPT !.left = @ - Len(s), !.moved = @ \o s,
                       !.state = IF job.left = Len(s) THEN "done" ELSE "run"]
InLoop(kind) == job.state = "run" /\ job.kind = kind /\ UNCHANGED <<calls, last, m_little>>

\* Mutant of ReadRound: the position stays in front of the bytes.
ReadRoundStays(n) ==
    /\ InLoop("read") /\ m_is_connected /\ ~ job.memory
    /\ n \in 1 .. Smaller(job.left, Len(Peer) - received)
    /\ \E j \in Fresh :
          LET ns == Grown(job.left, j) IN
          /\ AddTotalSize(job.left, j)
          /\ nodes' = Store(ns, CurGrown(job.left), Offset, Data(n))
          /\ m_cur' = CurGrown(job.left)
    /\ Moved(Data(n)) /\ ret' = Data(n) /\ received' = received + n
    /\ UNCHANGED <<m_position, m_data_size, m_is_connected, sent>>

\* SocketStream::read() into the array: getWriteBuffers() for all that is
\* left, recv() of n bytes into them, setPosition() behind these.
ReadRound(n) ==
    /\ InLoop("read") /\ m_is_connected /\ ~ job.memory
    /\ n \in 1 .. Smaller(job.left, Len(Peer) - received)
    /\ \E j \in Fresh :
          LET ns == Grown(job.left, j) IN
          /\ AddTotalSize(job.left, j)
          /\ nodes' = Store(ns, CurGrown(job.left), Offset, Data(n))
          /\ m_cur' = NodeOrNull(((m_position + n) \div m_node_size) + 1, ns)
    /\ m_position' = m_position + n
    /\ m_data_size' = Larger(m_data_size, m_position + n)
    /\ Moved(Data(n)) /\ ret' = Data(n) /\ received' = received + n
    /\ UNCHANGED <<m_is_connected, sent>>

\* The same into memory.
ReadMemory(n) ==
    /\ InLoop("read") /\ m_is_connected /\ job.memory
    /\ n \in 1 .. Smaller(job.left, Len(Peer) - received)
    /\ Moved(Data(n)) /\ received' = received + n
    /\ UNCHANGED <<arrayVars, ret, m_is_connected, sent>>

\* SocketStream::write() of the array: getReadBuffers() of what is left, send()
\* of n bytes of it, setPosition().
WriteRound(n) ==
    /\ InLoop("write") /\ m_is_connected /\ ~ job.memory
    /\ n \in 1 .. Smaller(job.left, GetReadSize)
    /\ LET out == SubSeq(BytesOf(Buffers(m_cur, Offset, Smaller(job.left, GetReadSize))), 1, n)
       IN  Moved(out) /\ ret' = out /\ sent' = sent \o out
    /\ Seek(m_position + n)
    /\ UNCHANGED <<m_is_connected, received>>

\* recv() or send() returns 0 or -1, or the socket is not connected: the loop
\* returns that.  Room that was made for a read stays.
Stops ==
    /\ job.state = "run" /\ UNCHANGED <<calls, last, m_little>>
    /\ job' = [job EXCEPT !.state = "failed"]
    /\ IF job.kind = "read" /\ m_is_connected /\ ~ job.memory
       THEN Reserve(job.left)
       ELSE UNCHANGED <<arrayVars, ret>>
    /\ UNCHANGED <<m_is_connected, received, sent>>

\* Another fiber closes the socket.
Disconnect ==
    /\ m_is_connected' = FALSE /\ m_is_connected
    /\ UNCHANGED <<vars, received, sent, job>>

StreamNext ==
    \/ job.state # "run" /\ Next /\ job' = NoJob /\ UNCHANGED <<m_is_connected, received, sent>>
    \/ \E len \in 0 .. MaxLen, m \in BOOLEAN : Begin("read", m, len)
    \/ \E len \in 1 .. MaxLen : Begin("write", FALSE, len)
    \/ \E n \in 1 .. MaxLen : ReadRound(n) \/ ReadMemory(n) \/ WriteRound(n)
    \/ Stops
    \/ Disconnect

StreamSpec == StreamInit /\ [][StreamNext]_allVars

-----------------------------------------------------------------------------
\* However the socket splits a block and wherever the nodes end, the bytes
\* that were moved are the ones the array has between the start of the block
\* and its position, a block that is reported as whole is whole, and one that
\* failed half-way has moved the position by exactly what was transferred
\* (stream.cpp:31, socketstream.cpp:38).
TransferExact ==
    job.kind # "none" =>
        /\ Len(job.moved) = job.len - job.left
        /\ job.state = "done" => Len(job.moved) = job.len
        /\ ~ job.memory =>
              /\ m_position = job.start + Len(job.moved)
              /\ job.moved = SubSeq(Content, job.start + 1, m_position)
=============================================================================
