-------------------------------- MODULE Socket --------------------------------
(***************************************************************************)
(* Socket objects (net/socket.cpp) and the sockets of the kernel they      *)
(* stand for.  An object keeps the number of its socket, -1 when it has    *)
(* none; the kernel gives a number out again once it is closed, so that a  *)
(* number somebody still has may stand for the socket of another object.   *)
(* The options, the addresses and the transfer of data are left out.       *)
(***************************************************************************)
EXTENDS Integers, FiniteSets

CONSTANTS
    Numbers,     \* descriptor numbers of the kernel
    MaxObjects,  \* bound: socket objects that are made
    MaxPeers     \* bound: connections that peers ask for

ASSUME SocketAssumption ==
    /\ Numbers \subseteq Nat \ {0} /\ IsFiniteSet(Numbers)
    /\ MaxObjects \in Nat /\ MaxPeers \in Nat

VARIABLES
    m_sockfd,       \* the number that each object has, or -1
    m_is_connected,
    owner,          \* kernel: the object for which a number was opened, or 0
    listening,      \* kernel: objects whose socket listens
    backlog,        \* kernel: connections that wait for accept()
    objects,        \* how many objects were made
    peers           \* how many connections peers asked for

sockVars == <<m_sockfd, m_is_connected, owner, listening, backlog, objects, peers>>

Objects == 1 .. MaxObjects

SocketInit ==
    /\ m_sockfd = [o \in Objects |-> -1]
    /\ m_is_connected = [o \in Objects |-> FALSE]
    /\ owner = [n \in Numbers |-> 0]
    /\ listening = {} /\ backlog = [o \in Objects |-> 0]
    /\ objects = 0 /\ peers = 0

SocketTypeOK ==
    /\ m_sockfd \in [Objects -> Numbers \cup {-1}]
    /\ m_is_connected \in [Objects -> BOOLEAN]
    /\ owner \in [Numbers -> 0 .. MaxObjects]
    /\ listening \subseteq Objects /\ backlog \in [Objects -> 0 .. MaxPeers]
    /\ objects \in 0 .. MaxObjects /\ peers \in 0 .. MaxPeers

IsValid(o) == m_sockfd[o] # -1
FreeNumbers == {n \in Numbers : owner[n] = 0}

\* socket() or accept() of the kernel for object o: any number nobody has.
Opened(o, n) ==
    /\ n \in FreeNumbers
    /\ owner' = [owner EXCEPT ![n] = o]
    /\ m_sockfd' = [m_sockfd EXCEPT ![o] = n]

\* Socket::accept() on number fd finds a connection: a new object with a
\* number of its own, init() included.
AcceptInto(o, n, fd) ==
    /\ o = objects + 1 /\ o \in Objects /\ objects' = o
    /\ backlog[owner[fd]] > 0
    /\ Opened(o, n)
    /\ m_is_connected' = [m_is_connected EXCEPT ![o] = TRUE]
    /\ backlog' = [backlog EXCEPT ![owner[fd]] = @ - 1]
    /\ UNCHANGED <<listening, peers>>

\* accept_f() does not find one: the number is closed, not of a socket that
\* listens, or the kernel has no number left.
AcceptFails(fd) ==
    \/ owner[fd] \notin listening
    \/ owner[fd] \in listening /\ backlog[owner[fd]] > 0 /\ FreeNumbers = {}

WouldBlock(fd) == owner[fd] \in listening /\ backlog[owner[fd]] = 0

\* A peer asks a listening socket for a connection.
PeerConnects(o) ==
    /\ peers < MaxPeers /\ o \in listening
    /\ peers' = peers + 1
    /\ backlog' = [backlog EXCEPT ![o] = @ + 1]
    /\ UNCHANGED <<m_sockfd, m_is_connected, owner, listening, objects>>
=============================================================================
