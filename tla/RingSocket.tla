----------------------------- MODULE RingSocket ------------------------------
(***************************************************************************)
(* The UDP datagrams of the token ring of SysNet2/P1.  The kernel is       *)
(* external: it queues a datagram at a bound socket, in the order of       *)
(* arrival, and drops one for a socket that is not bound.  None is lost.   *)
(***************************************************************************)
EXTENDS Integers, Sequences, FiniteSets

CONSTANTS
    Peers,      \* the clients that the server waits for
    Server,     \* the server
    Nowhere     \* the address of no process

MAXCLIENTSALLOWED == 12

ASSUME RingAssumption ==
    /\ IsFiniteSet(Peers) /\ Cardinality(Peers) \in 1..MAXCLIENTSALLOWED
    /\ Server \notin Peers /\ Nowhere \notin Peers \cup {Server}

VARIABLES
    sock,   \* datagrams waiting at each process, oldest first
    bound   \* the processes whose socket is open

sockVars == <<sock, bound>>

Processes == Peers \cup {Server}
clientsExp == Cardinality(Peers)

\* A client's hello to the server; what the server tells a client about
\* another (host name and port) and about the token; the token itself.
Hello(p) == [kind |-> "hello", val |-> p]
Host(p)  == [kind |-> "host", val |-> p]
Port(p)  == [kind |-> "port", val |-> p]
TokenFlag(b) == [kind |-> IF b THEN "token=1" ELSE "token=0", val |-> Nowhere]
TOKEN    == [kind |-> "TOKEN", val |-> Nowhere]

Datagram ==
    [kind : {"hello", "host", "port", "token=1", "token=0", "TOKEN"},
     val : Peers \cup {Nowhere}]

SocketTypeOK ==
    /\ sock \in [Processes -> Seq(Datagram)]
    /\ bound \in SUBSET Processes

SocketInit ==
    /\ sock = [p \in Processes |-> << >>]
    /\ bound = Processes

\* sendto
Sent(s, p, datagram) ==
    IF p \in bound THEN [s EXCEPT ![p] = Append(@, datagram)] ELSE s

\* recvfrom
Received(s, p) == [s EXCEPT ![p] = Tail(@)]

=============================================================================
