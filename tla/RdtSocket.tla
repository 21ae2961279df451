------------------------------ MODULE RdtSocket ------------------------------
(***************************************************************************)
(* rdtIPConverter.{h,c} of SysNet2/P2/new: the packet of the reliable      *)
(* transfer protocol and the UDP sockets its three processes (sender,      *)
(* receiver, network simulator) own.  The kernel under the sockets is      *)
(* external: a datagram is queued at the socket it is addressed to when    *)
(* that socket is bound and its buffer has room, and is dropped otherwise; *)
(* datagrams between two processes keep their order.                       *)
(*                                                                         *)
(* A process name stands for its host address and for its port: a packet   *)
(* header carries the two separately, as the code does.  The characters of *)
(* the message are the positions 1..MsgLen, so a fragment is the pair      *)
(* at, len of msgFrag: the characters at+1 .. at+len.                      *)
(***************************************************************************)
EXTENDS Integers, Sequences

CONSTANTS
    MsgLen,             \* strlen(message), what fgets leaves in typedMsg
    FRAG_SIZE,          \* sizeof(pkt.msgFrag), 8 in the code
    MAX_MSG_SIZE,       \* size of both message buffers, 2000 in the code
    SENDER_TIMEOUT,     \* SENDER_TIMEOUT_MS in ticks of the clock
    TIMEOUT_INTERVAL,   \* delay of a delayed packet in ticks
    SOCK_BUF,           \* datagrams a socket's kernel buffer holds
    SocketErrors        \* may calls on a socket fail?

ASSUME MessageAssumption ==
    /\ FRAG_SIZE \in Nat \ {0}
    /\ MAX_MSG_SIZE \in Nat
    /\ MsgLen \in 0 .. (MAX_MSG_SIZE - 1)

ASSUME SocketAssumption ==
    /\ SENDER_TIMEOUT \in Nat \ {0}
    /\ TIMEOUT_INTERVAL \in Nat
    /\ SOCK_BUF \in Nat \ {0}
    /\ SocketErrors \in BOOLEAN

VARIABLES
    sock,   \* sock[p]: datagrams waiting in p's UDP socket, oldest first
    bound   \* processes whose socket is created and bound

sockVars == <<sock, bound>>

Procs == {"sender", "receiver", "network"}
Addr == Procs \cup {"any"}         \* "any": INADDR_ANY, printed 0.0.0.0

rdpPacket ==
    [srcIP : Addr, srcPort : Procs, destIP : Addr, destPort : Procs,
     ack : {0, 1}, corrupt : {0, 1}, at : 0..MsgLen, len : 0..FRAG_SIZE]

Datagram == [rcvdFrom : Procs, pkt : rdpPacket]

SocketTypeOK ==
    /\ sock \in [Procs -> Seq(Datagram)]
    /\ bound \in SUBSET Procs

SocketInit ==
    /\ sock = [p \in Procs |-> << >>]
    /\ bound = {}

Smaller(a, b) == IF a <= b THEN a ELSE b

\* What a system call may answer: failure only where sockets may fail.
Works == IF SocketErrors THEN BOOLEAN ELSE {TRUE}

\* The kernel hands a datagram to the process at address ip, port.
Delivered(s, ip, port, datagram) ==
    IF ip = port /\ port \in bound /\ Len(s[port]) < SOCK_BUF
    THEN [s EXCEPT ![port] = Append(@, datagram)]
    ELSE s

\* sendPacket: p hands pkt to its socket, addressed to nextDest ip, port.
sendPacket(s, p, pkt, ip, port) ==
    Delivered(s, ip, port, [rcvdFrom |-> p, pkt |-> pkt])

\* The recvfrom of getNextRDPPacket takes the oldest datagram of p.
Received(s, p) == [s EXCEPT ![p] = Tail(@)]

\* close(netSock), or the exit of process p: what is queued is gone.
Closed(s, p) == [s EXCEPT ![p] = << >>]

\* sendFragment: the packet with the characters after position at.
FragmentLen(at) == Smaller(FRAG_SIZE, MsgLen - at)

Fragment(at, ack) ==
    [srcIP |-> "any", srcPort |-> "sender",
     destIP |-> "receiver", destPort |-> "receiver",
     ack |-> ack, corrupt |-> 0, at |-> at, len |-> FragmentLen(at)]

\* The first n characters of the message, and those a fragment carries.
Text(n) == [i \in 1..n |-> i]
Chars(at, len) == [i \in 1..len |-> at + i]

=============================================================================
