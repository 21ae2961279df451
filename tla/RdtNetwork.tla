----------------------------- MODULE RdtNetwork ------------------------------
(***************************************************************************)
(* processLoop of rdtNetwork.c with the delay threads of rdtIPConverter.c: *)
(* the simulator both endpoints send through.  A random draw with chance p *)
(* is a choice over the outcomes p allows.  The packet counters, printed   *)
(* and never read, are left out.                                           *)
(***************************************************************************)
EXTENDS RdtSocket

CONSTANTS LostPercent, DelayedPercent, ErrorPercent,   \* command line
          MaxDelayed    \* bound: delay threads alive at once

ASSUME PercentAssumption ==
    /\ {LostPercent, DelayedPercent, ErrorPercent} \subseteq 0..100
    /\ MaxDelayed \in Nat

VARIABLES
    netStatus,  \* "setup", "running" or "stopped"
    delayed     \* one record per delay thread, oldest first

networkVars == <<netStatus, delayed>>

DelayThread ==
    [pkt : rdpPacket, ip : Addr, port : Procs, left : 0..TIMEOUT_INTERVAL]

NetworkTypeOK ==
    /\ netStatus \in {"setup", "running", "stopped"}
    /\ delayed \in Seq(DelayThread)

NetworkInit == netStatus = "setup" /\ delayed = << >>

\* randomChance: random() % 100 < trueChance.
randomChance(trueChance) ==
    {b \in BOOLEAN : IF b THEN trueChance > 0 ELSE trueChance < 100}

\* initRDPSocket; the process ends when it fails.
NetworkSetup ==
    /\ netStatus = "setup"
    /\ \E works \in Works :
          IF works
          THEN netStatus' = "running" /\ bound' = bound \cup {"network"}
          ELSE netStatus' = "stopped" /\ UNCHANGED bound
    /\ UNCHANGED <<sock, delayed>>

\* Mutant of Stamped: the source address is left as the sender wrote it.
StampedNoSource(d, corrupt) ==
    [d.pkt EXCEPT !.corrupt = IF corrupt THEN 1 ELSE 0]

\* The corrupt flag is drawn afresh and the source address becomes the one
\* the datagram came from; the source port stays what its sender wrote.
Stamped(d, corrupt) ==
    [d.pkt EXCEPT !.corrupt = IF corrupt THEN 1 ELSE 0, !.srcIP = d.rcvdFrom]

\* The branches for a packet that is not lost: forwarded now, by a thread
\* later, or not at all when the destination host cannot be resolved.
ForwardNow(pkt) ==
    /\ FALSE \in randomChance(DelayedPercent)
    /\ sock' = sendPacket(Received(sock, "network"), "network", pkt,
                          pkt.destIP, pkt.destPort)
    /\ UNCHANGED delayed

ForwardLater(pkt) ==
    /\ TRUE \in randomChance(DelayedPercent)
    /\ Len(delayed) < MaxDelayed
    /\ sock' = Received(sock, "network")
    /\ delayed' = Append(delayed, [pkt |-> pkt, ip |-> pkt.destIP,
                                   port |-> pkt.destPort,
                                   left |-> TIMEOUT_INTERVAL])

Discard ==
    /\ sock' = Received(sock, "network")
    /\ UNCHANGED delayed

NetworkReady == netStatus = "running" /\ sock["network"] # << >>

\* One turn of the loop on a packet that survives.
NetworkForward(corrupt) ==
    /\ NetworkReady
    /\ corrupt \in randomChance(ErrorPercent)
    /\ FALSE \in randomChance(LostPercent)
    /\ LET pkt == Stamped(Head(sock["network"]), corrupt)
       IN ForwardNow(pkt) \/ ForwardLater(pkt)
    /\ UNCHANGED <<bound, netStatus>>

\* One turn of the loop on a packet that is lost, or that has nowhere to go.
NetworkDrop ==
    /\ NetworkReady
    /\ TRUE \in randomChance(LostPercent) \/ FALSE \in Works
    /\ Discard
    /\ UNCHANGED <<bound, netStatus>>

\* recvfrom fails: the process returns from main and its threads die with it.
NetworkReadError ==
    /\ netStatus = "running"
    /\ SocketErrors
    /\ netStatus' = "stopped"
    /\ delayed' = << >>
    /\ bound' = bound \ {"network"}
    /\ sock' = Closed(sock, "network")

\* Mutant of DelayOver: the thread sends and starts its delay over.
DelayOverRepeats(k) ==
    /\ k \in DOMAIN delayed
    /\ delayed[k].left = 0
    /\ sock' = sendPacket(sock, "network", delayed[k].pkt,
                          delayed[k].ip, delayed[k].port)
    /\ delayed' = [delayed EXCEPT ![k].left = TIMEOUT_INTERVAL]
    /\ UNCHANGED <<bound, netStatus>>

\* pktDelayThread: the delay is over, the packet is sent, the thread ends.
DelayOver(k) ==
    /\ k \in DOMAIN delayed
    /\ delayed[k].left = 0
    /\ sock' = sendPacket(sock, "network", delayed[k].pkt,
                          delayed[k].ip, delayed[k].port)
    /\ delayed' = SubSeq(delayed, 1, k - 1)
                     \o SubSeq(delayed, k + 1, Len(delayed))
    /\ UNCHANGED <<bound, netStatus>>

NetworkNext ==
    \/ NetworkSetup \/ NetworkDrop \/ NetworkReadError
    \/ \E corrupt \in BOOLEAN : NetworkForward(corrupt)
    \/ \E k \in DOMAIN delayed : DelayOver(k)

=============================================================================
