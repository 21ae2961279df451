---------------------------- MODULE RdtInvariant -----------------------------
(***************************************************************************)
(* The inductive invariant of RdtSystem for a network that loses and       *)
(* corrupts packets but does not delay them, a message buffer with room    *)
(* for the message and malloc memory that starts with a NUL.               *)
(*                                                                         *)
(* A packet is current when its bit is the bit of the fragment the sender  *)
(* is at, and stale otherwise.  Packets keep their order, so on its way    *)
(* through the two queues each direction uses, every stale packet is ahead *)
(* of every current one.  The receiver having flipped its bit is the same  *)
(* as some current data having been taken, hence no stale data being left; *)
(* a current acknowledgement exists only after that.                       *)
(***************************************************************************)
EXTENDS RdtSystem

\* What the proof assumes of the configuration.
InOrderNetwork == DelayedPercent = 0
RoomForMessage == MsgLen + FRAG_SIZE <= MAX_MSG_SIZE
ClearedMemory  == MallocLeftovers = {0}

\* The packets on their way to each end, by the port they are addressed to.
DataAt(s, p, i) == i \in DOMAIN s[p] /\ s[p][i].pkt.destPort = "receiver"
AckAt(s, p, i)  == i \in DOMAIN s[p] /\ s[p][i].pkt.destPort = "sender"
BitAt(s, p, i)  == s[p][i].pkt.ack

\* Both endpoints talk through the network only, and a packet waiting in the
\* network can be routed by its header.
Addresses(s) ==
    /\ \A i \in DOMAIN s["receiver"] :
          /\ s["receiver"][i].rcvdFrom = "network"
          /\ s["receiver"][i].pkt.destPort = "receiver"
          /\ s["receiver"][i].pkt.srcIP = "sender"
          /\ s["receiver"][i].pkt.srcPort = "sender"
    /\ \A i \in DOMAIN s["sender"] : s["sender"][i].pkt.destPort = "sender"
    /\ \A i \in DOMAIN s["network"] :
          \/ /\ s["network"][i].rcvdFrom = "sender"
             /\ s["network"][i].pkt.srcPort = "sender"
             /\ s["network"][i].pkt.destIP = "receiver"
             /\ s["network"][i].pkt.destPort = "receiver"
          \/ /\ s["network"][i].rcvdFrom = "receiver"
             /\ s["network"][i].pkt.destIP = "sender"
             /\ s["network"][i].pkt.destPort = "sender"

\* Data with the current bit carries the fragment after the characters
\* acknowledged.
CurrentContent(s, bit, ackd) ==
    \A p \in {"network", "receiver"} : \A i \in DOMAIN s[p] :
        DataAt(s, p, i) /\ BitAt(s, p, i) = bit =>
            s[p][i].pkt.at = ackd /\ s[p][i].pkt.len = FragmentLen(ackd)

\* Stale before current, in each queue and across the two of a direction.
DataInOrder(s, bit) ==
    /\ \A p \in {"network", "receiver"} : \A i, j \in DOMAIN s[p] :
          i < j /\ DataAt(s, p, i) /\ DataAt(s, p, j) /\ BitAt(s, p, i) = bit
             => BitAt(s, p, j) = bit
    /\ \A i \in DOMAIN s["receiver"], j \in DOMAIN s["network"] :
          DataAt(s, "network", j) /\ BitAt(s, "receiver", i) = bit
             => BitAt(s, "network", j) = bit

AcksInOrder(s, bit) ==
    /\ \A p \in {"network", "sender"} : \A i, j \in DOMAIN s[p] :
          i < j /\ AckAt(s, p, i) /\ AckAt(s, p, j) /\ BitAt(s, p, i) = bit
             => BitAt(s, p, j) = bit
    /\ \A i \in DOMAIN s["sender"], j \in DOMAIN s["network"] :
          AckAt(s, "network", j) /\ BitAt(s, "sender", i) = bit
             => BitAt(s, "network", j) = bit

\* The receiver has taken the current fragment exactly when its bit differs:
\* no stale data is left then, and no current acknowledgement exists before.
TakenMeansAllCurrent(s, bit, taken) ==
    taken => \A p \in {"network", "receiver"} : \A i \in DOMAIN s[p] :
                DataAt(s, p, i) => BitAt(s, p, i) = bit

AcksFollowTaken(s, bit, taken) ==
    ~taken => \A p \in {"network", "sender"} : \A i \in DOMAIN s[p] :
                 AckAt(s, p, i) => BitAt(s, p, i) # bit

Channels(s, bit, ackd, taken) ==
    /\ Addresses(s)
    /\ CurrentContent(s, bit, ackd)
    /\ DataInOrder(s, bit)
    /\ AcksInOrder(s, bit)
    /\ TakenMeansAllCurrent(s, bit, taken)
    /\ AcksFollowTaken(s, bit, taken)

Taken == rState # SendBit

SenderInv ==
    /\ sState \in {ACK_0, ACK_1} => msgPtr = msgPtrAckdTo + FragmentLen(msgPtrAckdTo)
    /\ sState \in {SEND_0, SEND_1} /\ sResult \in {"setup", "running"}
          => msgPtr = msgPtrAckdTo
    /\ lastPacketSent => msgPtrAckdTo = MsgLen
    /\ lastAckRcvd \/ numFinalTimeouts > 0 \/ sResult = "sent" => lastPacketSent

ReceiverInv ==
    /\ message = Text(Len(message))
    /\ Len(message) = IF Taken THEN msgPtrAckdTo + FragmentLen(msgPtrAckdTo)
                               ELSE msgPtrAckdTo
    /\ messageComplete => Len(message) = MsgLen
    /\ rResult = "text" => messageComplete
    /\ rResult = "setup" => message = << >>

\* The strengthening of the properties below that every step preserves: the
\* alternating bit of rdtSender.c:103-148 and rdtReceiver.c:93-114 tells a
\* repeated packet from a new one because stale packets come first.
InductiveInv ==
    /\ delayed = << >>
    /\ Channels(sock, SendBit, msgPtrAckdTo, Taken)
    /\ SenderInv
    /\ ReceiverInv

=============================================================================
