------------------------------ MODULE RdtProofs ------------------------------
(***************************************************************************)
(* Proofs about RdtSystem: its type invariant for every configuration; the *)
(* safety of the protocol for every message, buffer and socket size in a   *)
(* network that loses and corrupts packets, from the inductive invariant   *)
(* of RdtInvariant; and that it implements ReliableTransfer there.         *)
(***************************************************************************)
EXTENDS RdtInvariant, SequenceTheorems, TLAPS

(***************************************************************************)
(* Type correctness.                                                       *)
(***************************************************************************)

\* The length of a fragment (rdtIPConverter.c:141) never takes the position
\* past the end of the message.
LEMMA FragmentLenType ==
    ASSUME NEW at \in 0..MsgLen
    PROVE  /\ FragmentLen(at) \in 0..FRAG_SIZE
           /\ at + FragmentLen(at) \in 0..MsgLen
           /\ FragmentLen(at) = 0 <=> at = MsgLen
BY MessageAssumption DEF FragmentLen, Smaller, MessageAssumption

\* sendPacket and recvfrom keep well-formed queues well-formed.
LEMMA SendPacketType ==
    ASSUME NEW s \in [Procs -> Seq(Datagram)], NEW p \in Procs,
           NEW pkt \in rdpPacket, NEW ip \in Addr, NEW port \in Procs
    PROVE  sendPacket(s, p, pkt, ip, port) \in [Procs -> Seq(Datagram)]
<1> DEFINE d == [rcvdFrom |-> p, pkt |-> pkt]
<1>1. d \in Datagram
  BY DEF Datagram
<1>2. Append(s[port], d) \in Seq(Datagram)
  BY <1>1
<1> HIDE DEF d
<1>3. Delivered(s, ip, port, d) \in [Procs -> Seq(Datagram)]
  BY <1>2 DEF Delivered
<1> QED
  BY <1>3 DEF sendPacket, d

LEMMA ReceivedType ==
    ASSUME NEW s \in [Procs -> Seq(Datagram)], NEW p \in Procs, s[p] # << >>
    PROVE  /\ Received(s, p) \in [Procs -> Seq(Datagram)]
           /\ Head(s[p]) \in Datagram
           /\ Head(s[p]).pkt \in rdpPacket
           /\ Head(s[p]).rcvdFrom \in Procs
<1>1. s[p] \in Seq(Datagram)
  OBVIOUS
<1>2. Head(s[p]) \in Datagram /\ Tail(s[p]) \in Seq(Datagram)
  BY <1>1
<1>3. Received(s, p) \in [Procs -> Seq(Datagram)]
  BY <1>2 DEF Received
<1> QED
  BY <1>2, <1>3 DEF Datagram

LEMMA ClosedType ==
    ASSUME NEW s \in [Procs -> Seq(Datagram)], NEW p \in Procs
    PROVE  Closed(s, p) \in [Procs -> Seq(Datagram)]
BY DEF Closed

LEMMA FragmentType ==
    ASSUME NEW at \in 0..MsgLen, NEW bit \in {0, 1}
    PROVE  Fragment(at, bit) \in rdpPacket
BY FragmentLenType DEF Fragment, rdpPacket, Addr, Procs

LEMMA BitType ==
    ASSUME sState \in SEND_0 .. ACK_1
    PROVE  SendBit \in {0, 1} /\ AckBit \in {0, 1}
BY DEF SendBit, AckBit, SEND_0, SEND_1, ACK_1

LEMMA SenderType ==
    ASSUME TypeOK, SenderNext
    PROVE  SocketTypeOK' /\ SenderTypeOK'
<1> USE DEF TypeOK, SocketTypeOK
<1>0. "sender" \in Procs /\ "network" \in Procs /\ "network" \in Addr
  BY DEF Procs, Addr
<1>1. CASE SenderSetup
  BY <1>1, <1>0 DEF SenderSetup, SenderTypeOK
<1>2. CASE SenderSend
  <2>1. /\ msgPtr' = msgPtr + FragmentLen(msgPtr)
        /\ msgPtr' \in 0..MsgLen
    BY <1>2, FragmentLenType DEF SenderSend, SenderTypeOK
  <2>2. lastPacketSent' \in BOOLEAN
    BY <1>2 DEF SenderSend, SenderTypeOK
  <2>3. PICK works \in Works :
           IF works
           THEN /\ sock' = sendPacket(sock, "sender", Fragment(msgPtr, SendBit),
                                      "network", "network")
                /\ sState' = sState + 1
                /\ timer' = SENDER_TIMEOUT
                /\ UNCHANGED <<sResult, bound>>
           ELSE SenderExit("error", sock) /\ UNCHANGED <<sState, timer>>
    BY <1>2 DEF SenderSend
  <2>4. CASE works
    <3>1. sock' \in [Procs -> Seq(Datagram)]
      <4>1. Fragment(msgPtr, SendBit) \in rdpPacket
        BY FragmentType, BitType DEF SenderTypeOK
      <4> QED
        BY <2>3, <2>4, <4>1, <1>0, SendPacketType
    <3>2. sState' \in SEND_0 .. ACK_1
      BY <2>3, <2>4, <1>2
         DEF SenderSend, Sending, SEND_0, SEND_1, ACK_1, SenderTypeOK
    <3> QED
      BY <2>1, <2>2, <2>3, <2>4, <3>1, <3>2, <1>2, SocketAssumption
         DEF SenderTypeOK, SenderSend, SocketAssumption
  <2>5. CASE ~works
    BY <2>1, <2>2, <2>3, <2>5, <1>2, <1>0, ClosedType
       DEF SenderTypeOK, SenderSend, SenderExit
  <2> QED
    BY <2>4, <2>5
<1>3. CASE SenderTimeout
  <2>1. sState' \in SEND_0 .. ACK_1
    BY <1>3 DEF SenderTimeout, Awaiting, SenderTypeOK, SEND_0, ACK_0, ACK_1
  <2>2. numFinalTimeouts' \in 0..MAX_FINAL_TIMEOUTS
    BY <1>3, FinalTimeoutsAssumption
       DEF SenderTimeout, Awaiting, LoopCondition, SenderTypeOK,
           FinalTimeoutsAssumption
  <2> QED
    BY <1>3, <2>1, <2>2 DEF SenderTimeout, SenderTypeOK
<1>4. CASE SenderDropCorrupt
  BY <1>4, <1>0, ReceivedType, SocketAssumption
     DEF SenderDropCorrupt, SenderTypeOK, SocketAssumption
<1>5. CASE SenderAcked
  <2>1. sState' \in SEND_0 .. ACK_1
    BY <1>5 DEF SenderAcked, SenderTypeOK, SEND_0, ACK_1
  <2>2. sock' \in [Procs -> Seq(Datagram)]
    BY <1>5, <1>0, ReceivedType DEF SenderAcked
  <2> QED
    BY <1>5, <2>1, <2>2, SocketAssumption
       DEF SenderAcked, SenderTypeOK, SocketAssumption
<1>6. CASE SenderIgnoreOther
  BY <1>6, <1>0, ReceivedType, SocketAssumption
     DEF SenderIgnoreOther, SenderTypeOK, SocketAssumption
<1>7. CASE SenderReadError
  BY <1>7, <1>0, ClosedType DEF SenderReadError, SenderExit, SenderTypeOK
<1>8. CASE SenderReturn
  BY <1>8, <1>0, ClosedType DEF SenderReturn, SenderExit, SenderTypeOK
<1> QED
  BY <1>1, <1>2, <1>3, <1>4, <1>5, <1>6, <1>7, <1>8 DEF SenderNext

LEMMA CharsType ==
    ASSUME NEW at \in Nat, NEW len \in Nat
    PROVE  /\ Chars(at, len) \in Seq(Nat)
           /\ Len(Chars(at, len)) = len
           /\ \A i \in 1..len : Chars(at, len)[i] = at + i
<1>1. Chars(at, len) \in [1..len -> Nat]
  BY DEF Chars
<1>2. Chars(at, len) \in Seq(Nat)
  BY <1>1, SeqDef
<1>3. DOMAIN Chars(at, len) = 1..len
  BY DEF Chars
<1> QED
  BY <1>2, <1>3, LenProperties DEF Chars

LEMMA ReplyType ==
    ASSUME NEW pkt \in rdpPacket
    PROVE  Reply(pkt) \in rdpPacket
BY DEF Reply, rdpPacket, Addr, Procs

LEMMA ReceiverType ==
    ASSUME TypeOK, ReceiverNext
    PROVE  SocketTypeOK' /\ ReceiverTypeOK'
<1> USE DEF TypeOK, SocketTypeOK
<1>0. "receiver" \in Procs
  BY DEF Procs
<1>1. CASE ReceiverSetup
  <2>1. message' \in Seq(Nat)
    <3>1. \A n \in MallocLeftovers : [i \in 1..n |-> GARBAGE] \in Seq(Nat)
      BY MallocAssumption, MessageAssumption
         DEF MallocAssumption, MessageAssumption, GARBAGE
    <3> QED
      BY <1>1, <3>1 DEF ReceiverSetup, ReceiverTypeOK
  <2> QED
    BY <1>1, <1>0, <2>1 DEF ReceiverSetup, ReceiverTypeOK
<1>2. CASE ReceiverPacket
  <2> DEFINE d == Head(sock["receiver"])
  <2>1. /\ d.pkt \in rdpPacket /\ d.rcvdFrom \in Procs
        /\ Received(sock, "receiver") \in [Procs -> Seq(Datagram)]
    BY <1>2, <1>0, ReceivedType DEF ReceiverPacket
  <2>2. sock' \in [Procs -> Seq(Datagram)]
    <3>1. d.rcvdFrom \in Addr /\ Reply(d.pkt) \in rdpPacket
      BY <2>1, ReplyType DEF Addr
    <3>2. sendPacket(Received(sock, "receiver"), "receiver", Reply(d.pkt),
                     d.rcvdFrom, d.rcvdFrom) \in [Procs -> Seq(Datagram)]
      BY <2>1, <3>1, <1>0, SendPacketType
    <3> QED
      BY <1>2, <2>1, <3>2 DEF ReceiverPacket
  <2>3. rState' \in {0, 1} /\ message' \in Seq(Nat) /\ messageComplete' \in BOOLEAN
    <3>1. ReceiverAccept(d.pkt) \/ ReceiverDuplicate(d.pkt)
      BY <1>2 DEF ReceiverPacket
    <3>2. d.pkt.at \in Nat /\ d.pkt.len \in Nat
      BY <2>1, MessageAssumption DEF rdpPacket, MessageAssumption
    <3>3. message \o Chars(d.pkt.at, d.pkt.len) \in Seq(Nat)
      BY <3>2, CharsType, ConcatProperties DEF ReceiverTypeOK
    <3>4. rState' \in {0, 1}
      BY <3>1 DEF ReceiverAccept, ReceiverDuplicate, ReceiverTypeOK
    <3>5. message' \in Seq(Nat)
      BY <3>1, <3>3 DEF ReceiverAccept, ReceiverDuplicate, ReceiverTypeOK
    <3>6. messageComplete' \in BOOLEAN
      <4>1. messageComplete' = messageComplete \/ messageComplete' = TRUE
        BY <3>1, Zenon DEF ReceiverAccept, ReceiverDuplicate
      <4> QED
        BY <4>1 DEF ReceiverTypeOK
    <3> QED
      BY <3>4, <3>5, <3>6
  <2> QED
    BY <1>2, <2>2, <2>3 DEF ReceiverPacket, ReceiverTypeOK
<1>3. CASE ReceiverDropCorrupt
  BY <1>3, <1>0, ReceivedType
     DEF ReceiverDropCorrupt, ReceiverTypeOK, receiverVars
<1>4. CASE ReceiverReadError
  BY <1>4, <1>0, ClosedType
     DEF ReceiverReadError, ReceiverExit, ReceiverTypeOK
<1>5. CASE ReceiverReturn
  BY <1>5, <1>0, ClosedType DEF ReceiverReturn, ReceiverExit, ReceiverTypeOK
<1> QED
  BY <1>1, <1>2, <1>3, <1>4, <1>5 DEF ReceiverNext

LEMMA StampedType ==
    ASSUME NEW d \in Datagram, NEW corrupt \in BOOLEAN
    PROVE  Stamped(d, corrupt) \in rdpPacket
BY DEF Stamped, Datagram, rdpPacket, Addr

LEMMA NetworkType ==
    ASSUME TypeOK, NetworkNext
    PROVE  SocketTypeOK' /\ NetworkTypeOK'
<1> USE DEF TypeOK, SocketTypeOK
<1>0. "network" \in Procs
  BY DEF Procs
<1>1. CASE NetworkSetup
  BY <1>1, <1>0 DEF NetworkSetup, NetworkTypeOK
<1>2. CASE NetworkDrop
  BY <1>2, <1>0, ReceivedType
     DEF NetworkDrop, NetworkReady, Discard, NetworkTypeOK
<1>3. CASE NetworkReadError
  BY <1>3, <1>0, ClosedType DEF NetworkReadError, NetworkTypeOK
<1>4. ASSUME NEW corrupt \in BOOLEAN, NetworkForward(corrupt)
      PROVE  SocketTypeOK' /\ NetworkTypeOK'
  <2> DEFINE pkt == Stamped(Head(sock["network"]), corrupt)
  <2>1. /\ Head(sock["network"]) \in Datagram
        /\ Received(sock, "network") \in [Procs -> Seq(Datagram)]
    BY <1>4, <1>0, ReceivedType DEF NetworkForward, NetworkReady
  <2>2. pkt \in rdpPacket
    BY <2>1, StampedType
  <2>3. pkt.destIP \in Addr /\ pkt.destPort \in Procs
    BY <2>2 DEF rdpPacket
  <2> HIDE DEF pkt
  <2>4. ASSUME ForwardNow(pkt)
        PROVE  sock' \in [Procs -> Seq(Datagram)] /\ delayed' = delayed
    BY <2>4, <2>1, <2>2, <2>3, <1>0, SendPacketType DEF ForwardNow
  <2>5. ASSUME ForwardLater(pkt)
        PROVE  sock' \in [Procs -> Seq(Datagram)] /\ delayed' \in Seq(DelayThread)
    <3>1. [pkt |-> pkt, ip |-> pkt.destIP, port |-> pkt.destPort,
           left |-> TIMEOUT_INTERVAL] \in DelayThread
      BY <2>2, <2>3, SocketAssumption DEF DelayThread, SocketAssumption
    <3> QED
      BY <2>5, <3>1, <2>1 DEF ForwardLater, NetworkTypeOK
  <2> QED
    BY <1>4, <2>4, <2>5 DEF NetworkForward, NetworkTypeOK, pkt
<1>5. ASSUME NEW k \in DOMAIN delayed, DelayOver(k)
      PROVE  SocketTypeOK' /\ NetworkTypeOK'
  <2>1. delayed \in Seq(DelayThread) /\ k \in 1..Len(delayed)
    BY DEF NetworkTypeOK
  <2>2. delayed[k] \in DelayThread
    BY <2>1
  <2>3. sock' \in [Procs -> Seq(Datagram)]
    BY <1>5, <1>0, <2>2, SendPacketType DEF DelayOver, DelayThread
  <2>4. /\ SubSeq(delayed, 1, k - 1) \in Seq(DelayThread)
        /\ SubSeq(delayed, k + 1, Len(delayed)) \in Seq(DelayThread)
    BY <2>1
  <2>5. delayed' \in Seq(DelayThread)
    BY <1>5, <2>4 DEF DelayOver
  <2> QED
    BY <1>5, <2>3, <2>5 DEF DelayOver, NetworkTypeOK
<1> QED
  BY <1>1, <1>2, <1>3, <1>4, <1>5 DEF NetworkNext

LEMMA TickType ==
    ASSUME TypeOK, Tick
    PROVE  timer' \in 0..SENDER_TIMEOUT /\ delayed' \in Seq(DelayThread)
<1>1. timer' \in 0..SENDER_TIMEOUT
  BY SocketAssumption DEF TypeOK, SenderTypeOK, Tick, Elapsed, SocketAssumption
<1>2. delayed \in Seq(DelayThread)
  BY DEF TypeOK, NetworkTypeOK
<1>3. ASSUME NEW k \in 1..Len(delayed)
      PROVE  [delayed[k] EXCEPT !.left = Elapsed(@)] \in DelayThread
  <2>1. delayed[k] \in DelayThread
    BY <1>2
  <2> QED
    BY <2>1, SocketAssumption DEF DelayThread, Elapsed, SocketAssumption
<1>4. DOMAIN delayed = 1..Len(delayed) /\ Len(delayed) \in Nat
  BY <1>2
<1>5. delayed' \in [1..Len(delayed) -> DelayThread]
  BY <1>3, <1>4 DEF Tick
<1> QED
  BY <1>1, <1>4, <1>5, SeqDef

\* Every variable keeps its type: positions stay inside the message, the state
\* machines of rdtSender.c and rdtReceiver.c in their ranges, the timeouts of
\* the last packet under their limit, and queues hold well-formed packets,
\* in every configuration, with delays and socket errors.
THEOREM TypeCorrect == Spec => []TypeOK
<1>1. Init => TypeOK
  <2> SUFFICES ASSUME Init PROVE TypeOK
    OBVIOUS
  <2>1. SocketTypeOK
    <3>1. << >> \in Seq(Datagram)
      BY EmptySeq
    <3> QED
      BY <3>1 DEF Init, SocketInit, SocketTypeOK
  <2>2. SenderTypeOK
    <3>1. 0 \in SEND_0 .. ACK_1 /\ 0 \in 0..MsgLen
      BY MessageAssumption DEF MessageAssumption, SEND_0, ACK_1
    <3>2. 0 \in 0..MAX_FINAL_TIMEOUTS /\ 0 \in 0..SENDER_TIMEOUT
      BY SocketAssumption, FinalTimeoutsAssumption
         DEF SocketAssumption, FinalTimeoutsAssumption
    <3> QED
      BY <3>1, <3>2 DEF Init, SenderInit, SenderTypeOK, SEND_0
  <2>3. ReceiverTypeOK /\ NetworkTypeOK
    <3>1. << >> \in Seq(Nat) /\ << >> \in Seq(DelayThread)
      BY EmptySeq
    <3> QED
      BY <3>1 DEF Init, ReceiverInit, NetworkInit, ReceiverTypeOK, NetworkTypeOK
  <2> QED
    BY <2>1, <2>2, <2>3 DEF TypeOK
<1>2. TypeOK /\ [Next]_vars => TypeOK'
  <2> SUFFICES ASSUME TypeOK, [Next]_vars PROVE TypeOK'
    OBVIOUS
  <2>1. CASE Sender
    BY <2>1, SenderType
       DEF Sender, TypeOK, receiverVars, networkVars, ReceiverTypeOK,
           NetworkTypeOK
  <2>2. CASE Receiver
    BY <2>2, ReceiverType
       DEF Receiver, TypeOK, senderVars, networkVars, SenderTypeOK,
           NetworkTypeOK
  <2>3. CASE Network
    BY <2>3, NetworkType
       DEF Network, TypeOK, senderVars, receiverVars, SenderTypeOK,
           ReceiverTypeOK
  <2>4. CASE Tick
    BY <2>4, TickType
       DEF Tick, TypeOK, sockVars, receiverVars, SocketTypeOK, SenderTypeOK,
           ReceiverTypeOK, NetworkTypeOK
  <2>5. CASE UNCHANGED vars
    BY <2>5
       DEF vars, sockVars, senderVars, receiverVars, networkVars, TypeOK,
           SocketTypeOK, SenderTypeOK, ReceiverTypeOK, NetworkTypeOK
  <2> QED
    BY <2>1, <2>2, <2>3, <2>4, <2>5 DEF Next
<1> QED
  BY <1>1, <1>2, PTL DEF Spec

(***************************************************************************)
(* Safety.  First queues alone: what taking, appending and forwarding a    *)
(* packet does to Channels.                                                *)
(***************************************************************************)
Queues == [Procs -> Seq(Datagram)]

\* t is s with some oldest datagrams of each queue gone, drop[p] of them.
LosesHead(s, t, drop) ==
    \A p \in Procs : \A i \in DOMAIN t[p] :
        i + drop[p] \in DOMAIN s[p] /\ t[p][i] = s[p][i + drop[p]]

LEMMA LosingKeepsChannels ==
    ASSUME NEW s \in Queues, NEW t \in Queues, NEW drop \in [Procs -> Nat],
           LosesHead(s, t, drop),
           NEW bit, NEW ackd, NEW taken \in BOOLEAN,
           Channels(s, bit, ackd, taken)
    PROVE  Channels(t, bit, ackd, taken)
<1>0. /\ "sender" \in Procs /\ "receiver" \in Procs /\ "network" \in Procs
      /\ \A p \in Procs : drop[p] \in Nat /\ DOMAIN t[p] \subseteq Nat
  BY DEF Procs, Queues
<1>1. \A p \in Procs : \A i \in DOMAIN t[p] :
          /\ i + drop[p] \in DOMAIN s[p]
          /\ t[p][i] = s[p][i + drop[p]]
          /\ DataAt(t, p, i) => DataAt(s, p, i + drop[p])
          /\ AckAt(t, p, i) => AckAt(s, p, i + drop[p])
          /\ BitAt(t, p, i) = BitAt(s, p, i + drop[p])
  BY DEF LosesHead, DataAt, AckAt, BitAt
<1>2. Addresses(t)
  BY <1>0, <1>1 DEF Addresses, Channels
<1>3. CurrentContent(t, bit, ackd)
  BY <1>0, <1>1 DEF CurrentContent, Channels
<1>4. DataInOrder(t, bit)
  BY <1>0, <1>1 DEF DataInOrder, Channels
<1>5. AcksInOrder(t, bit)
  BY <1>0, <1>1 DEF AcksInOrder, Channels
<1>6. TakenMeansAllCurrent(t, bit, taken)
  BY <1>0, <1>1 DEF TakenMeansAllCurrent, Channels
<1>7. AcksFollowTaken(t, bit, taken)
  BY <1>0, <1>1 DEF AcksFollowTaken, Channels
<1> QED
  BY <1>2, <1>3, <1>4, <1>5, <1>6, <1>7 DEF Channels

\* Taking the oldest datagram of a queue, and closing a socket.
LEMMA ReceivedKeepsChannels ==
    ASSUME NEW s \in Queues, NEW p \in Procs, s[p] # << >>,
           NEW bit, NEW ackd, NEW taken \in BOOLEAN,
           Channels(s, bit, ackd, taken)
    PROVE  Channels(Received(s, p), bit, ackd, taken)
<1> DEFINE t == Received(s, p)
           drop == [q \in Procs |-> IF q = p THEN 1 ELSE 0]
<1>1. t \in Queues /\ drop \in [Procs -> Nat]
  BY ReceivedType DEF Queues
<1>2. ASSUME NEW q \in Procs, NEW i \in DOMAIN t[q]
      PROVE  i + drop[q] \in DOMAIN s[q] /\ t[q][i] = s[q][i + drop[q]]
  <2>1. s[q] \in Seq(Datagram) /\ s[p] \in Seq(Datagram)
    BY DEF Queues
  <2>2. CASE q = p
    <3>1. t[q] = Tail(s[q])
      BY <2>2 DEF Received, Queues
    <3>2. /\ Tail(s[q]) \in Seq(Datagram)
          /\ Len(Tail(s[q])) = Len(s[q]) - 1
          /\ \A j \in 1..Len(Tail(s[q])) : Tail(s[q])[j] = s[q][j + 1]
      BY <2>1, <2>2, HeadTailProperties
    <3> QED
      BY <2>1, <2>2, <3>1, <3>2
  <2>3. CASE q # p
    BY <2>1, <2>3 DEF Received, Queues
  <2> QED
    BY <2>2, <2>3
<1>3. LosesHead(s, t, drop)
  BY <1>2 DEF LosesHead
<1> QED
  BY <1>1, <1>3, LosingKeepsChannels

LEMMA ClosedKeepsChannels ==
    ASSUME NEW s \in Queues, NEW p \in Procs,
           NEW bit, NEW ackd, NEW taken \in BOOLEAN,
           Channels(s, bit, ackd, taken)
    PROVE  Channels(Closed(s, p), bit, ackd, taken)
<1> DEFINE t == Closed(s, p)
           drop == [q \in Procs |-> 0]
<1>1. t \in Queues /\ drop \in [Procs -> Nat]
  BY ClosedType DEF Queues
<1>2. ASSUME NEW q \in Procs, NEW i \in DOMAIN t[q]
      PROVE  i + drop[q] \in DOMAIN s[q] /\ t[q][i] = s[q][i + drop[q]]
  BY DEF Closed, Queues
<1>3. LosesHead(s, t, drop)
  BY <1>2 DEF LosesHead
<1> QED
  BY <1>1, <1>3, LosingKeepsChannels

\* What one more datagram at the end of queue p changes.
Appended(s, p, d) == [s EXCEPT ![p] = Append(@, d)]

LEMMA AppendedFacts ==
    ASSUME NEW s \in Queues, NEW p \in Procs, NEW d \in Datagram
    PROVE  /\ Appended(s, p, d) \in Queues
           /\ \A q \in Procs \ {p} : Appended(s, p, d)[q] = s[q]
           /\ Len(s[p]) \in Nat
           /\ DOMAIN s[p] = 1..Len(s[p])
           /\ DOMAIN Appended(s, p, d)[p] = 1..(Len(s[p]) + 1)
           /\ \A i \in DOMAIN s[p] : Appended(s, p, d)[p][i] = s[p][i]
           /\ Appended(s, p, d)[p][Len(s[p]) + 1] = d
<1>1. s[p] \in Seq(Datagram)
  BY DEF Queues
<1>2. Appended(s, p, d)[p] = Append(s[p], d)
  BY DEF Appended, Queues
<1>3. Append(s[p], d) \in Seq(Datagram)
  BY <1>1
<1>4. Appended(s, p, d) \in Queues
  BY <1>3 DEF Appended, Queues
<1>5. \A q \in Procs \ {p} : Appended(s, p, d)[q] = s[q]
  BY DEF Appended, Queues
<1> QED
  BY <1>1, <1>2, <1>4, <1>5

\* The sender puts the fragment it is at into the network.
LEMMA SendKeepsChannels ==
    ASSUME NEW s \in Queues, NEW d \in Datagram,
           NEW bit, NEW ackd, NEW taken \in BOOLEAN,
           Channels(s, bit, ackd, taken),
           d.rcvdFrom = "sender", d.pkt.srcPort = "sender",
           d.pkt.destIP = "receiver", d.pkt.destPort = "receiver",
           d.pkt.ack = bit, d.pkt.at = ackd, d.pkt.len = FragmentLen(ackd)
    PROVE  Channels(Appended(s, "network", d), bit, ackd, taken)
<1> DEFINE t == Appended(s, "network", d)
           n == Len(s["network"])
<1>0. /\ "sender" \in Procs /\ "receiver" \in Procs /\ "network" \in Procs
      /\ t["sender"] = s["sender"] /\ t["receiver"] = s["receiver"]
      /\ n \in Nat
      /\ DOMAIN s["network"] = 1..n /\ DOMAIN t["network"] = 1..(n + 1)
      /\ \A i \in 1..n : t["network"][i] = s["network"][i]
      /\ t["network"][n + 1] = d
  BY AppendedFacts DEF Procs
<1> HIDE DEF t, n
<1> USE DEF DataAt, AckAt, BitAt
<1>1. Addresses(t)
  BY <1>0 DEF Addresses, Channels
<1>2. CurrentContent(t, bit, ackd)
  BY <1>0 DEF CurrentContent, Channels
<1>3. DataInOrder(t, bit)
  BY <1>0 DEF DataInOrder, Channels
<1>4. AcksInOrder(t, bit)
  BY <1>0 DEF AcksInOrder, Channels
<1>5. TakenMeansAllCurrent(t, bit, taken)
  BY <1>0 DEF TakenMeansAllCurrent, Channels
<1>6. AcksFollowTaken(t, bit, taken)
  BY <1>0 DEF AcksFollowTaken, Channels
<1> QED
  BY <1>1, <1>2, <1>3, <1>4, <1>5, <1>6 DEF Channels, t

\* The sender takes a current acknowledgement: the fragment was taken, so all
\* that is on its way carries the same bit and is stale for the next one.
LEMMA AckedKeepsChannels ==
    ASSUME NEW s \in Queues, s["sender"] # << >>,
           NEW bit \in {0, 1}, NEW ackd, NEW next, NEW taken \in BOOLEAN,
           Channels(s, bit, ackd, taken),
           Head(s["sender"]).pkt.ack = bit
    PROVE  taken /\ Channels(Received(s, "sender"), 1 - bit, next, FALSE)
<1> DEFINE t == Received(s, "sender")
<1>0. /\ "sender" \in Procs /\ "receiver" \in Procs /\ "network" \in Procs
      /\ bit # 1 - bit
  BY DEF Procs
<1>1. s["sender"] \in Seq(Datagram)
  BY <1>0 DEF Queues
<1>2. /\ 1 \in DOMAIN s["sender"] /\ BitAt(s, "sender", 1) = bit
      /\ \A i \in DOMAIN s["sender"] : AckAt(s, "sender", i)
  BY <1>1 DEF BitAt, AckAt, Addresses, Channels
<1>3. taken
  BY <1>2 DEF AcksFollowTaken, Channels
<1>4. Channels(t, bit, ackd, taken)
  BY <1>0, ReceivedKeepsChannels
<1>5. /\ DOMAIN t["sender"] = 1..(Len(s["sender"]) - 1)
      /\ \A i \in DOMAIN t["sender"] : t["sender"][i] = s["sender"][i + 1]
      /\ t["network"] = s["network"] /\ t["receiver"] = s["receiver"]
  BY <1>0, <1>1, HeadTailProperties DEF Received, Queues
<1>6. \A i \in DOMAIN t["sender"] : BitAt(t, "sender", i) = bit
  <2>1. \A i \in DOMAIN s["sender"] : 1 < i => BitAt(s, "sender", i) = bit
    BY <1>2 DEF AcksInOrder, Channels
  <2> QED
    BY <2>1, <1>1, <1>5 DEF BitAt
<1>7. \A i \in DOMAIN t["network"] : AckAt(t, "network", i) => BitAt(t, "network", i) = bit
  BY <1>2, <1>5 DEF AcksInOrder, Channels, BitAt, AckAt
<1>8. \A p \in {"network", "receiver"} : \A i \in DOMAIN t[p] :
          DataAt(t, p, i) => BitAt(t, p, i) = bit
  BY <1>3, <1>4 DEF TakenMeansAllCurrent, Channels
<1>9. \A i \in DOMAIN t["receiver"] : DataAt(t, "receiver", i)
  BY <1>4 DEF Addresses, Channels, DataAt
<1> HIDE DEF t
<1>10. CurrentContent(t, 1 - bit, next) /\ DataInOrder(t, 1 - bit)
  BY <1>0, <1>8, <1>9 DEF CurrentContent, DataInOrder
<1>11. AcksInOrder(t, 1 - bit) /\ AcksFollowTaken(t, 1 - bit, FALSE)
  BY <1>0, <1>6, <1>7 DEF AcksInOrder, AcksFollowTaken
<1> QED
  BY <1>3, <1>4, <1>10, <1>11 DEF Channels, TakenMeansAllCurrent, t

\* The receiver takes a packet: with the current bit the fragment is taken
\* from then on, and once it is, no packet with another bit can come.
LEMMA TakingKeepsChannels ==
    ASSUME NEW s \in Queues, s["receiver"] # << >>,
           NEW bit, NEW ackd, NEW taken \in BOOLEAN,
           Channels(s, bit, ackd, taken)
    PROVE  LET h == Head(s["receiver"]) IN
           /\ h.pkt.srcIP = "sender" /\ h.pkt.srcPort = "sender"
           /\ h.rcvdFrom = "network"
           /\ h.pkt.ack = bit => h.pkt.at = ackd /\ h.pkt.len = FragmentLen(ackd)
           /\ taken => h.pkt.ack = bit
           /\ Channels(Received(s, "receiver"), bit, ackd,
                       taken \/ h.pkt.ack = bit)
<1> DEFINE t == Received(s, "receiver")
           h == Head(s["receiver"])
<1>0. "sender" \in Procs /\ "receiver" \in Procs /\ "network" \in Procs
  BY DEF Procs
<1>1. s["receiver"] \in Seq(Datagram)
  BY <1>0 DEF Queues
<1>2. /\ 1 \in DOMAIN s["receiver"] /\ s["receiver"][1] = h
      /\ \A i \in DOMAIN s["receiver"] : DataAt(s, "receiver", i)
  BY <1>1 DEF DataAt, Addresses, Channels
<1>3. /\ h.pkt.srcIP = "sender" /\ h.pkt.srcPort = "sender"
      /\ h.rcvdFrom = "network"
  BY <1>2 DEF Addresses, Channels
<1>4. h.pkt.ack = bit => h.pkt.at = ackd /\ h.pkt.len = FragmentLen(ackd)
  BY <1>2 DEF CurrentContent, Channels, BitAt
<1>5. taken => h.pkt.ack = bit
  BY <1>2 DEF TakenMeansAllCurrent, Channels, BitAt
<1>6. Channels(t, bit, ackd, taken)
  BY <1>0, ReceivedKeepsChannels
<1>7. /\ DOMAIN t["receiver"] = 1..(Len(s["receiver"]) - 1)
      /\ \A i \in DOMAIN t["receiver"] : t["receiver"][i] = s["receiver"][i + 1]
      /\ t["network"] = s["network"] /\ t["sender"] = s["sender"]
  BY <1>0, <1>1, HeadTailProperties DEF Received, Queues
<1>8. ASSUME h.pkt.ack = bit
      PROVE  TakenMeansAllCurrent(t, bit, TRUE)
  <2>1. \A i \in DOMAIN s["receiver"] : 1 < i => BitAt(s, "receiver", i) = bit
    BY <1>2, <1>8 DEF DataInOrder, Channels, BitAt
  <2>2. \A i \in DOMAIN t["receiver"] : BitAt(t, "receiver", i) = bit
    BY <2>1, <1>1, <1>7 DEF BitAt
  <2>3. \A i \in DOMAIN t["network"] :
           DataAt(t, "network", i) => BitAt(t, "network", i) = bit
    BY <1>2, <1>7, <1>8 DEF DataInOrder, Channels, BitAt, DataAt
  <2> QED
    BY <2>2, <2>3 DEF TakenMeansAllCurrent
<1>9. Channels(t, bit, ackd, taken \/ h.pkt.ack = bit)
  <2>1. CASE h.pkt.ack = bit
    BY <2>1, <1>6, <1>8 DEF Channels, AcksFollowTaken, TakenMeansAllCurrent
  <2>2. CASE h.pkt.ack # bit
    BY <2>2, <1>6, <1>5 DEF Channels, AcksFollowTaken, TakenMeansAllCurrent
  <2> QED
    BY <2>1, <2>2
<1> QED
  BY <1>3, <1>4, <1>5, <1>9

\* The receiver's answer enters the network: current only when the fragment
\* was taken, and always behind the answers before it.
LEMMA AnswerKeepsChannels ==
    ASSUME NEW s \in Queues, NEW d \in Datagram,
           NEW bit, NEW ackd, NEW taken \in BOOLEAN,
           Channels(s, bit, ackd, taken),
           d.rcvdFrom = "receiver",
           d.pkt.destIP = "sender", d.pkt.destPort = "sender",
           taken <=> d.pkt.ack = bit
    PROVE  Channels(Appended(s, "network", d), bit, ackd, taken)
<1> DEFINE t == Appended(s, "network", d)
           n == Len(s["network"])
<1>0. /\ "sender" \in Procs /\ "receiver" \in Procs /\ "network" \in Procs
      /\ t["sender"] = s["sender"] /\ t["receiver"] = s["receiver"]
      /\ n \in Nat
      /\ DOMAIN s["network"] = 1..n /\ DOMAIN t["network"] = 1..(n + 1)
      /\ \A i \in 1..n : t["network"][i] = s["network"][i]
      /\ t["network"][n + 1] = d
  BY AppendedFacts DEF Procs
<1>1. \A i \in DOMAIN s["sender"] : AckAt(s, "sender", i)
  BY DEF AckAt, Addresses, Channels
<1> HIDE DEF t, n
<1> USE DEF DataAt, AckAt, BitAt
<1>2. Addresses(t)
  BY <1>0 DEF Addresses, Channels
<1>3. CurrentContent(t, bit, ackd)
  BY <1>0 DEF CurrentContent, Channels
<1>4. DataInOrder(t, bit)
  BY <1>0 DEF DataInOrder, Channels
<1>5. AcksInOrder(t, bit)
  BY <1>0, <1>1 DEF AcksInOrder, AcksFollowTaken, Channels
<1>6. TakenMeansAllCurrent(t, bit, taken)
  BY <1>0 DEF TakenMeansAllCurrent, Channels
<1>7. AcksFollowTaken(t, bit, taken)
  BY <1>0 DEF AcksFollowTaken, Channels
<1> QED
  BY <1>2, <1>3, <1>4, <1>5, <1>6, <1>7 DEF Channels, t

\* The network hands its oldest packet on, to the end its header names.
LEMMA ForwardingKeepsChannels ==
    ASSUME NEW s \in Queues, s["network"] # << >>, NEW d \in Datagram,
           NEW bit, NEW ackd, NEW taken \in BOOLEAN,
           Channels(s, bit, ackd, taken), d.rcvdFrom = "network",
           LET h == Head(s["network"]) IN
           /\ d.pkt.srcIP = h.rcvdFrom /\ d.pkt.srcPort = h.pkt.srcPort
           /\ d.pkt.destPort = h.pkt.destPort
           /\ d.pkt.ack = h.pkt.ack /\ d.pkt.at = h.pkt.at
           /\ d.pkt.len = h.pkt.len
    PROVE  Channels(Appended(Received(s, "network"), d.pkt.destPort, d),
                    bit, ackd, taken)
<1> DEFINE h == Head(s["network"])
           u == Received(s, "network")
           q == d.pkt.destPort
           t == Appended(u, q, d)
           n == Len(u[q])
<1>0. "sender" \in Procs /\ "receiver" \in Procs /\ "network" \in Procs
  BY DEF Procs
<1>a. /\ d.pkt.srcIP = h.rcvdFrom /\ d.pkt.srcPort = h.pkt.srcPort
      /\ q = h.pkt.destPort /\ q = d.pkt.destPort
      /\ d.pkt.ack = h.pkt.ack /\ d.pkt.at = h.pkt.at
      /\ d.pkt.len = h.pkt.len
  OBVIOUS
<1>1. s["network"] \in Seq(Datagram)
  BY <1>0 DEF Queues
<1>2. /\ 1 \in DOMAIN s["network"] /\ s["network"][1] = h
      /\ \/ h.rcvdFrom = "sender" /\ q = "receiver" /\ h.pkt.srcPort = "sender"
         \/ q = "sender"
  <2>1. 1 \in DOMAIN s["network"] /\ s["network"][1] = h
    BY <1>1
  <2> HIDE DEF h
  <2> QED
    BY <1>a, <2>1 DEF Addresses, Channels
<1>3. u \in Queues /\ Channels(u, bit, ackd, taken)
  <2>1. u \in Queues
    BY <1>0, ReceivedType DEF Queues
  <2> QED
    BY <2>1, <1>0, ReceivedKeepsChannels
<1>4. /\ DOMAIN u["network"] = 1..(Len(s["network"]) - 1)
      /\ \A i \in DOMAIN u["network"] : u["network"][i] = s["network"][i + 1]
      /\ u["sender"] = s["sender"] /\ u["receiver"] = s["receiver"]
  BY <1>0, <1>1, HeadTailProperties DEF Received, Queues
<1>5. /\ q \in Procs /\ n \in Nat
      /\ DOMAIN u[q] = 1..n /\ DOMAIN t[q] = 1..(n + 1)
      /\ \A i \in 1..n : t[q][i] = u[q][i]
      /\ t[q][n + 1] = d
      /\ \A p \in Procs \ {q} : t[p] = u[p]
  <2>1. q \in Procs
    BY <1>0, <1>2
  <2> HIDE DEF u, q
  <2> QED
    BY <2>1, <1>3, AppendedFacts
<1>6. t["network"] = u["network"]
  BY <1>0, <1>2, <1>5
<1>7. CASE q = "receiver"
  <2>0. t["sender"] = u["sender"]
    BY <1>0, <1>5, <1>7
  <2>a. /\ n \in Nat
        /\ DOMAIN u["receiver"] = 1..n /\ DOMAIN t["receiver"] = 1..(n + 1)
        /\ \A i \in 1..n : t["receiver"][i] = u["receiver"][i]
        /\ t["receiver"][n + 1] = d /\ d.pkt.destPort = "receiver"
    BY <1>a, <1>5, <1>7
  <2>1. h.pkt.ack = bit =>
           /\ h.pkt.at = ackd /\ h.pkt.len = FragmentLen(ackd)
           /\ \A j \in DOMAIN u["network"] :
                 DataAt(u, "network", j) => BitAt(u, "network", j) = bit
    BY <1>a, <1>1, <1>2, <1>4, <1>7
       DEF Channels, CurrentContent, DataInOrder, DataAt, BitAt
  <2>2. taken \/ (\E i \in DOMAIN u["receiver"] : BitAt(u, "receiver", i) = bit)
           => h.pkt.ack = bit
    BY <1>a, <1>1, <1>2, <1>4, <1>7
       DEF Channels, TakenMeansAllCurrent, DataInOrder, DataAt, BitAt
  <2>3. h.rcvdFrom = "sender" /\ h.pkt.srcPort = "sender"
    BY <1>2, <1>7
  <2> HIDE DEF u, t, h, n, q
  <2> USE DEF DataAt, AckAt, BitAt
  <2>4. Addresses(t)
    BY <1>a, <1>3, <1>6, <2>a, <2>0, <2>3 DEF Addresses, Channels
  <2>5. CurrentContent(t, bit, ackd)
    BY <1>a, <1>3, <1>6, <2>a, <2>0, <2>1 DEF CurrentContent, Channels
  <2>6. DataInOrder(t, bit)
    BY <1>a, <1>3, <1>6, <2>a, <2>0, <2>1, <2>2 DEF DataInOrder, Channels
  <2>7. AcksInOrder(t, bit) /\ AcksFollowTaken(t, bit, taken)
    BY <1>3, <1>6, <2>0 DEF AcksInOrder, AcksFollowTaken, Channels
  <2>8. TakenMeansAllCurrent(t, bit, taken)
    BY <1>a, <1>3, <1>6, <2>a, <2>0, <2>2 DEF TakenMeansAllCurrent, Channels
  <2> QED
    BY <2>4, <2>5, <2>6, <2>7, <2>8 DEF Channels, t, u, q
<1>8. CASE q = "sender"
  <2>0. t["receiver"] = u["receiver"]
    BY <1>0, <1>5, <1>8
  <2>a. /\ n \in Nat
        /\ DOMAIN u["sender"] = 1..n /\ DOMAIN t["sender"] = 1..(n + 1)
        /\ \A i \in 1..n : t["sender"][i] = u["sender"][i]
        /\ t["sender"][n + 1] = d /\ d.pkt.destPort = "sender"
    BY <1>a, <1>5, <1>8
  <2>1. h.pkt.ack = bit =>
           /\ taken
           /\ \A j \in DOMAIN u["network"] :
                 AckAt(u, "network", j) => BitAt(u, "network", j) = bit
    <3>1. AckAt(s, "network", 1) /\ BitAt(s, "network", 1) = h.pkt.ack
      BY <1>a, <1>2, <1>8 DEF AckAt, BitAt
    <3>2. h.pkt.ack = bit => taken
      BY <1>2, <3>1 DEF Channels, AcksFollowTaken
    <3>3. h.pkt.ack = bit =>
             \A j \in DOMAIN s["network"] :
                1 < j /\ AckAt(s, "network", j) => BitAt(s, "network", j) = bit
      BY <1>2, <3>1 DEF Channels, AcksInOrder
    <3> HIDE DEF h, u
    <3> QED
      BY <1>1, <1>4, <3>2, <3>3 DEF AckAt, BitAt
  <2>2. (\E i \in DOMAIN u["sender"] : BitAt(u, "sender", i) = bit)
           => h.pkt.ack = bit
    BY <1>a, <1>1, <1>2, <1>4, <1>8 DEF Channels, AcksInOrder, AckAt, BitAt
  <2> HIDE DEF u, t, h, n, q
  <2> USE DEF DataAt, AckAt, BitAt
  <2>4. Addresses(t)
    BY <1>a, <1>3, <1>6, <2>a, <2>0 DEF Addresses, Channels
  <2>5. CurrentContent(t, bit, ackd) /\ DataInOrder(t, bit)
    BY <1>3, <1>6, <2>0 DEF CurrentContent, DataInOrder, Channels
  <2>6. TakenMeansAllCurrent(t, bit, taken)
    BY <1>3, <1>6, <2>0 DEF TakenMeansAllCurrent, Channels
  <2>7. AcksInOrder(t, bit)
    BY <1>a, <1>3, <1>6, <2>a, <2>0, <2>1, <2>2 DEF AcksInOrder, Channels
  <2>8. AcksFollowTaken(t, bit, taken)
    BY <1>a, <1>3, <1>6, <2>a, <2>0, <2>1 DEF AcksFollowTaken, Channels
  <2> QED
    BY <2>4, <2>5, <2>6, <2>7, <2>8 DEF Channels, t, u, q
<1> QED
  BY <1>2, <1>7, <1>8

(***************************************************************************)
(* The steps of the system.                                                *)
(***************************************************************************)

LEMMA DeliveredIsAppended ==
    ASSUME NEW s \in Queues, NEW p, NEW pkt, NEW ip, NEW port
    PROVE  \/ sendPacket(s, p, pkt, ip, port) = s
           \/ /\ ip = port
              /\ sendPacket(s, p, pkt, ip, port)
                   = Appended(s, port, [rcvdFrom |-> p, pkt |-> pkt])
BY DEF sendPacket, Delivered, Appended

LEMMA SendBits ==
    ASSUME sState \in SEND_0 .. ACK_1
    PROVE  /\ SendBit \in {0, 1}
           /\ sState \in {ACK_0, ACK_1} => AckBit = SendBit
           /\ sState = SEND_0 => SendBit = 0
           /\ sState = ACK_0 => SendBit = 0
           /\ sState = SEND_1 => SendBit = 1
           /\ sState = ACK_1 => SendBit = 1
BY DEF SendBit, AckBit, SEND_0, SEND_1, ACK_0, ACK_1

LEMMA SenderStep ==
    ASSUME TypeOK, TypeOK', InductiveInv, SenderNext,
           UNCHANGED <<receiverVars, networkVars>>
    PROVE  InductiveInv'
<1> DEFINE C == Channels(sock, SendBit, msgPtrAckdTo, Taken)
<1>0. /\ sock \in Queues /\ sock' \in Queues
      /\ "sender" \in Procs /\ "network" \in Procs
      /\ Taken \in BOOLEAN
      /\ sState \in SEND_0 .. ACK_1 /\ sState' \in SEND_0 .. ACK_1
      /\ msgPtr \in 0..MsgLen /\ msgPtrAckdTo \in 0..MsgLen
      /\ rState \in {0, 1} /\ numFinalTimeouts \in Nat
      /\ delayed' = << >> /\ message' = message /\ rResult' = rResult
      /\ rState' = rState /\ messageComplete' = messageComplete
  BY DEF TypeOK, SocketTypeOK, SenderTypeOK, ReceiverTypeOK, Queues, Procs,
         Taken, InductiveInv, receiverVars, networkVars
<1>a. C /\ SenderInv /\ ReceiverInv
  BY DEF InductiveInv
\* Steps that leave the bit and the acknowledged position alone.
<1>b. ASSUME SendBit' = SendBit, msgPtrAckdTo' = msgPtrAckdTo, SenderInv',
             Channels(sock', SendBit, msgPtrAckdTo, Taken)
      PROVE  InductiveInv'
  <2>1. Taken' = Taken
    BY <1>0, <1>b DEF Taken
  <2>2. ReceiverInv'
    BY <1>0, <1>a, <1>b, <2>1 DEF ReceiverInv
  <2>3. Channels(sock', SendBit', msgPtrAckdTo', Taken')
    BY <1>b, <2>1
  <2> QED
    BY <1>0, <1>b, <2>2, <2>3 DEF InductiveInv
<1>c. ASSUME sState' = sState PROVE SendBit' = SendBit
  BY <1>c DEF SendBit
<1>1. CASE SenderSetup
  <2>1. SenderInv'
    BY <1>1, <1>a DEF SenderSetup, SenderInv
  <2> QED
    BY <1>1, <1>a, <1>b, <1>c, <2>1 DEF SenderSetup
<1>2. CASE SenderSend
  <2>1. /\ msgPtr = msgPtrAckdTo /\ sState \in {SEND_0, SEND_1}
        /\ sResult = "running" /\ ~lastAckRcvd
        /\ msgPtr' = msgPtr + FragmentLen(msgPtr)
        /\ msgPtrAckdTo' = msgPtrAckdTo /\ lastAckRcvd' = lastAckRcvd
        /\ numFinalTimeouts' = numFinalTimeouts
        /\ lastPacketSent' = (lastPacketSent \/ msgPtr' = msgPtrAckdTo)
    BY <1>2, <1>a DEF SenderSend, Sending, LoopCondition, SenderInv
  <2>2. msgPtr' = msgPtrAckdTo => msgPtrAckdTo = MsgLen
    BY <1>0, <2>1, FragmentLenType
  <2>3. PICK works \in Works :
           IF works
           THEN /\ sock' = sendPacket(sock, "sender", Fragment(msgPtr, SendBit),
                                      "network", "network")
                /\ sState' = sState + 1
                /\ timer' = SENDER_TIMEOUT
                /\ UNCHANGED <<sResult, bound>>
           ELSE SenderExit("error", sock) /\ UNCHANGED <<sState, timer>>
    BY <1>2 DEF SenderSend
  <2>4. CASE works
    <3>1. sState' \in {ACK_0, ACK_1} /\ sResult' = "running" /\ SendBit' = SendBit
      BY <2>1, <2>3, <2>4 DEF SEND_0, SEND_1, ACK_0, ACK_1, SendBit
    <3>2. SenderInv'
      <4>1. sState' \notin {SEND_0, SEND_1}
        BY <3>1 DEF SEND_0, SEND_1, ACK_0, ACK_1
      <4>2. lastPacketSent' => msgPtrAckdTo = MsgLen
        BY <1>a, <2>1, <2>2 DEF SenderInv
      <4>3. numFinalTimeouts > 0 => lastPacketSent'
        BY <1>a, <2>1 DEF SenderInv
      <4> QED
        BY <2>1, <3>1, <4>1, <4>2, <4>3 DEF SenderInv
    <3>3. Channels(sock', SendBit, msgPtrAckdTo, Taken)
      <4> DEFINE d == [rcvdFrom |-> "sender", pkt |-> Fragment(msgPtr, SendBit)]
      <4>1. d \in Datagram
        BY <1>0, SendBits, FragmentType DEF Datagram, Procs
      <4>2. sock' = sock \/ sock' = Appended(sock, "network", d)
        BY <1>0, <2>3, <2>4, DeliveredIsAppended
      <4>3. /\ d.rcvdFrom = "sender" /\ d.pkt.srcPort = "sender"
            /\ d.pkt.destIP = "receiver" /\ d.pkt.destPort = "receiver"
            /\ d.pkt.ack = SendBit /\ d.pkt.at = msgPtrAckdTo
            /\ d.pkt.len = FragmentLen(msgPtrAckdTo)
        BY <2>1 DEF Fragment
      <4> HIDE DEF d
      <4> QED
        BY <1>0, <1>a, <4>1, <4>2, <4>3, SendKeepsChannels
    <3> QED
      BY <1>b, <2>1, <3>1, <3>2, <3>3
  <2>5. CASE ~works
    <3>1. sResult' = "error" /\ sState' = sState /\ sock' = Closed(sock, "sender")
      BY <2>3, <2>5 DEF SenderExit
    <3>2. SenderInv'
      BY <1>a, <2>1, <2>2, <3>1 DEF SenderInv, SEND_0, SEND_1, ACK_0, ACK_1
    <3>3. Channels(sock', SendBit, msgPtrAckdTo, Taken)
      BY <1>0, <1>a, <3>1, ClosedKeepsChannels
    <3> QED
      BY <1>b, <1>c, <2>1, <3>1, <3>2, <3>3
  <2> QED
    BY <2>4, <2>5
<1>3. CASE SenderTimeout
  <2>1. /\ sState \in {ACK_0, ACK_1} /\ sState' = sState - 1
        /\ msgPtr' = msgPtrAckdTo /\ msgPtrAckdTo' = msgPtrAckdTo
        /\ lastPacketSent' = lastPacketSent /\ lastAckRcvd' = lastAckRcvd
        /\ sResult' = "running" /\ sock' = sock
        /\ numFinalTimeouts' = numFinalTimeouts + (IF lastPacketSent THEN 1 ELSE 0)
    BY <1>3 DEF SenderTimeout, Awaiting
  <2>2. sState' \in {SEND_0, SEND_1} /\ SendBit' = SendBit
    BY <2>1 DEF SEND_0, SEND_1, ACK_0, ACK_1, SendBit
  <2>3. SenderInv'
    BY <1>0, <1>a, <2>1, <2>2 DEF SenderInv, SEND_0, SEND_1, ACK_0, ACK_1
  <2> QED
    BY <1>a, <1>b, <2>1, <2>2, <2>3
<1>4. CASE SenderDropCorrupt \/ SenderIgnoreOther
  <2>1. SenderInv' /\ sState' = sState /\ msgPtrAckdTo' = msgPtrAckdTo
    BY <1>4, <1>a DEF SenderDropCorrupt, SenderIgnoreOther, SenderInv
  <2>2. sock["sender"] # << >> /\ sock' = Received(sock, "sender")
    BY <1>4 DEF SenderDropCorrupt, SenderIgnoreOther
  <2>3. Channels(sock', SendBit, msgPtrAckdTo, Taken)
    BY <1>0, <1>a, <2>2, ReceivedKeepsChannels
  <2> QED
    BY <1>b, <1>c, <2>1, <2>3
<1>5. CASE SenderAcked
  <2>1. /\ sState \in {ACK_0, ACK_1} /\ sState' = (sState + 1) % (ACK_1 + 1)
        /\ msgPtr' = msgPtr /\ msgPtrAckdTo' = msgPtr
        /\ lastPacketSent' = lastPacketSent /\ lastAckRcvd' = lastPacketSent
        /\ numFinalTimeouts' = numFinalTimeouts
        /\ sResult' = "running" /\ sResult = "running"
        /\ sock["sender"] # << >> /\ sock' = Received(sock, "sender")
        /\ Head(sock["sender"]).pkt.ack = AckBit
    BY <1>5 DEF SenderAcked, Awaiting
  <2>2. sState' \in {SEND_0, SEND_1} /\ SendBit' = 1 - SendBit
    BY <2>1 DEF SEND_0, SEND_1, ACK_0, ACK_1, SendBit
  <2>3. AckBit = SendBit /\ SendBit \in {0, 1}
    BY <1>0, <2>1, SendBits
  <2>4. Taken /\ Channels(sock', 1 - SendBit, msgPtrAckdTo', FALSE)
    BY <1>0, <1>a, <2>1, <2>3, AckedKeepsChannels
  <2>5. Taken' = FALSE
    BY <1>0, <2>2, <2>3, <2>4 DEF Taken
  <2>6. Channels(sock', SendBit', msgPtrAckdTo', Taken')
    BY <2>2, <2>4, <2>5
  <2>7. msgPtr = msgPtrAckdTo + FragmentLen(msgPtrAckdTo)
    BY <1>a, <2>1 DEF SenderInv
  <2>8. lastPacketSent => msgPtr = MsgLen
    BY <1>0, <1>a, <2>7, FragmentLenType DEF SenderInv
  <2>9. SenderInv'
    BY <1>a, <2>1, <2>2, <2>8 DEF SenderInv, SEND_0, SEND_1, ACK_0, ACK_1
  <2>10. ReceiverInv'
    BY <1>0, <1>a, <2>1, <2>4, <2>5, <2>7 DEF ReceiverInv
  <2> QED
    BY <1>0, <2>6, <2>9, <2>10 DEF InductiveInv
<1>6. CASE SenderReadError \/ SenderReturn
  <2>1. /\ sState' = sState /\ msgPtrAckdTo' = msgPtrAckdTo /\ msgPtr' = msgPtr
        /\ lastPacketSent' = lastPacketSent /\ lastAckRcvd' = lastAckRcvd
        /\ numFinalTimeouts' = numFinalTimeouts
        /\ sResult' = "error" \/ (sResult' = "sent" /\ ~LoopCondition)
        /\ sock' = Closed(sock, "sender")
    BY <1>6 DEF SenderReadError, SenderReturn, SenderExit
  <2>2. ~LoopCondition => lastAckRcvd \/ numFinalTimeouts > 0
    <3>1. MAX_FINAL_TIMEOUTS > 0 /\ MAX_FINAL_TIMEOUTS \in Nat
      BY FinalTimeoutsAssumption DEF FinalTimeoutsAssumption
    <3>2. numFinalTimeouts < MAX_FINAL_TIMEOUTS \/ numFinalTimeouts > 0
      BY <3>1, <1>0
    <3> QED
      BY <3>2 DEF LoopCondition
  <2>3. SenderInv'
    BY <1>a, <2>1, <2>2 DEF SenderInv
  <2>4. Channels(sock', SendBit, msgPtrAckdTo, Taken)
    BY <1>0, <1>a, <2>1, ClosedKeepsChannels
  <2> QED
    BY <1>b, <1>c, <2>1, <2>3, <2>4
<1> QED
  BY <1>1, <1>2, <1>3, <1>4, <1>5, <1>6 DEF SenderNext

\* Appending the fragment at the end of a prefix gives the longer prefix.
LEMMA TextGrows ==
    ASSUME NEW n \in Nat, NEW len \in Nat
    PROVE  /\ Text(n) \o Chars(n, len) = Text(n + len)
           /\ Len(Text(n)) = n
           /\ Text(n) \in Seq(Nat)
<1>1. \A m \in Nat : Text(m) \in Seq(Nat) /\ Len(Text(m)) = m
                    /\ \A i \in 1..m : Text(m)[i] = i
  <2> SUFFICES ASSUME NEW m \in Nat
               PROVE  /\ Text(m) \in Seq(Nat) /\ Len(Text(m)) = m
                      /\ \A i \in 1..m : Text(m)[i] = i
    OBVIOUS
  <2>1. Text(m) \in [1..m -> Nat]
    BY DEF Text
  <2>2. Text(m) \in Seq(Nat) /\ DOMAIN Text(m) = 1..m
    BY <2>1, SeqDef
  <2> QED
    BY <2>2, LenProperties DEF Text
<1>2. /\ Chars(n, len) \in Seq(Nat) /\ Len(Chars(n, len)) = len
      /\ \A i \in 1..len : Chars(n, len)[i] = n + i
  BY CharsType
<1> DEFINE t == Text(n) \o Chars(n, len)
<1>3. /\ t \in Seq(Nat) /\ Len(t) = n + len
      /\ \A i \in 1..(n + len) :
            t[i] = IF i <= n THEN Text(n)[i] ELSE Chars(n, len)[i - n]
  <2>1. Text(n) \in Seq(Nat) /\ Len(Text(n)) = n
    BY <1>1
  <2>2. /\ t \in Seq(Nat) /\ Len(t) = Len(Text(n)) + Len(Chars(n, len))
        /\ \A i \in 1..(Len(Text(n)) + Len(Chars(n, len))) :
              t[i] = IF i <= Len(Text(n)) THEN Text(n)[i]
                                         ELSE Chars(n, len)[i - Len(Text(n))]
    BY <1>2, <2>1, ConcatProperties
  <2> HIDE DEF t
  <2> QED
    BY <1>2, <2>1, <2>2
<1> HIDE DEF t
<1>4. \A i \in 1..(n + len) : t[i] = i
  <2> SUFFICES ASSUME NEW i \in 1..(n + len) PROVE t[i] = i
    OBVIOUS
  <2>1. CASE i <= n
    <3>1. i \in 1..n
      BY <2>1
    <3> QED
      BY <1>1, <1>3, <2>1, <3>1
  <2>2. CASE ~(i <= n)
    <3>1. i - n \in 1..len
      BY <2>2
    <3> QED
      BY <1>2, <1>3, <2>2, <3>1
  <2> QED
    BY <2>1, <2>2
<1>5. t = Text(n + len)
  BY <1>1, <1>3, <1>4, SeqEqual
<1> QED
  BY <1>1, <1>5 DEF t

LEMMA ReceiverStep ==
    ASSUME RoomForMessage, ClearedMemory,
           TypeOK, TypeOK', InductiveInv, ReceiverNext,
           UNCHANGED <<senderVars, networkVars>>
    PROVE  InductiveInv'
<1>0. /\ sock \in Queues /\ sock' \in Queues
      /\ "receiver" \in Procs /\ "network" \in Procs
      /\ SendBit' = SendBit /\ msgPtrAckdTo' = msgPtrAckdTo
      /\ SendBit \in {0, 1} /\ rState \in {0, 1} /\ Taken \in BOOLEAN
      /\ msgPtrAckdTo \in 0..MsgLen /\ message \in Seq(Nat)
      /\ delayed' = << >> /\ SenderInv'
  BY SendBits
     DEF TypeOK, SocketTypeOK, SenderTypeOK, ReceiverTypeOK, Queues, Procs,
         Taken, InductiveInv, SenderInv, SendBit, senderVars, networkVars
<1>a. /\ Channels(sock, SendBit, msgPtrAckdTo, Taken)
      /\ SenderInv /\ ReceiverInv
  BY DEF InductiveInv
\* Steps that do not take the current fragment.
<1>b. ASSUME rState' = rState, ReceiverInv',
             Channels(sock', SendBit, msgPtrAckdTo, Taken)
      PROVE  InductiveInv'
  <2>1. Taken' = Taken
    BY <1>0, <1>b DEF Taken
  <2>2. Channels(sock', SendBit', msgPtrAckdTo', Taken')
    BY <1>0, <1>b, <2>1
  <2> QED
    BY <1>0, <1>b, <2>2 DEF InductiveInv
<1>c. ASSUME rState' = rState PROVE Taken' = Taken
  BY <1>0, <1>c DEF Taken
<1>1. CASE ReceiverSetup
  <2>1. /\ rState' = rState /\ sock' = sock
        /\ messageComplete' = messageComplete /\ message = << >>
        /\ rResult' \in {"running", "null"}
    BY <1>1, <1>a DEF ReceiverSetup, ReceiverInv
  <2>2. message' = message
    <3>1. [i \in 1..0 |-> GARBAGE] = << >>
      <4>1. [i \in 1..0 |-> GARBAGE] \in [1..0 -> Nat]
        BY DEF GARBAGE
      <4>2. [i \in 1..0 |-> GARBAGE] \in Seq(Nat)
        BY <4>1, SeqDef
      <4>3. Len([i \in 1..0 |-> GARBAGE]) = 0
        BY <4>2, LenProperties
      <4> QED
        BY <4>2, <4>3, EmptySeq
    <3> QED
      BY <1>1, <2>1, <3>1 DEF ReceiverSetup, ClearedMemory
  <2>3. ReceiverInv'
    BY <1>0, <1>a, <1>c, <2>1, <2>2 DEF ReceiverInv
  <2> QED
    BY <1>a, <1>b, <2>1, <2>3
<1>2. CASE ReceiverPacket
  <2> DEFINE h == Head(sock["receiver"])
             u == Received(sock, "receiver")
             now == Taken \/ h.pkt.ack = SendBit
  <2>1. /\ sock["receiver"] # << >> /\ rResult' = "running" /\ ~messageComplete
        /\ ReceiverAccept(h.pkt) \/ ReceiverDuplicate(h.pkt)
        /\ \/ sock' = u
           \/ sock' = sendPacket(u, "receiver", Reply(h.pkt), h.rcvdFrom, h.rcvdFrom)
    BY <1>2 DEF ReceiverPacket
  <2>2. /\ h.pkt.srcIP = "sender" /\ h.pkt.srcPort = "sender"
        /\ h.rcvdFrom = "network"
        /\ h.pkt.ack = SendBit =>
              h.pkt.at = msgPtrAckdTo /\ h.pkt.len = FragmentLen(msgPtrAckdTo)
        /\ Taken => h.pkt.ack = SendBit
        /\ Channels(u, SendBit, msgPtrAckdTo, now)
    BY <1>0, <1>a, <2>1, TakingKeepsChannels
  <2>3. u \in Queues /\ h \in Datagram /\ h.pkt \in rdpPacket
    BY <1>0, <2>1, ReceivedType DEF Queues
  <2>4. h.pkt.ack \in {0, 1} /\ now \in BOOLEAN
    BY <2>3 DEF rdpPacket
  <2>5. Channels(sock', SendBit, msgPtrAckdTo, now)
    <3> DEFINE d == [rcvdFrom |-> "receiver", pkt |-> Reply(h.pkt)]
    <3>1. d \in Datagram
      BY <2>3, ReplyType DEF Datagram, Procs
    <3>2. sock' = u \/ sock' = Appended(u, "network", d)
      BY <2>1, <2>2, <2>3, DeliveredIsAppended
    <3>3. /\ d.rcvdFrom = "receiver" /\ d.pkt.destIP = "sender"
          /\ d.pkt.destPort = "sender" /\ d.pkt.ack = h.pkt.ack
      BY <2>2, <2>3 DEF Reply, rdpPacket
    <3>4. now <=> d.pkt.ack = SendBit
      BY <2>2, <3>3
    <3> HIDE DEF d, u, now, h
    <3> QED
      BY <1>0, <2>2, <2>3, <2>4, <3>1, <3>2, <3>3, <3>4, AnswerKeepsChannels
  <2>6. CASE ReceiverDuplicate(h.pkt)
    <3>1. /\ rState' = rState /\ message' = message
          /\ messageComplete' = messageComplete /\ h.pkt.ack # rState
      BY <2>6 DEF ReceiverDuplicate
    <3>2. now = Taken
      BY <1>0, <2>2, <2>4, <3>1 DEF Taken
    <3>3. ReceiverInv'
      BY <1>0, <1>a, <1>c, <2>1, <3>1 DEF ReceiverInv
    <3> QED
      BY <1>b, <2>5, <3>1, <3>2, <3>3
  <2>7. CASE ReceiverAccept(h.pkt)
    <3>1. h.pkt.ack = rState /\ rState' = 1 - rState
      BY <2>7 DEF ReceiverAccept
    <3>2. Taken = FALSE /\ h.pkt.ack = SendBit
      BY <1>0, <2>2, <2>4, <3>1 DEF Taken
    <3>3. Taken' = TRUE /\ now = TRUE
      BY <1>0, <3>1, <3>2 DEF Taken
    <3>4. Channels(sock', SendBit', msgPtrAckdTo', Taken')
      BY <1>0, <2>5, <3>3
    <3>5. /\ message = Text(msgPtrAckdTo) /\ Len(message) = msgPtrAckdTo
          /\ msgPtrAckdTo \in Nat
      BY <1>0, <1>a, <3>2, MessageAssumption DEF ReceiverInv, MessageAssumption
    <3>6. /\ h.pkt.at = msgPtrAckdTo /\ h.pkt.len = FragmentLen(msgPtrAckdTo)
          /\ FragmentLen(msgPtrAckdTo) \in Nat
          /\ FragmentLen(msgPtrAckdTo) = 0 <=> msgPtrAckdTo = MsgLen
      <4>1. /\ FragmentLen(msgPtrAckdTo) \in 0..FRAG_SIZE
            /\ FragmentLen(msgPtrAckdTo) = 0 <=> msgPtrAckdTo = MsgLen
        BY <1>0, FragmentLenType
      <4> QED
        BY <2>2, <3>2, <4>1, MessageAssumption DEF MessageAssumption
    <3>7. Fits(h.pkt) <=> msgPtrAckdTo # MsgLen
      <4>1. msgPtrAckdTo # MsgLen => msgPtrAckdTo + FRAG_SIZE < MAX_MSG_SIZE
        BY <1>0, MessageAssumption DEF RoomForMessage, MessageAssumption
      <4> QED
        BY <3>5, <3>6, <4>1 DEF Fits
    <3>8. CASE msgPtrAckdTo # MsgLen
      <4>1. /\ message' = Text(msgPtrAckdTo + FragmentLen(msgPtrAckdTo))
            /\ messageComplete' = messageComplete
        BY <2>7, <3>5, <3>6, <3>7, <3>8, TextGrows DEF ReceiverAccept
      <4>2. Len(message') = msgPtrAckdTo + FragmentLen(msgPtrAckdTo)
        <5>1. \A n \in Nat : Len(Text(n)) = n
          BY TextGrows
        <5>2. msgPtrAckdTo + FragmentLen(msgPtrAckdTo) \in Nat
          BY <3>5, <3>6
        <5> QED
          BY <4>1, <5>1, <5>2
      <4>3. ReceiverInv'
        BY <1>0, <2>1, <3>3, <4>1, <4>2 DEF ReceiverInv
      <4> QED
        BY <1>0, <3>4, <4>3 DEF InductiveInv
    <3>9. CASE msgPtrAckdTo = MsgLen
      <4>1. message' = message
        BY <2>7, <3>7, <3>9 DEF ReceiverAccept
      <4>2. Len(message) = msgPtrAckdTo + FragmentLen(msgPtrAckdTo)
        BY <3>5, <3>6, <3>9
      <4>3. ReceiverInv'
        BY <1>0, <1>a, <2>1, <3>3, <3>5, <3>9, <4>1, <4>2 DEF ReceiverInv
      <4> QED
        BY <1>0, <3>4, <4>3 DEF InductiveInv
    <3> QED
      BY <3>8, <3>9
  <2> QED
    BY <2>1, <2>6, <2>7
<1>3. CASE ReceiverDropCorrupt
  <2>1. /\ rState' = rState /\ message' = message /\ rResult' = rResult
        /\ messageComplete' = messageComplete
        /\ sock["receiver"] # << >> /\ sock' = Received(sock, "receiver")
    BY <1>3 DEF ReceiverDropCorrupt, receiverVars
  <2>2. ReceiverInv'
    BY <1>0, <1>a, <1>c, <2>1 DEF ReceiverInv
  <2>3. Channels(sock', SendBit, msgPtrAckdTo, Taken)
    BY <1>0, <1>a, <2>1, ReceivedKeepsChannels
  <2> QED
    BY <1>b, <2>1, <2>2, <2>3
<1>4. CASE ReceiverReadError \/ ReceiverReturn
  <2>1. /\ rState' = rState /\ message' = message
        /\ messageComplete' = messageComplete
        /\ rResult' = "dangling" \/ (rResult' = "text" /\ messageComplete)
        /\ sock' = Closed(sock, "receiver")
    BY <1>4 DEF ReceiverReadError, ReceiverReturn, ReceiverExit
  <2>2. ReceiverInv'
    BY <1>0, <1>a, <1>c, <2>1 DEF ReceiverInv
  <2>3. Channels(sock', SendBit, msgPtrAckdTo, Taken)
    BY <1>0, <1>a, <2>1, ClosedKeepsChannels
  <2> QED
    BY <1>b, <2>1, <2>2, <2>3
<1> QED
  BY <1>1, <1>2, <1>3, <1>4 DEF ReceiverNext

LEMMA NetworkStep ==
    ASSUME InOrderNetwork, TypeOK, TypeOK', InductiveInv, NetworkNext,
           UNCHANGED <<senderVars, receiverVars>>
    PROVE  InductiveInv'
<1>0. /\ sock \in Queues /\ sock' \in Queues /\ "network" \in Procs
      /\ SendBit' = SendBit /\ msgPtrAckdTo' = msgPtrAckdTo /\ Taken' = Taken
      /\ Taken \in BOOLEAN /\ SenderInv' /\ ReceiverInv'
      /\ Channels(sock, SendBit, msgPtrAckdTo, Taken) /\ delayed = << >>
  BY DEF TypeOK, SocketTypeOK, Queues, Procs, Taken, InductiveInv, SenderInv,
         ReceiverInv, SendBit, senderVars, receiverVars
<1>a. ASSUME delayed' = << >>, Channels(sock', SendBit, msgPtrAckdTo, Taken)
      PROVE  InductiveInv'
  BY <1>0, <1>a DEF InductiveInv
<1>1. CASE NetworkSetup
  BY <1>0, <1>1, <1>a DEF NetworkSetup
<1>2. CASE NetworkDrop
  <2>1. /\ sock["network"] # << >> /\ sock' = Received(sock, "network")
        /\ delayed' = << >>
    BY <1>0, <1>2 DEF NetworkDrop, NetworkReady, Discard
  <2> QED
    BY <1>0, <1>a, <2>1, ReceivedKeepsChannels
<1>3. CASE NetworkReadError
  <2>1. sock' = Closed(sock, "network") /\ delayed' = << >>
    BY <1>3 DEF NetworkReadError
  <2> QED
    BY <1>0, <1>a, <2>1, ClosedKeepsChannels
<1>4. ASSUME NEW corrupt \in BOOLEAN, NetworkForward(corrupt)
      PROVE  InductiveInv'
  <2> DEFINE h == Head(sock["network"])
             u == Received(sock, "network")
             pkt == Stamped(h, corrupt)
             d == [rcvdFrom |-> "network", pkt |-> pkt]
  <2>1. sock["network"] # << >> /\ (ForwardNow(pkt) \/ ForwardLater(pkt))
    BY <1>4 DEF NetworkForward, NetworkReady
  <2>2. ~ForwardLater(pkt)
    BY DEF ForwardLater, randomChance, InOrderNetwork
  <2>3. /\ sock' = sendPacket(u, "network", pkt, pkt.destIP, pkt.destPort)
        /\ delayed' = << >>
    BY <1>0, <2>1, <2>2 DEF ForwardNow
  <2>4. u \in Queues /\ h \in Datagram
    BY <1>0, <2>1, ReceivedType DEF Queues
  <2>5. d \in Datagram
    BY <2>4, StampedType DEF Datagram, Procs
  <2>6. sock' = u \/ sock' = Appended(u, d.pkt.destPort, d)
    BY <2>3, <2>4, DeliveredIsAppended
  <2>7. /\ d.pkt.srcIP = h.rcvdFrom /\ d.pkt.srcPort = h.pkt.srcPort
        /\ d.pkt.destPort = h.pkt.destPort
        /\ d.pkt.ack = h.pkt.ack /\ d.pkt.at = h.pkt.at
        /\ d.pkt.len = h.pkt.len /\ d.rcvdFrom = "network"
    BY <2>4 DEF Stamped, Datagram, rdpPacket
  <2>8. Channels(u, SendBit, msgPtrAckdTo, Taken)
    BY <1>0, <2>1, ReceivedKeepsChannels
  <2>9. Channels(Appended(u, d.pkt.destPort, d), SendBit, msgPtrAckdTo, Taken)
    <3> HIDE DEF d
    <3> QED
      BY <1>0, <2>1, <2>5, <2>7, ForwardingKeepsChannels
  <2> QED
    BY <1>a, <2>3, <2>6, <2>8, <2>9
<1>5. ASSUME NEW k \in DOMAIN delayed
      PROVE  FALSE
  BY <1>0
<1> QED
  BY <1>1, <1>2, <1>3, <1>4, <1>5 DEF NetworkNext

LEMMA TickStep ==
    ASSUME InductiveInv, Tick
    PROVE  InductiveInv'
<1>1. delayed' = << >>
  BY DEF InductiveInv, Tick
<1>2. /\ UNCHANGED <<sock, msgPtrAckdTo, rState, sState>>
      /\ SendBit' = SendBit /\ Taken' = Taken
  BY DEF Tick, sockVars, receiverVars, SendBit, Taken
<1>3. SenderInv' /\ ReceiverInv'
  BY <1>2 DEF InductiveInv, SenderInv, ReceiverInv, Tick, receiverVars
<1>4. Channels(sock', SendBit', msgPtrAckdTo', Taken')
  BY <1>2 DEF InductiveInv
<1> QED
  BY <1>1, <1>3, <1>4 DEF InductiveInv

LEMMA InitInductive ==
    ASSUME Init
    PROVE  InductiveInv
<1>1. /\ delayed = << >> /\ message = << >> /\ Len(message) = 0
      /\ rState = 0 /\ sState = 0 /\ msgPtr = 0 /\ msgPtrAckdTo = 0
  BY DEF Init, NetworkInit, ReceiverInit, SenderInit, SEND_0
<1>2. SendBit = 0 /\ Taken = FALSE
  BY <1>1 DEF SendBit, Taken, SEND_1
<1>3. \A p \in Procs : sock[p] = << >> /\ DOMAIN sock[p] = {}
  BY DEF Init, SocketInit
<1>4. "sender" \in Procs /\ "receiver" \in Procs /\ "network" \in Procs
  BY DEF Procs
<1>5. Channels(sock, SendBit, msgPtrAckdTo, Taken)
  BY <1>3, <1>4
     DEF Channels, Addresses, CurrentContent, DataInOrder, AcksInOrder,
         TakenMeansAllCurrent, AcksFollowTaken, DataAt, AckAt
<1>6. SenderInv
  BY <1>1 DEF Init, SenderInit, SenderInv, SEND_0, ACK_0, ACK_1
<1>7. Text(0) = << >>
  BY TextGrows, EmptySeq
<1>8. ReceiverInv
  BY <1>1, <1>2, <1>7 DEF Init, ReceiverInit, ReceiverInv
<1> QED
  BY <1>1, <1>5, <1>6, <1>8 DEF InductiveInv

\* The inductive invariant holds in every network that does not delay packets.
THEOREM InductiveInvHolds ==
    ASSUME InOrderNetwork, RoomForMessage, ClearedMemory
    PROVE  Spec => []InductiveInv
<1>1. Init => InductiveInv
  BY InitInductive
<1>2. InductiveInv /\ TypeOK /\ TypeOK' /\ [Next]_vars => InductiveInv'
  <2> SUFFICES ASSUME InductiveInv, TypeOK, TypeOK', [Next]_vars
               PROVE  InductiveInv'
    OBVIOUS
  <2>1. CASE Sender
    BY <2>1, SenderStep DEF Sender
  <2>2. CASE Receiver
    BY <2>2, ReceiverStep DEF Receiver
  <2>3. CASE Network
    BY <2>3, NetworkStep DEF Network
  <2>4. CASE Tick
    BY <2>4, TickStep
  <2>5. CASE UNCHANGED vars
    <3>1. SendBit' = SendBit /\ Taken' = Taken
      BY <2>5 DEF vars, senderVars, receiverVars, SendBit, Taken
    <3>2. SenderInv' /\ ReceiverInv'
      BY <2>5, <3>1 DEF InductiveInv, SenderInv, ReceiverInv, vars, senderVars,
                        receiverVars
    <3> QED
      BY <2>5, <3>1, <3>2
         DEF InductiveInv, vars, sockVars, senderVars, networkVars
  <2> QED
    BY <2>1, <2>2, <2>3, <2>4, <2>5 DEF Next
<1> QED
  BY <1>1, <1>2, TypeCorrect, PTL DEF Spec

(***************************************************************************)
(* What follows from the invariant.                                        *)
(***************************************************************************)

LEMMA InvariantImplies ==
    ASSUME TypeOK, InductiveInv
    PROVE  /\ TextIsPrefix
           /\ AckedIsStored
           /\ ReportedMeansDelivered
           /\ ReturnedTextComplete
<1>1. /\ msgPtrAckdTo \in 0..MsgLen /\ message = Text(Len(message))
      /\ FragmentLen(msgPtrAckdTo) \in 0..FRAG_SIZE
      /\ FragmentLen(msgPtrAckdTo) = 0 <=> msgPtrAckdTo = MsgLen
      /\ \/ Len(message) = msgPtrAckdTo
         \/ Len(message) = msgPtrAckdTo + FragmentLen(msgPtrAckdTo)
  BY FragmentLenType DEF TypeOK, SenderTypeOK, InductiveInv, ReceiverInv
<1>2. msgPtrAckdTo \in Nat /\ FragmentLen(msgPtrAckdTo) \in Nat
  BY <1>1, MessageAssumption DEF MessageAssumption
<1>3. TextIsPrefix
  BY <1>1 DEF TextIsPrefix
<1>4. AckedIsStored
  BY <1>1, <1>2 DEF AckedIsStored
<1>5. ReportedMeansDelivered
  <2>1. sResult = "sent" => msgPtrAckdTo = MsgLen
    BY DEF InductiveInv, SenderInv
  <2>2. msgPtrAckdTo = MsgLen => Len(message) = MsgLen
    BY <1>1, <1>2
  <2> QED
    BY <1>1, <2>1, <2>2 DEF ReportedMeansDelivered
<1>6. ReturnedTextComplete
  BY <1>1 DEF ReturnedTextComplete, InductiveInv, ReceiverInv
<1> QED
  BY <1>3, <1>4, <1>5, <1>6

\* In a network that loses and corrupts packets but keeps their order, with a
\* buffer that has room: the receiver's text is always a beginning of the
\* message, it holds whatever was acknowledged, sendMessage returns 0 only when
\* all of it is there, and receiveMessage returns no shorter text.
THEOREM TransferIsSafe ==
    ASSUME InOrderNetwork, RoomForMessage, ClearedMemory
    PROVE  Spec => [](/\ TextIsPrefix
                      /\ AckedIsStored
                      /\ ReportedMeansDelivered
                      /\ ReturnedTextComplete)
<1>1. Spec => []InductiveInv
  BY InductiveInvHolds
<1>2. TypeOK /\ InductiveInv =>
         TextIsPrefix /\ AckedIsStored /\ ReportedMeansDelivered
         /\ ReturnedTextComplete
  BY InvariantImplies
<1> QED
  BY <1>1, <1>2, TypeCorrect, PTL

(***************************************************************************)
(* Refinement: every step of the three processes is a step of the abstract *)
(* transfer or leaves it unchanged.                                        *)
(***************************************************************************)

\* The results only the component that returns changes, and only once.
LEMMA SenderResults ==
    ASSUME SenderNext, sResult' # sResult
    PROVE  sResult \in {"setup", "running"} /\ sResult' \in {"running", "sent", "error"}
<1>1. CASE SenderSend
  BY <1>1 DEF SenderSend, Sending, SenderExit
<1>2. CASE SenderSetup \/ SenderTimeout \/ SenderDropCorrupt \/ SenderAcked
           \/ SenderIgnoreOther
  BY <1>2 DEF SenderSetup, SenderTimeout, SenderDropCorrupt, SenderAcked,
              SenderIgnoreOther
<1>3. CASE SenderReadError \/ SenderReturn
  BY <1>3 DEF SenderReadError, SenderReturn, SenderExit, Awaiting
<1> QED
  BY <1>1, <1>2, <1>3 DEF SenderNext

LEMMA ReceiverResults ==
    ASSUME ReceiverNext, rResult' # rResult
    PROVE  /\ rResult \in {"setup", "running"}
           /\ rResult' \in {"running", "null", "text", "dangling"}
<1>1. CASE ReceiverSetup
  BY <1>1 DEF ReceiverSetup
<1>2. CASE ReceiverPacket \/ ReceiverDropCorrupt
  BY <1>2 DEF ReceiverPacket, ReceiverDropCorrupt, receiverVars
<1>3. CASE ReceiverReadError \/ ReceiverReturn
  BY <1>3 DEF ReceiverReadError, ReceiverReturn, ReceiverExit
<1> QED
  BY <1>1, <1>2, <1>3 DEF ReceiverNext

\* The text changes only when the receiver takes the current fragment.
LEMMA ReceiverStores ==
    ASSUME TypeOK, TypeOK', InductiveInv, InductiveInv', ReceiverNext,
           UNCHANGED senderVars, message' # message
    PROVE  /\ rResult = "running" /\ rResult' = "running"
           /\ Len(message) = msgPtrAckdTo
           /\ Len(message') = msgPtrAckdTo + FragmentLen(msgPtrAckdTo)
           /\ Len(message') > Len(message)
<1>0. /\ SendBit' = SendBit /\ msgPtrAckdTo' = msgPtrAckdTo
      /\ SendBit \in {0, 1} /\ rState \in {0, 1} /\ sock \in Queues
      /\ msgPtrAckdTo \in 0..MsgLen /\ "receiver" \in Procs /\ Taken \in BOOLEAN
      /\ Channels(sock, SendBit, msgPtrAckdTo, Taken)
      /\ ReceiverInv /\ ReceiverInv'
  BY SendBits
     DEF senderVars, SendBit, TypeOK, SenderTypeOK, ReceiverTypeOK, Queues,
         SocketTypeOK, Procs, InductiveInv, Taken
<1>1. CASE ReceiverSetup
  <2>1. /\ message = << >> /\ rState' = rState
    BY <1>0, <1>1 DEF ReceiverSetup, ReceiverInv
  <2>2. Len(message') = Len(message)
    BY <1>0, <2>1 DEF ReceiverInv, Taken
  <2>3. message' = message
    BY <1>0, <2>2 DEF ReceiverInv
  <2> QED
    BY <2>3
<1>2. CASE ReceiverPacket
  <2> DEFINE h == Head(sock["receiver"])
  <2>1. /\ rResult = "running" /\ rResult' = "running"
        /\ sock["receiver"] # << >>
        /\ ReceiverAccept(h.pkt) \/ ReceiverDuplicate(h.pkt)
    BY <1>2 DEF ReceiverPacket
  <2>2. /\ h.pkt.ack = rState /\ rState' = 1 - rState
        /\ Fits(h.pkt)
    BY <2>1 DEF ReceiverDuplicate, ReceiverAccept
  <2>3. /\ Taken => h.pkt.ack = SendBit
        /\ h.pkt.ack = SendBit => h.pkt.len = FragmentLen(msgPtrAckdTo)
    BY <1>0, <2>1, TakingKeepsChannels
  <2>4. Taken = FALSE /\ Taken' = TRUE /\ h.pkt.ack = SendBit
    BY <1>0, <2>2, <2>3 DEF Taken
  <2>5. /\ Len(message) = msgPtrAckdTo
        /\ Len(message') = msgPtrAckdTo + FragmentLen(msgPtrAckdTo)
    BY <1>0, <2>4 DEF ReceiverInv
  <2>6. FragmentLen(msgPtrAckdTo) > 0
    BY <2>2, <2>3, <2>4 DEF Fits
  <2>7. FragmentLen(msgPtrAckdTo) \in 0..FRAG_SIZE
    BY <1>0, FragmentLenType
  <2> QED
    BY <1>0, <2>1, <2>5, <2>6, <2>7, MessageAssumption DEF MessageAssumption
<1>3. CASE ReceiverDropCorrupt \/ ReceiverReadError \/ ReceiverReturn
  BY <1>3 DEF ReceiverDropCorrupt, ReceiverReadError, ReceiverReturn, receiverVars
<1> QED
  BY <1>1, <1>2, <1>3 DEF ReceiverNext

LEMMA StepImplements ==
    ASSUME TypeOK, TypeOK', InductiveInv, InductiveInv', [Next]_vars
    PROVE  [Transfer!Next]_(Transfer!vars)
<1> USE DEF Transfer!Next, Transfer!vars
<1>0. /\ ReportedMeansDelivered' /\ ReturnedTextComplete' /\ message' = Text(Len(message'))
      /\ Len(message') \in Nat /\ Len(message') <= MsgLen
  <2>1. /\ TextIsPrefix' /\ ReportedMeansDelivered' /\ ReturnedTextComplete'
        /\ AckedIsStored'
    BY InvariantImplies, PTL
  <2>2. msgPtrAckdTo' \in 0..MsgLen /\ message' \in Seq(Nat)
    BY DEF TypeOK, SenderTypeOK, ReceiverTypeOK
  <2>3. /\ msgPtrAckdTo' + FragmentLen(msgPtrAckdTo') \in 0..MsgLen
        /\ FragmentLen(msgPtrAckdTo') \in 0..FRAG_SIZE
    BY <2>2, FragmentLenType
  <2> QED
    BY <2>1, <2>2, <2>3, MessageAssumption
       DEF TextIsPrefix, AckedIsStored, MessageAssumption
<1>1. CASE Sender
  <2>1. message' = message /\ rResult' = rResult
    BY <1>1 DEF Sender, receiverVars
  <2>2. CASE sResult' = sResult
    BY <2>1, <2>2
  <2>3. CASE sResult' # sResult
    <3>1. sResult \in {"setup", "running"} /\ sResult' \in {"running", "sent", "error"}
      BY <1>1, <2>3, SenderResults DEF Sender
    <3>2. sResult' = "sent" => message = Text(MsgLen)
      BY <1>0, <2>1 DEF ReportedMeansDelivered
    <3>3. CASE sResult' = "running"
      BY <2>1, <3>1, <3>3
    <3>4. CASE sResult' \in {"sent", "error"}
      <4>1. Transfer!SendReturns
        BY <2>1, <3>1, <3>2, <3>4
           DEF Transfer!SendReturns, Transfer!Whole, Transfer!Prefix, Text
      <4> QED
        BY <4>1
    <3> QED
      BY <3>1, <3>3, <3>4
  <2> QED
    BY <2>2, <2>3
<1>2. CASE Receiver
  <2>1. sResult' = sResult /\ ReceiverNext /\ UNCHANGED senderVars
    BY <1>2 DEF Receiver, senderVars
  <2>2. CASE message' # message
    <3>1. /\ rResult = "running" /\ rResult' = "running"
          /\ Len(message') > Len(message)
      BY <2>1, <2>2, ReceiverStores
    <3>2. Len(message) \in Nat
      BY DEF TypeOK, ReceiverTypeOK
    <3>3. Len(message') \in 1..MsgLen
      BY <1>0, <3>1, <3>2, MessageAssumption DEF MessageAssumption
    <3>4. Transfer!Store
      BY <1>0, <2>1, <3>1, <3>3 DEF Transfer!Store, Transfer!Prefix, Text
    <3> QED
      BY <3>4
  <2>3. CASE message' = message /\ rResult' = rResult
    BY <2>1, <2>3
  <2>4. CASE message' = message /\ rResult' # rResult
    <3>1. /\ rResult \in {"setup", "running"}
          /\ rResult' \in {"running", "null", "text", "dangling"}
      BY <2>1, <2>4, ReceiverResults
    <3>2. rResult' = "text" => message = Text(MsgLen)
      BY <1>0, <2>4 DEF ReturnedTextComplete
    <3>3. CASE rResult' = "running"
      BY <2>1, <2>4, <3>1, <3>3
    <3>4. CASE rResult' \in {"null", "dangling", "text"}
      <4>1. Transfer!ReceiveReturns
        BY <2>1, <2>4, <3>1, <3>2, <3>4
           DEF Transfer!ReceiveReturns, Transfer!Whole, Transfer!Prefix, Text
      <4> QED
        BY <4>1
    <3> QED
      BY <3>1, <3>3, <3>4
  <2> QED
    BY <2>2, <2>3, <2>4
<1>3. CASE Network \/ Tick \/ UNCHANGED vars
  BY <1>3 DEF Network, Tick, vars, senderVars, receiverVars
<1> QED
  BY <1>1, <1>2, <1>3 DEF Next

\* In order, with room and cleared memory, the protocol implements the
\* abstract transfer: what its user sees of the packets, bits and timeouts of
\* rdtSender.c, rdtReceiver.c and rdtNetwork.c is ReliableTransfer.
THEOREM Implements ==
    ASSUME InOrderNetwork, RoomForMessage, ClearedMemory
    PROVE  Spec => ImplementsTransfer
<1>1. Init => Transfer!Init
  BY DEF Init, SenderInit, ReceiverInit, Transfer!Init
<1>2. TypeOK /\ TypeOK' /\ InductiveInv /\ InductiveInv' /\ [Next]_vars
         => [Transfer!Next]_(Transfer!vars)
  BY StepImplements
<1> QED
  BY <1>1, <1>2, TypeCorrect, InductiveInvHolds, PTL
     DEF Spec, ImplementsTransfer, Transfer!Spec

\* Whatever step changes the receiver's text while it runs adds exactly the
\* outstanding fragment behind the acknowledged characters (rdtReceiver.c:98).
THEOREM StoresOnlyOutstanding ==
    ASSUME InOrderNetwork, RoomForMessage, ClearedMemory
    PROVE  Spec => StoresOutstandingFragment
<1> DEFINE A == message' # message /\ rResult = "running" =>
                   /\ Len(message) = msgPtrAckdTo
                   /\ Len(message') = msgPtrAckdTo + FragmentLen(msgPtrAckdTo)
<1>1. TypeOK /\ TypeOK' /\ InductiveInv /\ InductiveInv' /\ [Next]_vars => [A]_vars
  <2> SUFFICES ASSUME TypeOK, TypeOK', InductiveInv, InductiveInv', [Next]_vars,
                      message' # message
               PROVE  A
    BY DEF vars, receiverVars
  <2>1. Receiver
    BY DEF Next, Sender, Network, Tick, vars, receiverVars
  <2> QED
    BY <2>1, ReceiverStores DEF Receiver
<1> QED
  BY <1>1, TypeCorrect, InductiveInvHolds, PTL DEF Spec, StoresOutstandingFragment

=============================================================================
