------------------------------ MODULE RdtSender ------------------------------
(***************************************************************************)
(* sendMessage of rdtSender.c: the sending half of the alternating-bit     *)
(* protocol.  One action per branch of the while loop; a branch that runs  *)
(* getNextRDPPacket restarts the select timeout, which timer counts down.  *)
(***************************************************************************)
EXTENDS RdtSocket

CONSTANT MAX_FINAL_TIMEOUTS     \* timeouts tolerated on the last packet

ASSUME FinalTimeoutsAssumption == MAX_FINAL_TIMEOUTS \in Nat \ {0}

SEND_0 == 0
ACK_0  == 1
SEND_1 == 2
ACK_1  == 3

VARIABLES
    sResult,            \* "setup", "running", then what sendMessage returns:
                        \* "sent" (0) or "error" (-1)
    sState,             \* rSocket.state
    msgPtr,             \* characters handed to the network
    msgPtrAckdTo,       \* characters acknowledged
    lastPacketSent, lastAckRcvd,
    numFinalTimeouts,
    timer               \* ticks left of the select in getNextRDPPacket

senderVars == <<sResult, sState, msgPtr, msgPtrAckdTo, lastPacketSent,
                lastAckRcvd, numFinalTimeouts, timer>>

SenderTypeOK ==
    /\ sResult \in {"setup", "running", "sent", "error"}
    /\ sState \in SEND_0 .. ACK_1
    /\ msgPtr \in 0..MsgLen
    /\ msgPtrAckdTo \in 0..MsgLen
    /\ lastPacketSent \in BOOLEAN
    /\ lastAckRcvd \in BOOLEAN
    /\ numFinalTimeouts \in 0..MAX_FINAL_TIMEOUTS
    /\ timer \in 0..SENDER_TIMEOUT

SenderInit ==
    /\ sResult = "setup"
    /\ sState = SEND_0
    /\ msgPtr = 0
    /\ msgPtrAckdTo = 0
    /\ lastPacketSent = FALSE
    /\ lastAckRcvd = FALSE
    /\ numFinalTimeouts = 0
    /\ timer = 0

LoopCondition == ~lastAckRcvd /\ numFinalTimeouts < MAX_FINAL_TIMEOUTS

Sending  == sResult = "running" /\ LoopCondition /\ sState \in {SEND_0, SEND_1}
Awaiting == sResult = "running" /\ LoopCondition /\ sState \in {ACK_0, ACK_1}

\* The sequence bit of the fragment being sent, or waited for.
SendBit == sState \div SEND_1
AckBit  == sState \div ACK_1

\* The socket is closed and sendMessage returns.
SenderExit(result, s) ==
    /\ sResult' = result
    /\ bound' = bound \ {"sender"}
    /\ sock' = Closed(s, "sender")

\* initRDPSocket and the two configurePacketNode calls: bind and DNS may fail.
SenderSetup ==
    /\ sResult = "setup"
    /\ \E works \in Works :
          IF works
          THEN sResult' = "running" /\ bound' = bound \cup {"sender"}
          ELSE sResult' = "error" /\ UNCHANGED bound
    /\ UNCHANGED <<sock, sState, msgPtr, msgPtrAckdTo, lastPacketSent,
                   lastAckRcvd, numFinalTimeouts, timer>>

\* States SEND_0, SEND_1: the next fragment leaves at once.  The packet with
\* no characters is the last one.
SenderSend ==
    /\ Sending
    /\ msgPtr' = msgPtr + FragmentLen(msgPtr)
    /\ lastPacketSent' = (lastPacketSent \/ msgPtr' = msgPtrAckdTo)
    /\ \E works \in Works :
          IF works
          THEN /\ sock' = sendPacket(sock, "sender", Fragment(msgPtr, SendBit),
                                     "network", "network")
               /\ sState' = sState + 1
               /\ timer' = SENDER_TIMEOUT
               /\ UNCHANGED <<sResult, bound>>
          ELSE SenderExit("error", sock) /\ UNCHANGED <<sState, timer>>
    /\ UNCHANGED <<msgPtrAckdTo, lastAckRcvd, numFinalTimeouts>>

\* Mutants of SenderTimeout: every timeout counts as a final one; none does;
\* the position is not rolled back; the state is not.
SenderTimeoutAllFinal ==
    /\ Awaiting /\ timer = 0 /\ sock["sender"] = << >>
    /\ numFinalTimeouts' = numFinalTimeouts + 1
    /\ msgPtr' = msgPtrAckdTo
    /\ sState' = sState - 1
    /\ UNCHANGED <<sock, bound, sResult, msgPtrAckdTo, lastPacketSent,
                   lastAckRcvd, timer>>

SenderTimeoutNoneFinal ==
    /\ Awaiting /\ timer = 0 /\ sock["sender"] = << >>
    /\ msgPtr' = msgPtrAckdTo
    /\ sState' = sState - 1
    /\ UNCHANGED <<sock, bound, sResult, msgPtrAckdTo, lastPacketSent,
                   lastAckRcvd, numFinalTimeouts, timer>>

SenderTimeoutNoRollback ==
    /\ Awaiting /\ timer = 0 /\ sock["sender"] = << >>
    /\ numFinalTimeouts' = numFinalTimeouts + (IF lastPacketSent THEN 1 ELSE 0)
    /\ sState' = sState - 1
    /\ UNCHANGED <<sock, bound, sResult, msgPtr, msgPtrAckdTo, lastPacketSent,
                   lastAckRcvd, timer>>

SenderTimeoutNoResend ==
    /\ Awaiting /\ timer = 0 /\ sock["sender"] = << >>
    /\ numFinalTimeouts' = numFinalTimeouts + (IF lastPacketSent THEN 1 ELSE 0)
    /\ msgPtr' = msgPtrAckdTo
    /\ timer' = SENDER_TIMEOUT
    /\ UNCHANGED <<sock, bound, sResult, sState, msgPtrAckdTo, lastPacketSent,
                   lastAckRcvd>>

\* select reports a timeout: go back to the acknowledged position, resend.
SenderTimeout ==
    /\ Awaiting
    /\ timer = 0
    /\ sock["sender"] = << >>
    /\ numFinalTimeouts' = numFinalTimeouts + (IF lastPacketSent THEN 1 ELSE 0)
    /\ msgPtr' = msgPtrAckdTo
    /\ sState' = sState - 1
    /\ UNCHANGED <<sock, bound, sResult, msgPtrAckdTo, lastPacketSent,
                   lastAckRcvd, timer>>

\* A corrupt acknowledgement is dropped and the wait starts over.
SenderDropCorrupt ==
    /\ Awaiting
    /\ sock["sender"] # << >>
    /\ Head(sock["sender"]).pkt.corrupt = 1
    /\ sock' = Received(sock, "sender")
    /\ timer' = SENDER_TIMEOUT
    /\ UNCHANGED <<bound, sResult, sState, msgPtr, msgPtrAckdTo,
                   lastPacketSent, lastAckRcvd, numFinalTimeouts>>

\* Mutants of SenderAcked: the bit is not compared; the state does not wrap.
SenderAckedAnyBit ==
    /\ Awaiting
    /\ sock["sender"] # << >>
    /\ Head(sock["sender"]).pkt.corrupt = 0
    /\ sock' = Received(sock, "sender")
    /\ msgPtrAckdTo' = msgPtr
    /\ sState' = (sState + 1) % (ACK_1 + 1)
    /\ lastAckRcvd' = lastPacketSent
    /\ timer' = 0
    /\ UNCHANGED <<bound, sResult, msgPtr, lastPacketSent, numFinalTimeouts>>

SenderAckedNoWrap ==
    /\ Awaiting
    /\ sock["sender"] # << >>
    /\ Head(sock["sender"]).pkt.corrupt = 0
    /\ Head(sock["sender"]).pkt.ack = AckBit
    /\ sock' = Received(sock, "sender")
    /\ msgPtrAckdTo' = msgPtr
    /\ sState' = sState + 1
    /\ lastAckRcvd' = lastPacketSent
    /\ timer' = 0
    /\ UNCHANGED <<bound, sResult, msgPtr, lastPacketSent, numFinalTimeouts>>

\* An intact acknowledgement that carries the expected bit.
SenderAcked ==
    /\ Awaiting
    /\ sock["sender"] # << >>
    /\ Head(sock["sender"]).pkt.corrupt = 0
    /\ Head(sock["sender"]).pkt.ack = AckBit
    /\ sock' = Received(sock, "sender")
    /\ msgPtrAckdTo' = msgPtr
    /\ sState' = (sState + 1) % (ACK_1 + 1)
    /\ lastAckRcvd' = lastPacketSent
    /\ timer' = 0
    /\ UNCHANGED <<bound, sResult, msgPtr, lastPacketSent, numFinalTimeouts>>

\* An intact acknowledgement with the other bit: ignored, the wait restarts.
SenderIgnoreOther ==
    /\ Awaiting
    /\ sock["sender"] # << >>
    /\ Head(sock["sender"]).pkt.corrupt = 0
    /\ Head(sock["sender"]).pkt.ack # AckBit
    /\ sock' = Received(sock, "sender")
    /\ timer' = SENDER_TIMEOUT
    /\ UNCHANGED <<bound, sResult, sState, msgPtr, msgPtrAckdTo,
                   lastPacketSent, lastAckRcvd, numFinalTimeouts>>

\* select or recvfrom fails.
SenderReadError ==
    /\ Awaiting
    /\ SocketErrors
    /\ SenderExit("error", sock)
    /\ UNCHANGED <<sState, msgPtr, msgPtrAckdTo, lastPacketSent, lastAckRcvd,
                   numFinalTimeouts, timer>>

\* The loop ends: close and return 0, "Message sent successfully".
SenderReturn ==
    /\ sResult = "running"
    /\ ~LoopCondition
    /\ SenderExit("sent", sock)
    /\ UNCHANGED <<sState, msgPtr, msgPtrAckdTo, lastPacketSent, lastAckRcvd,
                   numFinalTimeouts, timer>>

SenderNext ==
    \/ SenderSetup \/ SenderSend \/ SenderTimeout \/ SenderDropCorrupt
    \/ SenderAcked \/ SenderIgnoreOther \/ SenderReadError \/ SenderReturn

=============================================================================
