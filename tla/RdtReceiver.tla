----------------------------- MODULE RdtReceiver -----------------------------
(***************************************************************************)
(* receiveMessage of rdtReceiver.c: the receiving half.  It waits without  *)
(* a timeout, so its only steps are setup, one packet, an error, return.   *)
(***************************************************************************)
EXTENDS RdtSocket

CONSTANT MallocLeftovers    \* strlen of what malloc(MAX_MSG_SIZE) may return

ASSUME MallocAssumption ==
    /\ MallocLeftovers # {}
    /\ MallocLeftovers \subseteq 0 .. (MAX_MSG_SIZE - 1)

GARBAGE == 0                \* a character nobody sent

VARIABLES
    rResult,            \* "setup", "running", then what receiveMessage
                        \* returns: "null", "text" or "dangling"
    rState,             \* rSocket.state: the expected sequence bit
    message,            \* the characters before the first NUL of message
    messageComplete

receiverVars == <<rResult, rState, message, messageComplete>>

ReceiverTypeOK ==
    /\ rResult \in {"setup", "running", "null", "text", "dangling"}
    /\ rState \in {0, 1}
    /\ message \in Seq(Nat)
    /\ messageComplete \in BOOLEAN

ReceiverInit ==
    /\ rResult = "setup"
    /\ rState = 0
    /\ message = << >>
    /\ messageComplete = FALSE

\* The socket is closed and receiveMessage returns.
ReceiverExit(result) ==
    /\ rResult' = result
    /\ bound' = bound \ {"receiver"}
    /\ sock' = Closed(sock, "receiver")

\* initRDPSocket, then a message buffer that is not cleared.
ReceiverSetup ==
    /\ rResult = "setup"
    /\ \E works \in Works :
          IF works
          THEN /\ rResult' = "running"
               /\ bound' = bound \cup {"receiver"}
               /\ \E n \in MallocLeftovers : message' = [i \in 1..n |-> GARBAGE]
          ELSE rResult' = "null" /\ UNCHANGED <<bound, message>>
    /\ UNCHANGED <<sock, rState, messageComplete>>

\* A fragment is kept when it has a first character and the buffer has room
\* for a full one.
Fits(pkt) == pkt.len > 0 /\ Len(message) + FRAG_SIZE < MAX_MSG_SIZE

\* The packet turned round: back to its source, in the name of the receiver.
Reply(pkt) ==
    [pkt EXCEPT !.destIP = pkt.srcIP, !.destPort = pkt.srcPort,
                !.srcPort = "receiver"]

\* Mutants of ReceiverAccept: the bit is not compared; it is not flipped.
ReceiverAcceptAnyBit(pkt) ==
    /\ rState' = 1 - rState
    /\ IF Fits(pkt)
       THEN message' = message \o Chars(pkt.at, pkt.len) /\ UNCHANGED messageComplete
       ELSE messageComplete' = TRUE /\ UNCHANGED message

ReceiverAcceptNoFlip(pkt) ==
    /\ pkt.ack = rState
    /\ UNCHANGED rState
    /\ IF Fits(pkt)
       THEN message' = message \o Chars(pkt.at, pkt.len) /\ UNCHANGED messageComplete
       ELSE messageComplete' = TRUE /\ UNCHANGED message

\* An intact packet with the expected bit is stored, or ends the message.
ReceiverAccept(pkt) ==
    /\ pkt.ack = rState
    /\ rState' = 1 - rState
    /\ IF Fits(pkt)
       THEN message' = message \o Chars(pkt.at, pkt.len) /\ UNCHANGED messageComplete
       ELSE messageComplete' = TRUE /\ UNCHANGED message

\* An intact packet with the other bit is a duplicate: nothing is stored.
ReceiverDuplicate(pkt) ==
    /\ pkt.ack # rState
    /\ UNCHANGED <<rState, message, messageComplete>>

\* Every intact packet is answered through the node it came from.
ReceiverPacket ==
    /\ rResult = "running" /\ ~messageComplete
    /\ sock["receiver"] # << >>
    /\ LET d == Head(sock["receiver"]) IN
          /\ d.pkt.corrupt = 0
          /\ ReceiverAccept(d.pkt) \/ ReceiverDuplicate(d.pkt)
          /\ \E works \in Works :
                sock' = IF works
                        THEN sendPacket(Received(sock, "receiver"), "receiver",
                                        Reply(d.pkt), d.rcvdFrom, d.rcvdFrom)
                        ELSE Received(sock, "receiver")
    /\ UNCHANGED <<bound, rResult>>

\* A corrupt packet is dropped without an answer.
ReceiverDropCorrupt ==
    /\ rResult = "running" /\ ~messageComplete
    /\ sock["receiver"] # << >>
    /\ Head(sock["receiver"]).pkt.corrupt = 1
    /\ sock' = Received(sock, "receiver")
    /\ UNCHANGED <<bound, receiverVars>>

\* recvfrom fails: message is freed and the freed pointer returned.
ReceiverReadError ==
    /\ rResult = "running" /\ ~messageComplete
    /\ SocketErrors
    /\ ReceiverExit("dangling")
    /\ UNCHANGED <<rState, message, messageComplete>>

\* The terminating packet was taken: close and return the text.
ReceiverReturn ==
    /\ rResult = "running" /\ messageComplete
    /\ ReceiverExit("text")
    /\ UNCHANGED <<rState, message, messageComplete>>

ReceiverNext ==
    \/ ReceiverSetup \/ ReceiverPacket \/ ReceiverDropCorrupt
    \/ ReceiverReadError \/ ReceiverReturn

=============================================================================
