------------------------------ MODULE RdtSystem ------------------------------
(***************************************************************************)
(* The sender, the receiver and the network simulator of SysNet2/P2/new    *)
(* running as three processes, with a clock that the sender's timeout and  *)
(* the delay threads of the network count down together.                   *)
(***************************************************************************)
EXTENDS RdtSender, RdtReceiver, RdtNetwork

CONSTANT Prompt     \* do packets and processes take no time, next to a tick?

ASSUME PromptAssumption == Prompt \in BOOLEAN

vars == <<sockVars, senderVars, receiverVars, networkVars>>

TypeOK ==
    /\ SocketTypeOK
    /\ SenderTypeOK
    /\ ReceiverTypeOK
    /\ NetworkTypeOK

Init ==
    /\ SocketInit
    /\ SenderInit
    /\ ReceiverInit
    /\ NetworkInit

Sender   == SenderNext /\ UNCHANGED <<receiverVars, networkVars>>
Receiver == ReceiverNext /\ UNCHANGED <<senderVars, networkVars>>
Network  == NetworkNext /\ UNCHANGED <<senderVars, receiverVars>>

\* Nothing is left to do before time passes.
Quiet ==
    /\ ~Sending /\ sResult # "setup" /\ rResult # "setup" /\ netStatus # "setup"
    /\ \A p \in Procs : sock[p] = << >>
    /\ \A k \in DOMAIN delayed : delayed[k].left > 0
    /\ Awaiting => timer > 0

\* One tick passes for the waiting sender and for every delay thread.
Elapsed(t) == IF t > 0 THEN t - 1 ELSE 0

Tick ==
    /\ Prompt => Quiet
    /\ (Awaiting /\ timer > 0) \/ \E k \in DOMAIN delayed : delayed[k].left > 0
    /\ timer' = IF Awaiting THEN Elapsed(timer) ELSE timer
    /\ delayed' = [k \in DOMAIN delayed |->
                      [delayed[k] EXCEPT !.left = Elapsed(@)]]
    /\ UNCHANGED <<sockVars, receiverVars, netStatus, sResult, sState, msgPtr,
                   msgPtrAckdTo, lastPacketSent, lastAckRcvd, numFinalTimeouts>>

Next == Sender \/ Receiver \/ Network \/ Tick

Spec == Init /\ [][Next]_vars

(***************************************************************************)
(* Fairness.  Each process is scheduled again and again, and time passes.  *)
(* A network that does not lose or corrupt everything lets a packet        *)
(* through sooner or later when packets keep coming (the random draws).    *)
(***************************************************************************)
GetsThrough == NetworkForward(FALSE) /\ UNCHANGED <<senderVars, receiverVars>>

Fairness ==
    /\ WF_vars(Sender)
    /\ WF_vars(Receiver)
    /\ WF_vars(Network)
    /\ WF_vars(Tick)

FairSpec == Spec /\ Fairness

LossyFairSpec ==
    /\ FairSpec
    /\ SF_vars(GetsThrough /\ Head(sock["network"]).rcvdFrom = "sender")
    /\ SF_vars(GetsThrough /\ Head(sock["network"]).rcvdFrom = "receiver")

(***************************************************************************)
(* Properties.                                                             *)
(***************************************************************************)

\* The receiver's text is a beginning of the message: nothing is lost inside
\* it, stored twice or out of order, however packets are lost, corrupted,
\* repeated or answered late (rdtReceiver.c:91-111).
TextIsPrefix == message = Text(Len(message))

\* sendMessage returns 0, "Message sent successfully" (rdtSender.c:165), only
\* when the whole message is in the receiver's buffer.
ReportedMeansDelivered == sResult = "sent" => message = Text(MsgLen)

\* What the sender counts as acknowledged is in the receiver's text, and the
\* text is never ahead of what the sender handed out: msgPtrAckdTo
\* (rdtSender.c:148) trails the receiver by at most the fragment in flight.
AckedIsStored ==
    /\ msgPtrAckdTo <= Len(message)
    /\ Len(message) <= msgPtrAckdTo + FragmentLen(msgPtrAckdTo)

\* receiveMessage returns a text only when it is the complete one
\* (rdtReceiver.h:35).
ReturnedTextComplete == rResult = "text" => message = Text(MsgLen)

\* A step that stores characters stores the fragment the sender is trying to
\* get across at that moment, exactly after the acknowledged ones.
StoresOutstandingFragment ==
    [][message' # message /\ rResult = "running" =>
          /\ Len(message) = msgPtrAckdTo
          /\ Len(message') = msgPtrAckdTo + FragmentLen(msgPtrAckdTo)]_vars

\* The protocol implements what its user is promised.
Transfer == INSTANCE ReliableTransfer WITH
    stored   <- message,
    sent     <- IF sResult \in {"sent", "error"} THEN sResult ELSE "pending",
    received <- CASE rResult = "text" -> "text"
                  [] rResult \in {"null", "dangling"} -> "error"
                  [] OTHER -> "pending"

ImplementsTransfer == Transfer!Spec

\* sendMessage returns, whatever the network loses or corrupts.
SenderReturns == <>(sResult \in {"sent", "error"})

\* Every character of the message reaches the receiver's text in the end.
EventuallyDelivered == <>(message = Text(MsgLen))

\* receiveMessage returns the text too, unless the sender gives up on the last
\* packet: then nobody wakes the receiver, which waits without a timeout
\* (rdtReceiver.c:67).
ReceiverReturns ==
    <>(rResult = "text" \/ numFinalTimeouts = MAX_FINAL_TIMEOUTS)

=============================================================================
