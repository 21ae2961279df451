-------------------------- MODULE ReliableTransfer ---------------------------
(***************************************************************************)
(* What the protocol of SysNet2/P2/new promises its user, with no packets, *)
(* bits or timeouts: the receiver's text is at all times a beginning of    *)
(* the message, sendMessage returns 0 only when all of it is there, and    *)
(* receiveMessage hands over a text only when it is the whole message.     *)
(***************************************************************************)
EXTENDS Naturals, Sequences

CONSTANT MsgLen     \* characters of the message, a natural number

VARIABLES
    stored,     \* characters of the message at the receiver
    sent,       \* "pending", "sent" or "error": what sendMessage returns
    received    \* "pending", "text" or "error": what receiveMessage returns

vars == <<stored, sent, received>>

Prefix(n) == [i \in 1..n |-> i]
Whole == stored = Prefix(MsgLen)

Init == stored = << >> /\ sent = "pending" /\ received = "pending"

Store ==
    /\ received = "pending"
    /\ \E n \in 1..MsgLen : n > Len(stored) /\ stored' = Prefix(n)
    /\ UNCHANGED <<sent, received>>

SendReturns ==
    /\ sent = "pending"
    /\ sent' \in {"error"} \cup (IF Whole THEN {"sent"} ELSE {})
    /\ UNCHANGED <<stored, received>>

ReceiveReturns ==
    /\ received = "pending"
    /\ received' \in {"error"} \cup (IF Whole THEN {"text"} ELSE {})
    /\ UNCHANGED <<stored, sent>>

Next == Store \/ SendReturns \/ ReceiveReturns

Spec == Init /\ [][Next]_vars

=============================================================================
