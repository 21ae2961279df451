------------------------------ MODULE BbServer -------------------------------
(***************************************************************************)
(* bbserver.c: the server collects the addresses of its clients and tells  *)
(* each of them its successor in the ring, in three datagrams.             *)
(***************************************************************************)
EXTENDS RingSocket

VARIABLES
    clients,    \* clientAddrList: the clients in the order they called in
    sent        \* datagrams of the second loop already sent

serverVars == <<clients, sent>>

ServerTypeOK ==
    /\ clients \in Seq(Peers) /\ Len(clients) <= clientsExp
    /\ sent \in 0 .. 3 * clientsExp

ServerInit == clients = << >> /\ sent = 0

\* One turn of the first loop.
Collect ==
    /\ Len(clients) < clientsExp
    /\ sock[Server] # << >>
    /\ clients' = Append(clients, Head(sock[Server]).val)
    /\ sock' = Received(sock, Server)
    /\ UNCHANGED <<bound, sent>>

\* Mutant of Successor: every client is paired with itself.
SuccessorSelf(i) == clients[i + 1]

\* The client that follows client number i (from 0) in the ring.
Successor(i) == clients[((i + 1) % clientsExp) + 1]

\* Mutant of Assignment: every client starts a token.
AssignmentAllTokens(i, part) ==
    CASE part = 0 -> Host(Successor(i))
      [] part = 1 -> Port(Successor(i))
      [] part = 2 -> TokenFlag(TRUE)

\* The three datagrams for client number i.
Assignment(i, part) ==
    CASE part = 0 -> Host(Successor(i))
      [] part = 1 -> Port(Successor(i))
      [] part = 2 -> TokenFlag(i = 0)

\* One sendto of the second loop; the socket is closed after the last.
Assign ==
    /\ Len(clients) = clientsExp
    /\ sent < 3 * clientsExp
    /\ LET i == sent \div 3 IN
          sock' = Sent(sock, clients[i + 1], Assignment(i, sent % 3))
    /\ sent' = sent + 1
    /\ bound' = IF sent' = 3 * clientsExp THEN bound \ {Server} ELSE bound
    /\ UNCHANGED clients

ServerNext == Collect \/ Assign

=============================================================================
