------------------------- MODULE LinkStateInvariant -------------------------
(***************************************************************************)
(* Why the routers hear what the files say.  A router's table is what the  *)
(* last lines of its file say, its packet is made of the table, and what   *)
(* waits in a socket or was received is the packet of a router that sent   *)
(* it to an address of its table.                                          *)
(***************************************************************************)
EXTENDS LinkState

\* Who has been heard, or is about to be, is past listening, and so is who has
\* heard somebody (the order of the calls in main, node.c:44-68).
PastListening(n) == pc[n] \in {"flood", "done"}
IsSequence(s) == s \in Seq({s[k] : k \in DOMAIN s})

HearingInv ==
    /\ DOMAIN pc = Routers /\ DOMAIN inbox = Routers
    /\ DOMAIN rcvPkt = Routers /\ DOMAIN ownPkt = Routers
    /\ \A n \in Routers :
        /\ pc[n] \in {"bind", "listen", "flood"} =>
              ownPkt[n].sourceLabel = n
        /\ IsSequence(inbox[n])
        /\ \A k \in DOMAIN inbox[n] :
              /\ inbox[n][k].pkt.sourceLabel \in Routers
              /\ PastListening(inbox[n][k].pkt.sourceLabel)
        /\ rcvPkt[n] # NULL =>
              /\ PastListening(n)
              /\ Heard(n) \in Routers
              /\ PastListening(Heard(n))
    /\ NoCircularHearing

-----------------------------------------------------------------------------

\* What the last line of a file that names router i says of it.
LastLine(f, i) == f[LastOf(Naming(f, i))]
WeightIn(f, i) == IF Naming(f, i) = {} THEN INF ELSE LastLine(f, i).weight
AtIn(f, i)     == IF Naming(f, i) = {} THEN NULL ELSE LastLine(f, i).at

\* seqNum is raised when the packet is built, and never again.
Built(n) == seqNum[n] = 0

\* The table is empty before the file is read and then says what the file says,
\* but for the own address, which configureHostInfo fills in.
TableIsFile(n) ==
    LET f == FileOf(n)
    IN  /\ Clean(f) /\ numNeighbors[n] = Len(f)
        /\ \A i \in Routers : adjMatrix[n][i] = WeightIn(f, i)
        /\ \A i \in Routers \ {n} : addr[n][i] = AtIn(f, i)

ReadingAt(n) ==
    /\ pc[n] \in {"args", "parse"} =>
          /\ adjMatrix[n] = [i \in Routers |-> INF]
          /\ addr[n] = [i \in Routers |-> NULL]
    /\ pc[n] \in {"args", "parse", "build"} => seqNum[n] = -1
    /\ pc[n] \in {"bind", "listen", "flood"} => Built(n)
    /\ pc[n] = "build" \/ Built(n) => TableIsFile(n)

Reading == \A n \in Routers : ReadingAt(n)

\* The packet is that of the table.
PacketOf(n) ==
    [hopCount     |-> NumRouters % WORD,
     seqNum       |-> 0,
     numNeighbors |-> Len(FileOf(n)),
     sourceLabel  |-> n,
     edges        |-> LSEdges(adjMatrix[n], Len(FileOf(n)))]

Building == \A n \in Routers : Built(n) => ownPkt[n] = PacketOf(n)

\* A router sends only when it is through with listening.
Flooding ==
    \A n \in Routers :
        /\ ~PastListening(n) => next[n] = 0 /\ rcvPkt[n] = NULL
        /\ floodResult[n] # NULL => pc[n] = "done"

\* m has sent its packet to n.
Told(m, n) ==
    Built(m) /\ \E i \in Routers \ {m} : i < next[m] /\ addr[m][i] = n

Sending ==
    \A n \in Routers : \A k \in DOMAIN inbox[n] :
        /\ Told(inbox[n][k].from, n)
        /\ inbox[n][k].pkt = ownPkt[inbox[n][k].from]

Receiving ==
    \A n \in Routers : rcvPkt[n] # NULL =>
        /\ Built(n)
        /\ Heard(n) \in Routers /\ Told(Heard(n), n)
        /\ rcvPkt[n] = ownPkt[Heard(n)]
        /\ rcvdFrom[n] = portToNodeLabel(n, Heard(n))

ExchangeInv ==
    TypeOK /\ Reading /\ Building /\ Flooding /\ Sending /\ Receiving

=============================================================================
