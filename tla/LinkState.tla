------------------------------ MODULE LinkState ------------------------------
(***************************************************************************)
(* The link-state routers of SysNet2/P3/node.c: each is a process of its   *)
(* own that reads a neighbour file, builds its link-state packet, listens  *)
(* for ten seconds for one packet of another router and then sends its own *)
(* to all neighbours.  Routers are known by the index of their label.      *)
(***************************************************************************)
EXTENDS Ordered

CONSTANTS
    NumRouters,     \* totalNumRouters, the same for all of them
    INF,            \* no link between two routers (dijkstra.h:21)
    NULL,
    Garbage,        \* an edge nobody filled in: whatever the stack held
    StartedWith     \* per router, the [args, file] it may be started with

Routers == 0..(NumRouters - 1)
WORD    == 65536    \* uint16_t fields of lsHeader and lsEdge
Field   == 0..(WORD - 1)
Edge    == [cost : Field, destLabel : Routers]

\* Edges of 3 bytes that fit behind the header of 7 (LS_PACKET_BUFFER_SIZE): a
\* file with more lines makes the router send what lies behind its buffer.
MAX_EDGES == (2000 - 7) \div 3

(***************************************************************************)
(* A line of a neighbour file: the index of the label it starts with, the  *)
(* router whose host and port it gives (NULL if the host is unknown), the  *)
(* weight, and whether sscanf found all four fields and a port in range.   *)
(* A file that cannot be opened is NULL.                                   *)
(***************************************************************************)
Line == [label : Int, at : Routers \cup {NULL}, weight : Int, scanned : BOOLEAN]
Arguments == [count : Nat, dynamic : BOOLEAN, labelLen : Nat, port : Int, total : Int]

ASSUME RoutersAssumption ==
    /\ NumRouters \in Nat \ {0}
    /\ INF \in Int /\ NULL \notin Int
    /\ Garbage \notin Edge

VARIABLES
    pc,             \* where each process is
    started,        \* the arguments and the file it was started with
    adjMatrix,      \* the router's own row: the others are never written
    addr,           \* nodeList[i].addr: the router reached there, or NULL
    seqNum,         \* nodeList[own].seqNum
    numNeighbors,   \* result of parseNeighborFile
    ownPkt,         \* ownPktBuffer, NULL until it is filled
    inbox,          \* datagrams in each router's socket
    rcvPkt,         \* rcvPktBuffer, NULL until something was received
    rcvdFrom,       \* the label printed for its sender, NULL if none fits
    next,           \* the loop counter i of floodNeighbors
    floodResult     \* result of floodNeighbors, NULL before it returns

vars == <<pc, started, adjMatrix, addr, seqNum, numNeighbors, ownPkt, inbox,
          rcvPkt, rcvdFrom, next, floodResult>>

Init ==
    /\ pc = [n \in Routers |-> "args"]
    /\ started \in {s \in [Routers -> UNION {StartedWith[n] : n \in Routers}] :
                        \A n \in Routers : s[n] \in StartedWith[n]}
    /\ adjMatrix = [n \in Routers |-> [i \in Routers |-> INF]]
    /\ addr = [n \in Routers |-> [i \in Routers |-> NULL]]
    /\ seqNum = [n \in Routers |-> -1]
    /\ numNeighbors = [n \in Routers |-> 0]
    /\ ownPkt = [n \in Routers |-> NULL]
    /\ inbox = [n \in Routers |-> << >>]
    /\ rcvPkt = [n \in Routers |-> NULL]
    /\ rcvdFrom = [n \in Routers |-> NULL]
    /\ next = [n \in Routers |-> 0]
    /\ floodResult = [n \in Routers |-> NULL]

Goto(n, p) == pc' = [pc EXCEPT ![n] = p]

(***************************************************************************)
(* The command line.                                                       *)
(***************************************************************************)
MAX_PORT        == 65535
MAX_NUM_ROUTERS == 99

\* A string that is no integer, or too long a one, counts as -1.
WellFormed(a) ==
    /\ a.count = 5 \/ (a.count = 6 /\ a.dynamic)
    /\ a.labelLen = 1
    /\ a.port \in 0..MAX_PORT
    /\ a.total \in 0..MAX_NUM_ROUTERS

\* Every router that starts is told the true number of routers: its own label
\* indexes a table of that size.
ASSUME StartAssumption ==
    \A n \in Routers : \A s \in StartedWith[n] :
        /\ s.args \in Arguments
        /\ s.file \in Seq(Line) \cup {NULL}
        /\ s.file # NULL => Len(s.file) <= MAX_EDGES
        /\ WellFormed(s.args) => s.args.total = NumRouters

confirmArgs(n) ==
    /\ pc[n] = "args"
    /\ Goto(n, IF WellFormed(started[n].args) THEN "parse" ELSE "done")
    /\ UNCHANGED <<started, adjMatrix, addr, seqNum, numNeighbors, ownPkt,
                   inbox, rcvPkt, rcvdFrom, next, floodResult>>

(***************************************************************************)
(* The neighbour file: the lines before the first faulty one take effect,  *)
(* a later line for a label replaces an earlier one.                       *)
(***************************************************************************)
Faulty(line) ==
    \/ line.label \notin Routers
    \/ ~line.scanned
    \/ line.at = NULL

Stored(f) == {k \in DOMAIN f : \A j \in 1..k : ~Faulty(f[j])}
Naming(f, i) == {k \in Stored(f) : f[k].label = i}

\* Mutant: the lines before the faulty one are kept.
LinesReadKept(f) == IF f = NULL THEN -1 ELSE Cardinality(Stored(f))

LinesRead(f) == IF f = NULL \/ Stored(f) # DOMAIN f THEN -1 ELSE Len(f)

parseNeighborFile(n) ==
    LET f == started[n].file
        Last(i) == f[LastOf(Naming(f, i))]
        Named == IF f = NULL THEN {} ELSE {i \in Routers : Naming(f, i) # {}}
    IN  /\ pc[n] = "parse"
        /\ adjMatrix' = [adjMatrix EXCEPT ![n] =
                [i \in Routers |-> IF i \in Named THEN Last(i).weight ELSE @[i]]]
        /\ addr' = [addr EXCEPT ![n] =
                [i \in Routers |-> IF i \in Named THEN Last(i).at ELSE @[i]]]
        /\ numNeighbors' = [numNeighbors EXCEPT ![n] = LinesRead(f)]
        /\ Goto(n, IF LinesRead(f) = -1 THEN "done" ELSE "build")
        /\ UNCHANGED <<started, seqNum, ownPkt, inbox, rcvPkt, rcvdFrom, next,
                       floodResult>>

(***************************************************************************)
(* The router's own packet.                                                *)
(***************************************************************************)
\* Mutant: the cost is kept in a wider field.
LSEdgeWide(weight, i) == [cost |-> weight, destLabel |-> i]

LSEdge(weight, i) == [cost |-> weight % WORD, destLabel |-> i]

\* Edges in the order of the row; the header announces more of them than
\* there are if two lines name one router or a weight is INF, and the packet
\* then goes on with bytes nobody wrote.
LSEdges(row, count) ==
    LET linked == {i \in Routers : row[i] # INF}
        to(k)  == NthOf(linked, k)
    IN  [k \in 1..count |-> IF k <= Cardinality(linked) THEN LSEdge(row[to(k)], to(k))
                                                        ELSE Garbage]

buildLSPacket(n) ==
    /\ pc[n] = "build"
    /\ seqNum' = [seqNum EXCEPT ![n] = @ + 1]
    /\ ownPkt' = [ownPkt EXCEPT ![n] =
            [hopCount     |-> NumRouters % WORD,
             seqNum       |-> (seqNum[n] + 1) % WORD,
             numNeighbors |-> numNeighbors[n] % WORD,
             sourceLabel  |-> n,
             edges        |-> LSEdges(adjMatrix[n], numNeighbors[n])]]
    /\ Goto(n, "bind")
    /\ UNCHANGED <<started, adjMatrix, addr, numNeighbors, inbox, rcvPkt,
                   rcvdFrom, next, floodResult>>

\* The router's own entry is filled in whether the socket can be had or not.
configureHostInfo(n) ==
    /\ pc[n] = "bind"
    /\ addr' = [addr EXCEPT ![n][n] = n]
    /\ \/ Goto(n, "listen")
       \/ Goto(n, "done")           \* socket or bind fails
    /\ UNCHANGED <<started, adjMatrix, seqNum, numNeighbors, ownPkt, inbox,
                   rcvPkt, rcvdFrom, next, floodResult>>

(***************************************************************************)
(* Listening: one packet, a timeout or an error.                           *)
(***************************************************************************)
Bound(n) == pc[n] \in {"listen", "flood"}

\* Mutant: the port is not compared, and all routers are on one host.
portToNodeLabelOfHost(n, sender) ==
    LET fits == {i \in Routers \ {n} : addr[n][i] # NULL}
    IN  IF fits = {} THEN NULL
        ELSE FirstOf(fits)

\* The first entry of the table with the sender's address.  The own entry
\* holds INADDR_ANY and fits nobody.
portToNodeLabel(n, sender) ==
    LET fits == {i \in Routers \ {n} : addr[n][i] = sender}
    IN  IF fits = {} THEN NULL
        ELSE FirstOf(fits)

ListenReceive(n) ==
    /\ pc[n] = "listen"
    /\ inbox[n] # << >>
    /\ rcvPkt' = [rcvPkt EXCEPT ![n] = Head(inbox[n]).pkt]
    /\ rcvdFrom' = [rcvdFrom EXCEPT ![n] = portToNodeLabel(n, Head(inbox[n]).from)]
    /\ inbox' = [inbox EXCEPT ![n] = Tail(@)]
    /\ Goto(n, "flood")
    /\ UNCHANGED <<started, adjMatrix, addr, seqNum, numNeighbors, ownPkt, next,
                   floodResult>>

\* Mutant: the router listens without a timeout.
ListenTimeoutNever(n) == pc[n] = "none" /\ UNCHANGED vars

ListenTimeout(n) ==
    /\ pc[n] = "listen"
    /\ inbox[n] = << >>
    /\ Goto(n, "flood")
    /\ UNCHANGED <<started, adjMatrix, addr, seqNum, numNeighbors, ownPkt, inbox,
                   rcvPkt, rcvdFrom, next, floodResult>>

\* select or recvfrom fails: the router never sends its packet.
ListenError(n) ==
    /\ pc[n] = "listen"
    /\ Goto(n, "done")
    /\ UNCHANGED <<started, adjMatrix, addr, seqNum, numNeighbors, ownPkt, inbox,
                   rcvPkt, rcvdFrom, next, floodResult>>

listenPacket(n) == ListenReceive(n) \/ ListenTimeout(n)

(***************************************************************************)
(* Sending to the neighbours in the order of the table.                    *)
(***************************************************************************)
\* Mutant: the packet is sent while the router still listens.
MayFloodListening(n) == Bound(n)

MayFlood(n) == pc[n] = "flood"

\* Mutant: the loop stops before the last router.
ToTellShort(n) ==
    {i \in Routers : i >= next[n] /\ i < NumRouters - 1 /\ addr[n][i] # NULL /\ i # n}

ToTell(n) == {i \in Routers : i >= next[n] /\ addr[n][i] # NULL /\ i # n}

\* The datagram reaches a bound socket or is lost, unnoticed by the sender.
sendToNeighbor(n, m) ==
    \/ /\ Bound(m)
       /\ inbox' = [inbox EXCEPT ![m] = Append(@, [from |-> n, pkt |-> ownPkt[n]])]
    \/ inbox' = inbox

FloodSend(n) ==
    /\ MayFlood(n)
    /\ ToTell(n) # {}
    /\ sendToNeighbor(n, addr[n][FirstOf(ToTell(n))])
    /\ next' = [next EXCEPT ![n] = FirstOf(ToTell(n)) + 1]
    /\ UNCHANGED <<pc, started, adjMatrix, addr, seqNum, numNeighbors, ownPkt,
                   rcvPkt, rcvdFrom, floodResult>>

\* sendto fails, or the loop is through; main ignores which.
FloodReturn(n) ==
    /\ pc[n] = "flood"
    /\ \/ /\ ToTell(n) = {}
          /\ floodResult' = [floodResult EXCEPT ![n] = 0]
       \/ /\ ToTell(n) # {}
          /\ floodResult' = [floodResult EXCEPT ![n] = -1]
    /\ Goto(n, "done")
    /\ UNCHANGED <<started, adjMatrix, addr, seqNum, numNeighbors, ownPkt, inbox,
                   rcvPkt, rcvdFrom, next>>

floodNeighbors(n) == FloodSend(n) \/ FloodReturn(n)

RouterWorks(n) ==
    \/ confirmArgs(n)
    \/ parseNeighborFile(n)
    \/ buildLSPacket(n)
    \/ configureHostInfo(n)
    \/ listenPacket(n)
    \/ floodNeighbors(n)

Router(n) == RouterWorks(n) \/ ListenError(n)

Next == \E n \in Routers : Router(n)

Spec == Init /\ [][Next]_vars

\* Every process is scheduled again and again, and select's timeout expires;
\* that select fails is possible, never due.
FairSpec == Spec /\ \A n \in Routers : WF_vars(RouterWorks(n))

(***************************************************************************)
(* Properties.                                                             *)
(***************************************************************************)
Packet == [hopCount : Field, seqNum : Field, numNeighbors : Field,
           sourceLabel : Routers, edges : Seq(Edge \cup {Garbage})]
Datagram == [from : Routers, pkt : Packet]

\* The variables keep their types; the fields of a packet keep to 16 bits
\* (node.h:59-71).
TypeOK ==
    /\ pc \in [Routers -> {"args", "parse", "build", "bind", "listen", "flood", "done"}]
    /\ \A n \in Routers : started[n] \in StartedWith[n]
    /\ adjMatrix \in [Routers -> [Routers -> Int]]
    /\ addr \in [Routers -> [Routers -> Routers \cup {NULL}]]
    /\ seqNum \in [Routers -> {-1, 0}]
    /\ numNeighbors \in [Routers -> Nat \cup {-1}]
    /\ ownPkt \in [Routers -> Packet \cup {NULL}]
    /\ inbox \in [Routers -> Seq(Datagram)]
    /\ rcvPkt \in [Routers -> Packet \cup {NULL}]
    /\ rcvdFrom \in [Routers -> Routers \cup {NULL}]
    /\ next \in [Routers -> Nat]
    /\ floodResult \in [Routers -> {NULL, 0, -1}]

\* What a file says, read from its end: the last line of a label counts.
Overruled(f, k) == \E j \in DOMAIN f : j > k /\ f[j].label = f[k].label
Says(f) == {f[k] : k \in {k \in DOMAIN f : ~Overruled(f, k)}}
Clean(f) == f # NULL /\ \A k \in DOMAIN f : ~Faulty(f[k])
OneLinePerLink(f) ==
    \A k \in DOMAIN f : ~Overruled(f, k) /\ f[k].weight # INF

Heard(n) == rcvPkt[n].sourceLabel
FileOf(n) == started[n].file

\* A packet that was received says what its source's neighbour file says and
\* was sent because that file gives the receiver's address; a file with a
\* faulty line sends nothing.  If the file names every router once, with a
\* weight below INF, the packet holds no edge that was never written
\* (node.c:184, 200-211, 235-246, 287).
HeardIsTrue ==
    \A n \in Routers : rcvPkt[n] # NULL =>
        LET f == FileOf(Heard(n))
            edges == rcvPkt[n].edges
            written == {edges[k] : k \in DOMAIN edges} \ {Garbage}
        IN  /\ Clean(f)
            /\ \E line \in Says(f) : line.at = n /\ line.label # Heard(n)
            /\ written = {LSEdge(line.weight, line.label) :
                              line \in {l \in Says(f) : l.weight # INF}}
            /\ rcvPkt[n].numNeighbors = Len(edges)
            /\ OneLinePerLink(f) => Garbage \notin {edges[k] : k \in DOMAIN edges}

\* The sender the receiver prints (node.c:295) is the packet's source when the
\* receiver's file gives every router its own address, the source among them.
SenderIsNamed ==
    \A n \in Routers : rcvPkt[n] # NULL =>
        LET mine == {line \in Says(FileOf(n)) : line.label # n}
        IN  (\A line \in mine : line.at = line.label) =>
                rcvdFrom[n] = IF \E line \in mine : line.at = Heard(n)
                              THEN Heard(n) ELSE NULL

\* No routers hear each other in a circle: a router listens before it sends
\* (node.c:61-68), so whoever was heard first had given up listening.
NoCircularHearing ==
    \A S \in (SUBSET Routers) \ {{}} :
        \E n \in S : rcvPkt[n] = NULL \/ Heard(n) \notin S

\* Although all of them wait for each other at the start, every router returns
\* (the timeout of node.c:271-276).
RoutersReturn == <>(\A n \in Routers : pc[n] = "done")

\* What each router is to do and has done, for those who wait for it.
LinksOf(n) == IF Clean(FileOf(n))
              THEN {line.at : line \in {l \in Says(FileOf(n)) : l.label # n}}
              ELSE {}
HeardBy(n) == IF rcvPkt[n] = NULL THEN NULL ELSE Heard(n)
ToldBy(n)  == {addr[n][i] : i \in {i \in Routers \ {n} :
                                       i < next[n] /\ addr[n][i] # NULL}}
Outcome(n) == CASE floodResult[n] = 0 -> "complete"
                [] floodResult[n] # 0 /\ pc[n] = "done" -> "cut"
                [] OTHER -> "pending"

\* Each router hears and tells its neighbours as promised.
Exchange == INSTANCE LinkStateExchange WITH
    links   <- [n \in Routers |-> LinksOf(n)],
    heard   <- [n \in Routers |-> HeardBy(n)],
    told    <- [n \in Routers |-> ToldBy(n)],
    outcome <- [n \in Routers |-> Outcome(n)]

ImplementsExchange == Exchange!Spec

=============================================================================
