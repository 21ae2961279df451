---------------------------- MODULE RingInvariant ----------------------------
(***************************************************************************)
(* Why there is one token.  Every peer takes the first three datagrams it  *)
(* gets for its set-up, whosever they are, and passes on each later one.   *)
(* So what may go round is what a peer got beyond the three datagrams the  *)
(* server sends it, and only the first client's token adds to that.        *)
(***************************************************************************)
EXTENDS TokenRing

Place(p) == CHOOSE k \in DOMAIN clients : clients[k] = p

Clamp(d) == IF d <= 0 THEN 0 ELSE IF d >= 3 THEN 3 ELSE d

\* How many datagrams the server has sent to p.
SentTo(p) ==
    IF \E k \in DOMAIN clients : clients[k] = p
    THEN Clamp(sent - 3 * (Place(p) - 1))
    ELSE 0

InRing(p) == netPc[p] \in {"lock", "recv", "pass", "unlock", "gone"}

InHand(p) == IF netPc[p] = "pass" THEN 1 ELSE 0

\* The datagrams p got beyond those of the server, and still has: of the waiting
\* ones, the ones taken for the set-up and the one in hand, all but those due.
SurplusOf(waiting, taken, inHand, due) == Len(waiting) + Len(taken) + inHand - due

Surplus(p) == SurplusOf(sock[p], told[p], InHand(p), SentTo(p))

\* Has the first client started the token?
Started == sent > 0 /\ InRing(clients[1])

Alive == Peers \cap bound

RingTypes ==
    /\ sock \in [Processes -> Seq(Datagram)]
    /\ bound \in SUBSET Processes
    /\ clients \in Seq(Peers) /\ Len(clients) <= clientsExp
    /\ sent \in 0 .. 3 * clientsExp
    /\ netPc \in [Peers -> NetPcs]
    /\ told \in [Peers -> Seq(Datagram)]
    /\ buffer \in [Peers -> Datagram]

\* A peer that reads its set-up has fewer than three datagrams of it, and all
\* others have three.  The socket is closed when the process has ended.
SetUp ==
    /\ \A p \in Peers :
          /\ netPc[p] \in {"enter", "setup"} => Len(told[p]) <= 2
          /\ netPc[p] \notin {"enter", "setup"} => Len(told[p]) = 3
          /\ p \in bound <=> netPc[p] \notin {"gone", "crashed"}
    /\ sent > 0 => Len(clients) = clientsExp

\* Every peer calls in once.
HelloFrom(k) == sock[Server][k].val

CalledOnce ==
    /\ \A k \in DOMAIN clients : netPc[clients[k]] # "enter"
    /\ \A k, l \in DOMAIN clients : clients[k] = clients[l] => k = l
    /\ \A k \in DOMAIN sock[Server] :
          /\ HelloFrom(k) \in Peers
          /\ netPc[HelloFrom(k)] # "enter"
          /\ \A l \in DOMAIN sock[Server] : HelloFrom(l) = HelloFrom(k) => l = k
          /\ \A l \in DOMAIN clients : clients[l] # HelloFrom(k)

\* At most one datagram goes round, and none before the token has started.
OneSurplus ==
    /\ \A p \in Alive : Surplus(p) \in {0, 1}
    /\ \A p, q \in Alive : Surplus(p) = 1 /\ Surplus(q) = 1 => p = q
    /\ ~Started => \A p \in Alive : Surplus(p) = 0
    /\ ~Started => \A p \in Peers : netPc[p] # "gone"
    /\ Started => sent >= 3

\* The flag that makes a peer start a token is the third datagram of the first
\* client, and is never passed on.
START == TokenFlag(TRUE)

ThirdIsStart(waiting, taken) ==
    /\ \A k \in DOMAIN waiting : Len(taken) + k = 3 => waiting[k] = START
    /\ Len(taken) = 3 => taken[3] = START

OneStarter ==
    /\ \A p \in Peers : \A k \in DOMAIN sock[p] :
          sock[p][k] = START => sent > 0 /\ p = clients[1] /\ ~Started
    /\ \A p \in Peers :
          /\ netPc[p] = "pair" /\ told[p][3] = START => sent > 0 /\ p = clients[1]
          /\ netPc[p] = "pass" => buffer[p] # START
    /\ sent > 0 /\ ~Started /\ clients[1] \in bound =>
          ThirdIsStart(sock[clients[1]], told[clients[1]])

TokenInv == RingTypes /\ SetUp /\ CalledOnce /\ OneSurplus /\ OneStarter


(***************************************************************************)
(* Why the board is what its users are promised, when one user writes and  *)
(* no line typed looks like a header where the scan tries one: the file    *)
(* holds whole messages numbered from 1 on, and between the two halves of  *)
(* appendMsg nobody else writes.                                           *)
(***************************************************************************)
OneWriter ==
    \A p, q \in Peers : \A c \in Typed[p], d \in Typed[q] :
        c.op = "WRITE" /\ d.op = "WRITE" => p = q

CleanInput == \A p \in Peers : \A c \in Typed[p] : Clean(MessageInput(c.lines))

\* A command is one its user typed: the text of a message, the number to read.
TypedBy(p, c) ==
    /\ c.op = "WRITE" =>
          \E t \in Typed[p] : t.op = "WRITE" /\ c.lines = MessageInput(t.lines)
    /\ c.op = "READ" => \E t \in Typed[p] : c.id = t.id

Numbered(f) == \A k \in DOMAIN Headers(f) : Headers(f)[k].id = k

BoardInv ==
    /\ TypeOK
    /\ \A p \in Peers : TypedBy(p, userCmd[p]) /\ TypedBy(p, tempUserCmd[p])
    /\ Whole(log) /\ Numbered(log)
    /\ \A p \in Peers :
          termPc[p] \in {"check", "append"} =>
             userCmd[p].op = "WRITE" /\ msgCount[p] = LastId(log)

=============================================================================
