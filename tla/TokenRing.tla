------------------------------ MODULE TokenRing ------------------------------
(***************************************************************************)
(* The bulletin board of SysNet2/P1: a server that joins its clients to a  *)
(* ring, peers that pass a token around it, and the message file that all  *)
(* of them write.  Each peer has two threads (BbPeer).                     *)
(***************************************************************************)
EXTENDS BbServer, BbPeer

vars == <<sockVars, serverVars, peerVars>>

TypeOK == SocketTypeOK /\ ServerTypeOK /\ PeerTypeOK

Init == SocketInit /\ ServerInit /\ PeerInit

ServerStep == ServerNext /\ UNCHANGED peerVars

NetworkStep(p)  == NetworkThread(p) /\ UNCHANGED serverVars
TerminalStep(p) == TerminalThread(p) /\ UNCHANGED serverVars

Next ==
    \/ ServerStep
    \/ \E p \in Peers : NetworkStep(p) \/ TerminalStep(p)

Spec == Init /\ [][Next]_vars

\* Every user presses ENTER, and every thread goes on when it can; nobody has
\* to type a command.  terminalLock may be as unfair as it likes.
FairSpec ==
    /\ Spec
    /\ WF_vars(ServerStep)
    /\ \A p \in Peers :
          /\ WF_vars(NetworkStep(p))
          /\ WF_vars(TerminalStep(p) /\ termPc[p] # "prompt")

(***************************************************************************)
(* Properties.                                                             *)
(***************************************************************************)

\* There is one token: never do two peers hold one at a time, even where the
\* token overtakes the server's datagrams and a peer takes it for one of them
\* (bbpeer.c:71-93), so that a datagram of the server goes round instead.
OnePasser == \A p, q \in Peers : netPc[p] = "pass" /\ netPc[q] = "pass" => p = q

\* "No other thread has access to this lock at this point" (bbpeer.c:178): when
\* main destroys terminalLock the terminal thread has locked it for the last
\* time, and no message is half written when the process ends.
DestroyIsSafe == \A p \in Peers : netPc[p] = "gone" => termPc[p] = "gone"

\* terminalLock of a peer has one holder: the network thread from the wait for
\* the token on, or the terminal thread from userCmd on (bbpeer.c:105-176,
\* terminal.c:93-104).  EXIT is pending only while that command is carried out
\* or after, and a peer that is not yet in the ring has no terminal thread.
\* This makes DestroyIsSafe inductive.
NetworkHolds(p)  == netPc[p] \in {"recv", "pass", "unlock", "gone"}
TerminalHolds(p) == termPc[p] \in {"handle", "check", "append", "unlock"}

LockInv ==
    /\ \A p \in Peers : terminalLock[p] <=> NetworkHolds(p) \/ TerminalHolds(p)
    /\ \A p \in Peers : ~ (NetworkHolds(p) /\ TerminalHolds(p))
    /\ \A p \in Peers :
          userCmd[p].op = "EXIT" => termPc[p] \in {"handle", "unlock", "gone"}
    /\ \A p \in Peers :
          netPc[p] \in {"enter", "setup", "pair", "crashed"} =>
             termPc[p] = "off" /\ userCmd[p].op # "EXIT"

\* "Messages stored in the file are given an unique id starting sequentially
\* at 1" (msgparser.h:9).
IdsSequential == \A k \in DOMAIN Entries(log) : Entries(log)[k].id = k

\* With one peer that writes, the board is what its users are promised: each
\* message typed is found again under its number, whatever the peers' threads
\* do in between (msgparser.c:123-269, terminal.c:296-318).
Board == INSTANCE BulletinBoard WITH
    Users   <- Peers,
    Bodies  <- UNION {{MessageInput(c.lines) : c \in Typed[p]} : p \in Peers},
    Numbers <- UNION {{c.id : c \in Typed[p]} : p \in Peers},
    entries <- Entries(log)

ImplementsBoard == Board!Spec

\* While nobody exits, the token comes to every peer again and again.
TokenVisitsAll == \A p \in Peers : []<>(netPc[p] = "pass")

=============================================================================
