----------------------------- MODULE RingProofs ------------------------------
(***************************************************************************)
(* For every number of peers, whatever their users type and wherever the   *)
(* token is: the two threads of a peer exclude each other, and no process  *)
(* ends in the middle of a command; at most one datagram goes round the    *)
(* ring, wherever the first token overtakes the server's datagrams; and if *)
(* one user writes, the file is the board of BulletinBoard.                *)
(***************************************************************************)
EXTENDS RingInvariant, MessageLogProofs, FiniteSetTheorems, TLAPS

\* The part of the types that the lock discipline needs.
LockTypes ==
    /\ netPc \in [Peers -> NetPcs]
    /\ termPc \in [Peers -> TermPcs]
    /\ terminalLock \in [Peers -> BOOLEAN]
    /\ userCmd = [p \in Peers |-> userCmd[p]]

LockIInv == LockTypes /\ LockInv /\ DestroyIsSafe

\* What the discipline reads.
lockVars == <<netPc, termPc, terminalLock, userCmd>>

-----------------------------------------------------------------------------

LEMMA InitialLocks == Init => LockIInv
  BY DEF Init, PeerInit, LockIInv, LockTypes, LockInv, DestroyIsSafe, NetworkHolds,
         TerminalHolds, NetPcs, TermPcs, NONE, Command

LEMMA Unread == LockIInv /\ UNCHANGED lockVars => LockIInv'
  BY DEF LockIInv, LockTypes, LockInv, DestroyIsSafe, NetworkHolds, TerminalHolds, lockVars

\* Steps of a network thread.
LEMMA NetworkKeeps ==
    ASSUME LockIInv, NEW p \in Peers, NetworkThread(p)
    PROVE  LockIInv'
<1> USE DEF LockIInv, LockTypes, LockInv, DestroyIsSafe, NetworkHolds, TerminalHolds,
            NetPcs, TermPcs, NetGoto, sharedVars, terminalVars
<1>1. CASE Contact(p)
  BY <1>1 DEF Contact
<1>2. CASE ReceiveSetup(p)
  <2>1. /\ netPc[p] = "setup" /\ UNCHANGED <<termPc, terminalLock, userCmd>>
        /\ \/ netPc' = [netPc EXCEPT ![p] = "pair"]
           \/ UNCHANGED netPc
    BY <1>2 DEF ReceiveSetup
  <2> QED BY <2>1
<1>3. CASE Pair(p)
  BY <1>3 DEF Pair
<1>4. CASE PairFails(p)
  BY <1>4 DEF PairFails
<1>5. CASE LockTerminal(p)
  BY <1>5 DEF LockTerminal
<1>6. CASE ReceiveToken(p)
  BY <1>6 DEF ReceiveToken
<1>7. CASE PassToken(p)
  BY <1>7 DEF PassToken
<1>8. CASE Leave(p)
  BY <1>8 DEF Leave
<1>9. CASE UnlockTerminal(p)
  BY <1>9 DEF UnlockTerminal
<1> QED
  BY <1>1, <1>2, <1>3, <1>4, <1>5, <1>6, <1>7, <1>8, <1>9, NetworkThread(p)
  DEF NetworkThread

\* Steps of a terminal thread.
LEMMA TerminalKeeps ==
    ASSUME LockIInv, NEW p \in Peers, TerminalThread(p)
    PROVE  LockIInv'
<1> USE DEF LockIInv, LockTypes, LockInv, DestroyIsSafe, NetworkHolds, TerminalHolds,
            NetPcs, TermPcs, TermGoto, sharedVars, networkVars
<1>1. CASE TypeOneWord(p)
  BY <1>1 DEF TypeOneWord
<1>2. CASE TypeTwoWords(p)
  BY <1>2 DEF TypeTwoWords
<1>3. CASE SecondWord(p)
  BY <1>3 DEF SecondWord
<1>4. CASE LockForCommand(p)
  BY <1>4 DEF LockForCommand
<1>5. CASE StartAppend(p)
  BY <1>5 DEF StartAppend
<1>6. CASE CheckAppend(p)
  <2>1. /\ netPc[p] # "gone" /\ termPc[p] = "check"
        /\ UNCHANGED <<netPc, terminalLock, userCmd>>
        /\ \/ termPc' = [termPc EXCEPT ![p] = "append"]
           \/ termPc' = [termPc EXCEPT ![p] = "unlock"]
    BY <1>6 DEF CheckAppend
  <2> QED BY <2>1
<1>7. CASE FinishAppend(p)
  BY <1>7 DEF FinishAppend
<1>8. CASE AnswerCommand(p)
  BY <1>8 DEF AnswerCommand
<1>9. CASE UnlockAfterCommand(p)
  <2>1. /\ netPc[p] # "gone" /\ termPc[p] = "unlock"
        /\ UNCHANGED <<netPc, userCmd>>
        /\ terminalLock' = [terminalLock EXCEPT ![p] = FALSE]
        /\ \/ userCmd[p].op = "EXIT" /\ termPc' = [termPc EXCEPT ![p] = "gone"]
           \/ userCmd[p].op # "EXIT" /\ termPc' = [termPc EXCEPT ![p] = "prompt"]
    BY <1>9 DEF UnlockAfterCommand
  <2> QED BY <2>1
<1> QED
  BY <1>1, <1>2, <1>3, <1>4, <1>5, <1>6, <1>7, <1>8, <1>9, TerminalThread(p)
  DEF TerminalThread

LEMMA StepKeepsLocks == LockIInv /\ [Next]_vars => LockIInv'
<1> SUFFICES ASSUME LockIInv, [Next]_vars PROVE LockIInv'
  OBVIOUS
<1>1. CASE ServerStep
  BY <1>1, Unread DEF ServerStep, peerVars, networkVars, terminalVars, sharedVars,
                      lockVars
<1>2. ASSUME NEW p \in Peers, NetworkStep(p) PROVE LockIInv'
  BY <1>2, NetworkKeeps DEF NetworkStep
<1>3. ASSUME NEW p \in Peers, TerminalStep(p) PROVE LockIInv'
  BY <1>3, TerminalKeeps DEF TerminalStep
<1>4. CASE UNCHANGED vars
  BY <1>4, Unread DEF vars, peerVars, networkVars, terminalVars, sharedVars, lockVars
<1> QED
  BY <1>1, <1>2, <1>3, <1>4 DEF Next

\* In every peer the network thread and the terminal thread exclude each other,
\* and a pending EXIT is never overtaken by another command (bbpeer.c:105-176,
\* terminal.c:93-104).
THEOREM LockDiscipline == Spec => []LockInv
<1>1. LockIInv => LockInv
  BY DEF LockIInv
<1> QED
  BY <1>1, InitialLocks, StepKeepsLocks, PTL DEF Spec

\* When main destroys terminalLock and ends the process (bbpeer.c:178-181), its
\* terminal thread is done.
THEOREM ExitIsSafe == Spec => []DestroyIsSafe
<1>1. LockIInv => DestroyIsSafe
  BY DEF LockIInv
<1> QED
  BY <1>1, InitialLocks, StepKeepsLocks, PTL DEF Spec

(***************************************************************************)
(* The one token: what the server sends and what goes round.               *)
(***************************************************************************)

LEMMA Parties ==
    /\ clientsExp \in Nat \ {0}
    /\ Server \notin Peers /\ Nowhere \notin Processes /\ Peers \subseteq Processes
    /\ Server \in Processes
BY RingAssumption DEF RingAssumption, clientsExp, Processes, MAXCLIENTSALLOWED

LEMMA ClampRange == \A d \in Int : Clamp(d) \in 0..3
BY DEF Clamp

LEMMA SentToRange ==
    ASSUME RingTypes, NEW p \in Peers
    PROVE  /\ SentTo(p) \in 0..3
           /\ sent = 0 => SentTo(p) = 0
<1>1. /\ sent \in Nat /\ clients \in Seq(Peers)
  BY Parties DEF RingTypes
<1>2. CASE \E k \in DOMAIN clients : clients[k] = p
  <2>1. Place(p) \in DOMAIN clients
    BY <1>2 DEF Place
  <2>2. Place(p) \in Nat \ {0}
    BY <1>1, <2>1
  <2> QED
    BY <1>1, <1>2, <2>2 DEF SentTo, Clamp
<1>3. CASE ~ \E k \in DOMAIN clients : clients[k] = p
  BY <1>3 DEF SentTo
<1> QED
  BY <1>2, <1>3

LEMMA SentToClient ==
    ASSUME RingTypes, CalledOnce, NEW k \in DOMAIN clients
    PROVE  SentTo(clients[k]) = Clamp(sent - 3 * (k - 1))
<1>1. Place(clients[k]) = k
  BY DEF Place, CalledOnce
<1> QED
  BY <1>1 DEF SentTo

LEMMA Terms ==
    ASSUME RingTypes, NEW p \in Peers
    PROVE  /\ sock[p] \in Seq(Datagram) /\ Len(sock[p]) \in Nat
           /\ told[p] \in Seq(Datagram) /\ Len(told[p]) \in Nat
           /\ InHand(p) \in {0, 1} /\ (InHand(p) = 1 <=> netPc[p] = "pass")
           /\ SentTo(p) \in 0..3
BY SentToRange, Parties DEF RingTypes, InHand

(***************************************************************************)
(* The count of datagrams, and the place of the flag among them.           *)
(***************************************************************************)

LEMMA CountAppend ==
    ASSUME NEW waiting \in Seq(Datagram), NEW taken \in Seq(Datagram),
           NEW h \in {0, 1}, NEW due \in 0..3, NEW x \in Datagram
    PROVE  /\ SurplusOf(Append(waiting, x), taken, h, due + 1)
                  = SurplusOf(waiting, taken, h, due)
           /\ SurplusOf(Append(waiting, x), taken, h, due)
                  = SurplusOf(waiting, taken, h, due) + 1
           /\ SurplusOf(waiting, taken, h, due) = 0
                 => SurplusOf(Append(waiting, x), taken, h, due) = 1
<1>1. Len(Append(waiting, x)) = Len(waiting) + 1 /\ Len(waiting) \in Nat
  OBVIOUS
<1>2. Len(taken) \in Nat
  OBVIOUS
<1> QED
  BY ONLY <1>1, <1>2, h \in {0, 1}, due \in 0..3 DEF SurplusOf

LEMMA CountTake ==
    ASSUME NEW waiting \in Seq(Datagram), waiting # << >>, NEW taken \in Seq(Datagram),
           NEW h \in {0, 1}, NEW due \in 0..3
    PROVE  /\ Head(waiting) \in Datagram /\ Tail(waiting) \in Seq(Datagram)
           /\ Append(taken, Head(waiting)) \in Seq(Datagram)
           /\ SurplusOf(Tail(waiting), Append(taken, Head(waiting)), h, due)
                  = SurplusOf(waiting, taken, h, due)
           /\ SurplusOf(Tail(waiting), taken, 1, due) = SurplusOf(waiting, taken, 0, due)
<1>1. /\ Head(waiting) \in Datagram /\ Tail(waiting) \in Seq(Datagram)
      /\ Len(Tail(waiting)) = Len(waiting) - 1 /\ Len(waiting) \in Nat
  OBVIOUS
<1>2. /\ Append(taken, Head(waiting)) \in Seq(Datagram)
      /\ Len(Append(taken, Head(waiting))) = Len(taken) + 1 /\ Len(taken) \in Nat
  BY <1>1
<1> QED
  BY ONLY <1>1, <1>2, h \in {0, 1}, due \in 0..3 DEF SurplusOf

LEMMA CountHand ==
    ASSUME NEW waiting \in Seq(Datagram), NEW taken \in Seq(Datagram),
           NEW due \in 0..3, SurplusOf(waiting, taken, 1, due) = 1
    PROVE  SurplusOf(waiting, taken, 0, due) = 0
<1>1. Len(waiting) \in Nat /\ Len(taken) \in Nat
  OBVIOUS
<1> QED
  BY ONLY <1>1, due \in 0..3, SurplusOf(waiting, taken, 1, due) = 1 DEF SurplusOf

LEMMA CountFull ==
    ASSUME NEW waiting \in Seq(Datagram), NEW due \in 0..3, Len(waiting) + 3 = due
    PROVE  Len(waiting) = 0 /\ due = 3
<1>1. Len(waiting) \in Nat
  OBVIOUS
<1> QED
  BY ONLY <1>1, due \in 0..3, Len(waiting) + 3 = due

LEMMA CountZero ==
    ASSUME NEW waiting \in Seq(Datagram), NEW taken \in Seq(Datagram),
           NEW due \in 0..3, SurplusOf(waiting, taken, 0, due) = 0
    PROVE  Len(waiting) + Len(taken) = due
<1>1. Len(waiting) \in Nat /\ Len(taken) \in Nat
  OBVIOUS
<1> QED
  BY ONLY <1>1, due \in 0..3, SurplusOf(waiting, taken, 0, due) = 0 DEF SurplusOf

LEMMA AppendFacts ==
    ASSUME NEW waiting \in Seq(Datagram), NEW x \in Datagram
    PROVE  LET longer == Append(waiting, x)
               last   == Len(waiting) + 1
           IN  /\ longer \in Seq(Datagram) /\ longer[last] = x
               /\ DOMAIN longer = DOMAIN waiting \cup {last} /\ last \notin DOMAIN waiting
               /\ \A k \in DOMAIN waiting : longer[k] = waiting[k]
OBVIOUS

LEMMA AppendedElement ==
    ASSUME NEW waiting \in Seq(Datagram), NEW x \in Datagram,
           NEW longer, longer = Append(waiting, x), NEW k \in DOMAIN longer
    PROVE  longer[k] = x \/ (k \in DOMAIN waiting /\ longer[k] = waiting[k])
OBVIOUS

LEMMA FlagAppend ==
    ASSUME NEW waiting \in Seq(Datagram), NEW taken \in Seq(Datagram),
           NEW x \in Datagram, ThirdIsStart(waiting, taken),
           Len(waiting) + Len(taken) = 2 => x = START
    PROVE  ThirdIsStart(Append(waiting, x), taken)
BY DEF ThirdIsStart

LEMMA FlagTake ==
    ASSUME NEW waiting \in Seq(Datagram), waiting # << >>, NEW taken \in Seq(Datagram),
           Len(taken) <= 2, ThirdIsStart(waiting, taken)
    PROVE  ThirdIsStart(Tail(waiting), Append(taken, Head(waiting)))
<1>1. /\ \A k \in DOMAIN Tail(waiting) :
            k \in Nat /\ k + 1 \in DOMAIN waiting /\ Tail(waiting)[k] = waiting[k + 1]
      /\ 1 \in DOMAIN waiting /\ Head(waiting) = waiting[1]
  OBVIOUS
<1>2. /\ Len(Append(taken, Head(waiting))) = Len(taken) + 1 /\ Len(taken) \in Nat
      /\ Append(taken, Head(waiting))[Len(taken) + 1] = Head(waiting)
  OBVIOUS
<1> QED
  BY <1>1, <1>2 DEF ThirdIsStart

LEMMA FlagShort ==
    ASSUME NEW waiting \in Seq(Datagram), NEW taken \in Seq(Datagram),
           Len(waiting) + Len(taken) <= 2
    PROVE  ThirdIsStart(waiting, taken)
BY DEF ThirdIsStart

\* Whoever is about to pass something on holds the one surplus datagram.
LEMMA PasserHasSurplus ==
    ASSUME TokenInv, NEW p \in Peers, netPc[p] = "pass"
    PROVE  p \in Alive /\ Surplus(p) = 1 /\ Started
<1>1. p \in Alive /\ Len(told[p]) = 3
  BY DEF TokenInv, SetUp, Alive
<1>2. Surplus(p) >= 1
  BY <1>1, Terms DEF TokenInv, Surplus, SurplusOf
<1> QED
  BY <1>1, <1>2 DEF TokenInv, OneSurplus

LEMMA InvariantImplies == TokenInv => OnePasser
BY PasserHasSurplus DEF OnePasser, TokenInv, OneSurplus

LEMMA InitialState == Init => TokenInv
<1> SUFFICES ASSUME Init PROVE TokenInv
  OBVIOUS
<1> USE DEF Init, SocketInit, ServerInit, PeerInit
<1>1. RingTypes
  BY Parties DEF RingTypes, NetPcs, TOKEN, Datagram
<1>2. SetUp
  BY Parties DEF SetUp
<1>3. CalledOnce
  BY Parties DEF CalledOnce
<1>4. OneSurplus
  <2>1. \A p \in Peers : Surplus(p) = 0
    BY <1>1, SentToRange, Parties DEF Surplus, SurplusOf, InHand
  <2> QED
    BY <2>1 DEF OneSurplus, Started, Alive
<1>5. OneStarter
  <2>1. sent = 0 /\ \A p \in Peers : DOMAIN sock[p] = {} /\ netPc[p] = "enter"
    BY Parties
  <2> QED
    BY ONLY <2>1 DEF OneStarter
<1> QED
  BY <1>1, <1>2, <1>3, <1>4, <1>5 DEF TokenInv

(***************************************************************************)
(* Steps that touch no datagram.                                           *)
(***************************************************************************)

InLoop == {"lock", "recv", "unlock"}

LEMMA QuietKeeps ==
    ASSUME TokenInv, UNCHANGED <<sockVars, serverVars, told, buffer>>,
           \/ netPc' = netPc
           \/ \E p \in Peers : \E to \in InLoop :
                 netPc[p] \in InLoop /\ netPc' = [netPc EXCEPT ![p] = to]
    PROVE  TokenInv'
<1> USE DEF TokenInv, sockVars, serverVars, InLoop
<1>1. /\ netPc' \in [Peers -> NetPcs]
      /\ \A p \in Peers : \/ netPc'[p] = netPc[p]
                          \/ netPc[p] \in InLoop /\ netPc'[p] \in InLoop
  BY DEF RingTypes, NetPcs
<1>2. RingTypes'
  BY <1>1 DEF RingTypes
<1>3. SetUp' /\ CalledOnce'
  <2>1. \A k \in DOMAIN clients : clients[k] \in Peers
    BY DEF RingTypes
  <2> QED
    BY <1>1, <2>1 DEF SetUp, CalledOnce, HelloFrom
<1>4. /\ Started' = Started /\ Alive' = Alive
      /\ \A p \in Peers : Surplus(p)' = Surplus(p)
  <2>1. sent > 0 => clients[1] \in Peers
    BY Parties DEF RingTypes, SetUp
  <2> QED
    BY <1>1, <2>1 DEF Started, InRing, Alive, Surplus, InHand, SentTo, Place
<1>5. OneSurplus'
  BY <1>1, <1>4 DEF OneSurplus, Alive
<1>6. OneStarter'
  BY <1>1, <1>4 DEF OneStarter
<1> QED
  BY <1>2, <1>3, <1>5, <1>6

(***************************************************************************)
(* The server.                                                             *)
(***************************************************************************)

LEMMA CollectKeeps ==
    ASSUME TokenInv, Collect, UNCHANGED peerVars
    PROVE  TokenInv'
<1> USE DEF TokenInv, peerVars, networkVars
<1>1. /\ sent = 0 /\ sent' = 0 /\ bound' = bound
      /\ netPc' = netPc /\ told' = told /\ buffer' = buffer
      /\ sock[Server] \in Seq(Datagram) /\ sock[Server] # << >>
      /\ clients \in Seq(Peers) /\ Len(clients) < clientsExp
      /\ clients' = Append(clients, HelloFrom(1))
      /\ sock' = [sock EXCEPT ![Server] = Tail(sock[Server])]
      /\ HelloFrom(1) \in Peers
  BY Parties DEF Collect, Received, RingTypes, SetUp, CalledOnce, HelloFrom
<1>2. RingTypes'
  BY <1>1, Parties DEF RingTypes
<1>3. SetUp'
  BY <1>1 DEF SetUp
<1>4. CalledOnce'
  <2>1. /\ DOMAIN clients = 1..Len(clients)
        /\ DOMAIN clients' = 1..(Len(clients) + 1)
        /\ \A k \in DOMAIN clients : clients'[k] = clients[k]
        /\ clients'[Len(clients) + 1] = HelloFrom(1)
        /\ Len(clients) \in Nat
    BY <1>1
  <2>2. /\ 1 \in DOMAIN sock[Server]
        /\ \A k \in DOMAIN sock'[Server] :
              k + 1 \in DOMAIN sock[Server] /\ HelloFrom(k)' = HelloFrom(k + 1)
              /\ k + 1 # 1 /\ k \in Nat
    BY <1>1, Parties DEF RingTypes, HelloFrom
  <2>3. ASSUME NEW k \in DOMAIN clients'
        PROVE  k \in DOMAIN clients \/ k = Len(clients) + 1
    BY <2>1
  <2>4. \A k \in DOMAIN clients : clients[k] # HelloFrom(1)
    BY <2>2 DEF CalledOnce
  <2>5. \A k \in DOMAIN clients' : netPc'[clients'[k]] # "enter"
    <3>1. netPc[HelloFrom(1)] # "enter" /\ \A k \in DOMAIN clients : netPc[clients[k]] # "enter"
      BY <2>2 DEF CalledOnce
    <3> QED
      BY ONLY <1>1, <2>1, <2>3, <3>1
  <2>6. \A k, l \in DOMAIN clients' : clients'[k] = clients'[l] => k = l
    <3>1. \A k, l \in DOMAIN clients : clients[k] = clients[l] => k = l
      BY DEF CalledOnce
    <3> QED
      BY ONLY <2>1, <2>3, <2>4, <3>1
  <2>7. ASSUME NEW k \in DOMAIN sock'[Server]
        PROVE  /\ HelloFrom(k)' \in Peers
               /\ netPc'[HelloFrom(k)'] # "enter"
               /\ \A l \in DOMAIN sock'[Server] : HelloFrom(l)' = HelloFrom(k)' => l = k
               /\ \A l \in DOMAIN clients' : clients'[l] # HelloFrom(k)'
    <3>1. /\ k + 1 \in DOMAIN sock[Server] /\ HelloFrom(k)' = HelloFrom(k + 1)
          /\ k + 1 # 1 /\ k \in Nat /\ 1 \in DOMAIN sock[Server]
      BY <2>2
    <3>2. /\ HelloFrom(k + 1) \in Peers
          /\ netPc[HelloFrom(k + 1)] # "enter"
          /\ \A l \in DOMAIN sock[Server] :
                HelloFrom(l) = HelloFrom(k + 1) => l = k + 1
          /\ \A l \in DOMAIN clients : clients[l] # HelloFrom(k + 1)
      BY <3>1 DEF CalledOnce
    <3>3. \A l \in DOMAIN sock'[Server] : HelloFrom(l)' = HelloFrom(k)' => l = k
      BY <2>2, <3>1, <3>2
    <3>4. \A l \in DOMAIN clients' : clients'[l] # HelloFrom(k)'
      BY <2>1, <2>3, <3>1, <3>2
    <3> QED
      BY <1>1, <3>1, <3>2, <3>3, <3>4
  <2> QED
    BY <2>5, <2>6, <2>7 DEF CalledOnce
<1>5. OneSurplus'
  <2>1. \A p \in Peers : SentTo(p) = 0 /\ SentTo(p)' = 0
    <3>1. \A p \in Peers : SentTo(p) = 0
      BY <1>1, SentToRange
    <3>2. \A p \in Peers : SentTo(p)' = 0
      <4> SUFFICES ASSUME NEW p \in Peers PROVE SentTo(p)' = 0
        OBVIOUS
      <4>1. CASE ~ \E k \in DOMAIN clients' : clients'[k] = p
        BY <4>1 DEF SentTo
      <4>2. CASE \E k \in DOMAIN clients' : clients'[k] = p
        <5>1. Place(p)' \in DOMAIN clients'
          BY <4>2 DEF Place
        <5>2. Place(p)' \in Nat \ {0}
          BY <1>2, <5>1 DEF RingTypes
        <5> QED
          BY <1>1, <4>2, <5>2 DEF SentTo, Clamp
      <4> QED
        BY <4>1, <4>2
    <3> QED
      BY <3>1, <3>2
  <2>2. \A p \in Peers : Surplus(p)' = Surplus(p)
    BY <1>1, <2>1, Parties DEF Surplus, InHand, RingTypes
  <2> QED
    BY <1>1, <2>2 DEF OneSurplus, Started, Alive
<1>6. OneStarter'
  <2>1. \A p \in Peers : sock'[p] = sock[p]
    BY <1>1, Parties DEF RingTypes
  <2>2. ~Started /\ ~Started'
    BY <1>1 DEF Started
  <2> QED
    BY <1>1, <2>1, <2>2 DEF OneStarter
<1> QED
  BY <1>2, <1>3, <1>4, <1>5, <1>6

\* What one datagram of the second loop changes.
LEMMA AssignEffect ==
    ASSUME TokenInv, Assign
    PROVE  LET i == sent \div 3
               t == clients[i + 1]
           IN  /\ i \in 0..(clientsExp - 1) /\ i + 1 \in DOMAIN clients
               /\ t \in Peers /\ sent' = sent + 1 /\ sent' \in 0 .. 3 * clientsExp
               /\ Assignment(i, sent % 3) \in Datagram
               /\ Assignment(i, sent % 3) = START <=> sent = 2
               /\ sock' = Sent(sock, t, Assignment(i, sent % 3))
               /\ \A p \in Peers :
                     SentTo(p)' = SentTo(p) + (IF p = t THEN 1 ELSE 0)
               /\ i = 0 => SentTo(t) = sent
<1> DEFINE i == sent \div 3
           t == clients[i + 1]
<1>1. /\ sent \in Nat /\ sent < 3 * clientsExp /\ clientsExp \in Nat \ {0}
      /\ clients \in Seq(Peers) /\ Len(clients) = clientsExp
      /\ sent' = sent + 1 /\ clients' = clients
      /\ sock' = Sent(sock, t, Assignment(i, sent % 3))
  BY Parties DEF TokenInv, RingTypes, Assign
<1>2. /\ i \in Int /\ 3 * i <= sent /\ sent < 3 * i + 3
      /\ sent % 3 = sent - 3 * i
  BY <1>1
<1> HIDE DEF i
<1>3. i \in 0..(clientsExp - 1)
  BY <1>1, <1>2
<1>4. i + 1 \in DOMAIN clients /\ t \in Peers
  BY <1>1, <1>3
<1>5. sent' \in 0 .. 3 * clientsExp
  BY <1>1
<1>6. /\ Assignment(i, sent % 3) \in Datagram
      /\ Assignment(i, sent % 3) = START <=> sent = 2
  <2>1. Successor(i) \in Peers
    <3>1. (i + 1) % clientsExp \in 0..(clientsExp - 1)
      BY <1>1, <1>3
    <3>2. ((i + 1) % clientsExp) + 1 \in 1..clientsExp
      BY <1>1, <3>1
    <3> QED
      BY <1>1, <3>2 DEF Successor
  <2>2. CASE sent % 3 = 0
    BY <1>1, <1>2, <2>1, <2>2 DEF Assignment, Host, Datagram, START, TokenFlag
  <2>3. CASE sent % 3 = 1
    BY <1>1, <1>2, <2>1, <2>3 DEF Assignment, Port, Datagram, START, TokenFlag
  <2>4. CASE sent % 3 = 2
    <3>1. Assignment(i, sent % 3) = TokenFlag(i = 0)
      BY <2>4 DEF Assignment
    <3>2. CASE i = 0
      BY <1>1, <1>2, <2>4, <3>1, <3>2 DEF Datagram, START, TokenFlag
    <3>3. CASE i # 0
      BY <1>1, <1>2, <1>3, <2>4, <3>1, <3>3 DEF Datagram, START, TokenFlag
    <3> QED
      BY <3>2, <3>3
  <2> QED
    BY <1>1, <1>2, <2>2, <2>3, <2>4
<1>7. SentTo(t) = sent - 3 * i
  <2>1. SentTo(t) = Clamp(sent - 3 * ((i + 1) - 1))
    BY <1>4, SentToClient DEF TokenInv
  <2>2. (i + 1) - 1 = i /\ sent - 3 * i \in 0..2
    BY <1>1, <1>2
  <2>3. Clamp(sent - 3 * i) = sent - 3 * i
    BY <1>1, <2>2 DEF Clamp
  <2> QED
    BY <2>1, <2>2, <2>3
<1>8. ASSUME NEW p \in Peers
      PROVE  SentTo(p)' = SentTo(p) + (IF p = t THEN 1 ELSE 0)
  <2>1. CASE ~ \E k \in DOMAIN clients : clients[k] = p
    BY <1>1, <1>4, <2>1 DEF SentTo
  <2>2. CASE \E k \in DOMAIN clients : clients[k] = p
    <3>1. Place(p) \in DOMAIN clients /\ clients[Place(p)] = p
      BY <2>2 DEF Place
    <3>2. Place(p) \in Nat /\ (Place(p) = i + 1 <=> p = t)
      BY <1>1, <1>4, <3>1 DEF TokenInv, CalledOnce
    <3>3. /\ SentTo(p) = Clamp(sent - 3 * (Place(p) - 1))
          /\ SentTo(p)' = Clamp(sent' - 3 * (Place(p) - 1))
      BY <1>1, <2>2 DEF SentTo, Place
    <3>4. PICK d \in Int : d = sent - 3 * (Place(p) - 1) /\ sent' - 3 * (Place(p) - 1) = d + 1
      BY <1>1, <3>2
    <3>5. CASE p = t
      <4>1. d = sent - 3 * i
        BY <1>2, <3>2, <3>4, <3>5
      <4> QED
        BY <1>1, <1>2, <3>3, <3>4, <3>5, <4>1 DEF Clamp
    <3>6. CASE p # t
      <4>1. d <= -1 \/ d >= 3
        BY <1>1, <1>2, <3>2, <3>4, <3>6
      <4> QED
        BY <3>3, <3>4, <3>6, <4>1 DEF Clamp
    <3> QED
      BY <3>5, <3>6
  <2> QED
    BY <2>1, <2>2
<1> QED
  BY <1>1, <1>2, <1>3, <1>4, <1>5, <1>6, <1>7, <1>8 DEF i

LEMMA AssignKeeps ==
    ASSUME TokenInv, Assign, UNCHANGED peerVars
    PROVE  TokenInv'
<1> USE DEF TokenInv, peerVars, networkVars
<1> DEFINE t == clients[(sent \div 3) + 1]
           x == Assignment(sent \div 3, sent % 3)
<1>1. /\ t \in Peers /\ t # Server /\ x \in Datagram /\ (x = START <=> sent = 2)
      /\ sent \in Nat /\ sent' = sent + 1 /\ sent' \in 0 .. 3 * clientsExp
      /\ sock' = Sent(sock, t, x)
      /\ \A p \in Peers : SentTo(p)' = SentTo(p) + (IF p = t THEN 1 ELSE 0)
      /\ sent <= 2 => t = clients[1] /\ SentTo(t) = sent
  <2>1. sent \in Nat /\ (sent <= 2 => sent \div 3 = 0)
    BY Parties DEF RingTypes
  <2>2. sent <= 2 => t = clients[1] /\ SentTo(t) = sent
    BY <2>1, AssignEffect
  <2> QED
    BY <2>1, <2>2, AssignEffect, Parties
<1>2. /\ clients' = clients /\ Len(clients) = clientsExp
      /\ netPc' = netPc /\ told' = told /\ buffer' = buffer
      /\ bound' = bound \/ bound' = bound \ {Server}
      /\ clients[1] \in Peers
  BY Parties DEF Assign, RingTypes
<1> HIDE DEF t, x
<1>3. /\ t \in bound => sock' = [sock EXCEPT ![t] = Append(sock[t], x)]
      /\ t \notin bound => sock' = sock
      /\ \A p \in Peers : sock[p] \in Seq(Datagram)
      /\ DOMAIN sock = Processes
  BY <1>1, Parties DEF Sent, RingTypes
<1>4. RingTypes'
  <2>1. t \in bound => Append(sock[t], x) \in Seq(Datagram)
    BY <1>1, <1>3
  <2>2. sock' \in [Processes -> Seq(Datagram)]
    <3>1. sock \in [Processes -> Seq(Datagram)]
      BY DEF RingTypes
    <3> QED
      BY ONLY <1>3, <2>1, <3>1
  <2> QED
    BY <1>1, <1>2, <2>2, Parties DEF RingTypes
<1>5. SetUp'
  BY <1>1, <1>2, Parties DEF SetUp
<1>6. CalledOnce'
  <2>1. sock'[Server] = sock[Server]
    BY <1>1, <1>3, Parties
  <2> QED
    BY <1>2, <2>1 DEF CalledOnce, HelloFrom
<1>7. /\ Alive' = Alive
      /\ \A p \in Alive : Surplus(p)' = Surplus(p)
  <2>1. Alive' = Alive
    BY <1>2, Parties DEF Alive
  <2>2. ASSUME NEW p \in Alive PROVE Surplus(p)' = Surplus(p)
    <3>1. p \in Peers /\ p \in bound /\ InHand(p)' = InHand(p)
      BY <1>2 DEF Alive, InHand
    <3>2. SentTo(p)' = SentTo(p) + (IF p = t THEN 1 ELSE 0) /\ told'[p] = told[p]
      BY <1>1, <1>2, <3>1
    <3>3. /\ sock[p] \in Seq(Datagram) /\ Len(sock[p]) \in Nat
          /\ Len(told[p]) \in Nat /\ InHand(p) \in {0, 1} /\ SentTo(p) \in 0..3
      BY <3>1, Terms
    <3>4. CASE p = t
      <4>1. sock'[p] = Append(sock[p], x) /\ SentTo(p)' = SentTo(p) + 1
        BY <1>1, <1>3, <3>1, <3>2, <3>4, Parties
      <4>2. told[p] \in Seq(Datagram)
        BY <3>1, Terms
      <4>3. SurplusOf(Append(sock[p], x), told[p], InHand(p), SentTo(p) + 1) = Surplus(p)
        BY <1>1, <3>3, <4>2, CountAppend DEF Surplus
      <4> QED
        BY ONLY <3>1, <3>2, <4>1, <4>3 DEF Surplus
    <3>5. CASE p # t
      <4>1. sock'[p] = sock[p] /\ SentTo(p)' = SentTo(p)
        BY <1>1, <1>3, <3>1, <3>2, <3>3, <3>5, Parties
      <4> QED
        BY ONLY <3>1, <3>2, <4>1 DEF Surplus
    <3> QED
      BY <3>4, <3>5
  <2> QED
    BY <2>1, <2>2
\* No peer is in the ring before the server has spoken.
<1>8. Started' = Started
  <2>1. CASE sent > 0
    BY <1>1, <1>2, <2>1 DEF Started, InRing
  <2>2. CASE sent = 0
    <3>1. PICK c \in Peers : c = clients[1]
      BY <1>2
    <3>2. ~Started /\ netPc[c] # "gone" /\ SentTo(c) = 0
      BY <1>2, <2>2, SentToRange DEF Started, OneSurplus
    <3>3. ASSUME InRing(c) PROVE FALSE
      <4>1. c \in Alive /\ Len(told[c]) = 3
        BY <3>2, <3>3 DEF InRing, SetUp, Alive
      <4>2. Surplus(c) = 0
        BY <3>2, <4>1 DEF OneSurplus
      <4> QED
        BY <3>2, <4>1, <4>2, Terms DEF Surplus, SurplusOf
    <3> QED
      BY <1>2, <3>1, <3>2, <3>3 DEF Started, InRing
  <2> QED
    BY <1>1, <2>1, <2>2
<1>9. OneSurplus'
  BY <1>1, <1>2, <1>7, <1>8 DEF OneSurplus
<1>10. OneStarter'
  <2>1. ASSUME NEW p \in Peers, NEW k \in DOMAIN sock'[p], sock'[p][k] = START
        PROVE  sent' > 0 /\ p = clients'[1] /\ ~Started'
    <3>1. CASE k \in DOMAIN sock[p] /\ sock'[p][k] = sock[p][k]
      BY <1>1, <1>2, <1>8, <2>1, <3>1 DEF OneStarter
    <3>2. CASE p = t /\ sock'[p][k] = x
      BY <1>1, <1>2, <1>8, <2>1, <3>2 DEF OneSurplus
    <3> QED
      BY <1>3, <1>1, <2>1, <3>1, <3>2, Parties
  <2>2. ASSUME NEW p \in Peers
        PROVE  /\ netPc'[p] = "pair" /\ told'[p][3] = START => sent' > 0 /\ p = clients'[1]
               /\ netPc'[p] = "pass" => buffer'[p] # START
    BY <1>1, <1>2 DEF OneStarter
  <2>3. ASSUME ~Started, clients[1] \in bound
        PROVE  ThirdIsStart(sock'[clients[1]], told[clients[1]])
    <3>1. PICK c \in Peers : c = clients[1]
      BY <1>2
    <3>2. /\ c \in Alive /\ sock[c] \in Seq(Datagram) /\ told[c] \in Seq(Datagram)
          /\ Len(sock[c]) \in Nat /\ Len(told[c]) \in Nat
      BY <2>3, <3>1, Terms DEF Alive
    <3>3. CASE sent > 2
      <4>1. t # c
        <5>1. sent \div 3 # 0 /\ sent \div 3 \in Int
          BY <1>1, <3>3
        <5>2. (sent \div 3) + 1 \in DOMAIN clients /\ 1 \in DOMAIN clients
          BY <1>2, AssignEffect, Parties DEF RingTypes
        <5> QED
          BY <3>1, <5>1, <5>2 DEF CalledOnce, t
      <4>2. sock'[c] = sock[c]
        BY <1>3, <3>1, <4>1, Parties
      <4>3. sent > 0
        BY <1>1, <3>3
      <4>4. ThirdIsStart(sock[c], told[c])
        BY <2>3, <3>1, <4>3 DEF OneStarter
      <4> QED
        BY <3>1, <4>2, <4>4
    <3>4. CASE sent <= 2
      <4>1. t = c /\ SentTo(c) = sent
        BY <1>1, <3>1, <3>4
      <4>2. Len(sock[c]) + Len(told[c]) = sent
        <5>1. Surplus(c) = 0
          BY <2>3, <3>2 DEF OneSurplus
        <5>2. InHand(c) = 0
          BY <2>3, <3>1, PasserHasSurplus DEF InHand
        <5>3. SentTo(c) \in 0..3 /\ SurplusOf(sock[c], told[c], 0, SentTo(c)) = 0
          BY <3>1, <5>1, <5>2, Terms DEF Surplus
        <5> QED
          BY <3>2, <4>1, <5>3, CountZero
      <4>3. sock'[c] = Append(sock[c], x)
        BY <1>3, <2>3, <3>1, <4>1, Parties
      <4>4. Len(sock[c]) + Len(told[c]) <= 2 /\ (Len(sock[c]) + Len(told[c]) = 2 => x = START)
        BY <1>1, <3>4, <4>2
      <4>5. ThirdIsStart(Append(sock[c], x), told[c])
        BY <1>1, <3>2, <4>4, FlagShort, FlagAppend
      <4> QED
        BY <3>1, <4>3, <4>5
    <3> QED
      BY <1>1, <3>3, <3>4
  <2>4. clients[1] \in bound' => clients[1] \in bound
    BY <1>2
  <2> QED
    BY <1>2, <1>8, <2>1, <2>2, <2>3, <2>4 DEF OneStarter
<1> QED
  BY <1>4, <1>5, <1>6, <1>9, <1>10

(***************************************************************************)
(* The peers.  First what each of their steps leaves alone.                *)
(***************************************************************************)

LEMMA DueKeeps ==
    ASSUME UNCHANGED serverVars
    PROVE  \A q \in Peers : SentTo(q)' = SentTo(q)
BY DEF serverVars, SentTo, Place

LEMMA OthersKeep ==
    ASSUME UNCHANGED serverVars, NEW q \in Peers,
           sock'[q] = sock[q], told'[q] = told[q], InHand(q)' = InHand(q)
    PROVE  Surplus(q)' = Surplus(q)
BY DueKeeps DEF Surplus

LEMMA FirstClient ==
    ASSUME TokenInv, sent > 0
    PROVE  clients[1] \in Peers /\ 1 \in DOMAIN clients
BY Parties DEF TokenInv, RingTypes, SetUp

LEMMA CallsKeep ==
    ASSUME TokenInv, UNCHANGED serverVars, sock'[Server] = sock[Server],
           \A q \in Peers : netPc[q] # "enter" => netPc'[q] # "enter"
    PROVE  CalledOnce'
<1>1. \A k \in DOMAIN clients : clients[k] \in Peers
  BY DEF TokenInv, RingTypes
<1> QED
  BY <1>1 DEF TokenInv, CalledOnce, HelloFrom, serverVars

LEMMA ContactKeeps ==
    ASSUME TokenInv, NEW p \in Peers, Contact(p), UNCHANGED serverVars
    PROVE  TokenInv'
<1> USE DEF TokenInv, serverVars
<1>1. /\ netPc[p] = "enter" /\ netPc' = [netPc EXCEPT ![p] = "setup"]
      /\ netPc \in [Peers -> NetPcs] /\ netPc' \in [Peers -> NetPcs]
      /\ bound' = bound /\ told' = told /\ buffer' = buffer
      /\ sock' = Sent(sock, Server, Hello(p))
      /\ Hello(p) \in Datagram /\ Hello(p).val = p
      /\ sock \in [Processes -> Seq(Datagram)]
  BY DEF Contact, NetGoto, RingTypes, NetPcs, Hello, Datagram
<1>2. /\ \A q \in Peers : sock'[q] = sock[q]
      /\ sock' \in [Processes -> Seq(Datagram)]
      /\ sock'[Server] \in {sock[Server], Append(sock[Server], Hello(p))}
      /\ sock[Server] \in Seq(Datagram)
  <2>1. Append(sock[Server], Hello(p)) \in Seq(Datagram)
    BY <1>1, Parties
  <2> QED
    BY <1>1, <2>1, Parties DEF Sent
<1>3. RingTypes'
  BY <1>1, <1>2 DEF RingTypes
<1>4. SetUp'
  BY <1>1 DEF SetUp
<1>5. CalledOnce'
  <2>1. /\ \A k \in DOMAIN clients : clients[k] \in Peers /\ clients[k] # p
        /\ \A k \in DOMAIN sock[Server] : HelloFrom(k) # p
    BY <1>1 DEF CalledOnce, RingTypes
  <2>2. CASE sock'[Server] = sock[Server]
    <3>1. \A q \in Peers : netPc[q] # "enter" => netPc'[q] # "enter"
      BY <1>1
    <3> QED
      BY <2>2, <3>1, CallsKeep
  <2>3. CASE sock'[Server] = Append(sock[Server], Hello(p))
    <3>0. PICK last \in Nat : last = Len(sock[Server]) + 1
      BY <1>2
    <3>1. /\ DOMAIN sock'[Server] = DOMAIN sock[Server] \cup {last}
          /\ last \notin DOMAIN sock[Server]
          /\ \A k \in DOMAIN sock[Server] : HelloFrom(k)' = HelloFrom(k)
          /\ HelloFrom(last)' = p
      BY <1>1, <1>2, <2>3, <3>0, AppendFacts DEF HelloFrom
    <3>2. /\ \A k \in DOMAIN sock[Server] : HelloFrom(k) \in Peers
          /\ netPc'[p] # "enter"
          /\ \A q \in Peers : netPc[q] # "enter" => netPc'[q] # "enter"
      BY <1>1 DEF CalledOnce
    <3>3. \A k \in DOMAIN clients : netPc'[clients[k]] # "enter"
      BY <2>1, <3>2 DEF CalledOnce
    <3>4. ASSUME NEW k \in DOMAIN sock'[Server]
          PROVE  /\ HelloFrom(k)' \in Peers
                 /\ netPc'[HelloFrom(k)'] # "enter"
                 /\ \A l \in DOMAIN sock'[Server] : HelloFrom(l)' = HelloFrom(k)' => l = k
                 /\ \A l \in DOMAIN clients : clients[l] # HelloFrom(k)'
      <4>1. CASE k \in DOMAIN sock[Server]
        <5>1. HelloFrom(k)' = HelloFrom(k) /\ HelloFrom(k) # p
          BY <2>1, <3>1, <4>1
        <5>2. /\ netPc[HelloFrom(k)] # "enter"
              /\ \A l \in DOMAIN sock[Server] : HelloFrom(l) = HelloFrom(k) => l = k
              /\ \A l \in DOMAIN clients : clients[l] # HelloFrom(k)
          BY <4>1 DEF CalledOnce
        <5>3. ASSUME NEW l \in DOMAIN sock'[Server], HelloFrom(l)' = HelloFrom(k)'
              PROVE  l = k
          BY <3>1, <5>1, <5>2, <5>3
        <5>4. HelloFrom(k) \in Peers
          BY <3>2, <4>1
        <5>5. netPc'[HelloFrom(k)'] # "enter"
          BY <3>2, <5>1, <5>2, <5>4
        <5> QED
          BY <5>1, <5>2, <5>3, <5>4, <5>5
      <4>2. CASE k = last
        <5>1. HelloFrom(k)' = p
          BY <3>1, <4>2
        <5>2. ASSUME NEW l \in DOMAIN sock'[Server], HelloFrom(l)' = HelloFrom(k)'
              PROVE  l = k
          <6>1. CASE l \in DOMAIN sock[Server]
            BY <2>1, <3>1, <5>1, <5>2, <6>1
          <6> QED
            BY <3>1, <4>2, <6>1
        <5> QED
          BY <2>1, <3>2, <5>1, <5>2
      <4> QED
        BY <3>1, <4>1, <4>2
    <3> QED
      BY <3>3, <3>4 DEF CalledOnce
  <2> QED
    BY <1>2, <2>2, <2>3
<1>6. /\ Started' = Started /\ Alive' = Alive
      /\ \A q \in Peers : Surplus(q)' = Surplus(q)
  <2>1. \A q \in Peers : InHand(q)' = InHand(q) /\ (InRing(q)' <=> InRing(q))
    BY <1>1 DEF InHand, InRing
  <2>2. Started' = Started
    BY <2>1, FirstClient DEF Started
  <2> QED
    BY <1>1, <1>2, <2>1, <2>2, OthersKeep DEF Alive
<1>7. OneSurplus'
  BY <1>1, <1>6 DEF OneSurplus, Alive
<1>8. OneStarter'
  <2>1. ASSUME sent > 0, ~Started, clients[1] \in bound
        PROVE  ThirdIsStart(sock'[clients[1]], told'[clients[1]])
    BY <1>1, <1>2, <2>1, FirstClient DEF OneStarter
  <2> QED
    BY <1>1, <1>2, <1>6, <2>1 DEF OneStarter
<1> QED
  BY <1>3, <1>4, <1>5, <1>7, <1>8

\* recvfrom takes the oldest datagram of one peer.
LEMMA TakeEffect ==
    ASSUME RingTypes, NEW p \in Peers, sock[p] # << >>, sock' = Received(sock, p)
    PROVE  /\ sock' \in [Processes -> Seq(Datagram)]
           /\ sock'[Server] = sock[Server] /\ sock'[p] = Tail(sock[p])
           /\ \A q \in Peers : q # p => sock'[q] = sock[q]
           /\ Head(sock[p]) \in Datagram
           /\ Head(sock[p]) = sock[p][1] /\ 1 \in DOMAIN sock[p]
           /\ \A q \in Peers : \A k \in DOMAIN sock'[q] :
                 \E l \in DOMAIN sock[q] : sock'[q][k] = sock[q][l]
<1>1. sock \in [Processes -> Seq(Datagram)] /\ p \in Processes /\ p # Server
  BY Parties DEF RingTypes
<1>2. /\ sock[p] \in Seq(Datagram) /\ Tail(sock[p]) \in Seq(Datagram)
      /\ Head(sock[p]) \in Datagram
      /\ Head(sock[p]) = sock[p][1] /\ 1 \in DOMAIN sock[p]
      /\ \A k \in DOMAIN Tail(sock[p]) :
            k + 1 \in DOMAIN sock[p] /\ Tail(sock[p])[k] = sock[p][k + 1]
  BY <1>1
<1>3. sock' = [sock EXCEPT ![p] = Tail(sock[p])]
  BY DEF Received
<1>4. /\ sock' \in [Processes -> Seq(Datagram)]
      /\ sock'[Server] = sock[Server] /\ sock'[p] = Tail(sock[p])
      /\ \A q \in Peers : q # p => sock'[q] = sock[q]
  BY <1>1, <1>2, <1>3, Parties
<1>5. ASSUME NEW q \in Peers, NEW k \in DOMAIN sock'[q]
      PROVE  \E l \in DOMAIN sock[q] : sock'[q][k] = sock[q][l]
  <2>1. CASE q = p
    BY ONLY <1>2, <1>4, <1>5, <2>1
  <2>2. CASE q # p
    BY ONLY <1>4, <1>5, <2>2
  <2> QED
    BY <2>1, <2>2
<1> QED
  BY <1>2, <1>4, <1>5

LEMMA ReceiveSetupKeeps ==
    ASSUME TokenInv, NEW p \in Peers, ReceiveSetup(p), UNCHANGED serverVars
    PROVE  TokenInv'
<1> USE DEF TokenInv, serverVars
<1>1. /\ netPc[p] = "setup" /\ sock[p] # << >> /\ sock' = Received(sock, p)
      /\ netPc \in [Peers -> NetPcs] /\ told \in [Peers -> Seq(Datagram)]
      /\ told' = [told EXCEPT ![p] = Append(told[p], Head(sock[p]))]
      /\ netPc' = [netPc EXCEPT ![p] = IF Len(told[p]) = 2 THEN "pair" ELSE netPc[p]]
      /\ bound' = bound /\ buffer' = buffer
      /\ sock[p] \in Seq(Datagram) /\ told[p] \in Seq(Datagram)
  BY Terms DEF ReceiveSetup, RingTypes
<1>0. /\ Len(told[p]) \in Nat /\ Len(told[p]) <= 2 /\ p \in bound
      /\ Len(told[p]) # 2 => Len(told[p]) + 1 <= 2
      /\ Len(told[p]) = 2 => Len(told[p]) + 1 = 3
  <2>1. Len(told[p]) \in Nat /\ netPc[p] = "setup"
    BY Terms DEF ReceiveSetup
  <2>2. Len(told[p]) <= 2 /\ p \in bound
    BY <2>1 DEF SetUp
  <2>3. \A n \in Nat : n <= 2 => (n # 2 => n + 1 <= 2) /\ (n = 2 => n + 1 = 3)
    OBVIOUS
  <2> QED
    BY ONLY <2>1, <2>2, <2>3
<1>2. /\ Append(told[p], Head(sock[p])) \in Seq(Datagram)
      /\ Len(Append(told[p], Head(sock[p]))) = Len(told[p]) + 1
      /\ Append(told[p], Head(sock[p]))[Len(told[p]) + 1] = sock[p][1]
  BY <1>1, TakeEffect
<1>3. /\ told' \in [Peers -> Seq(Datagram)]
      /\ told'[p] = Append(told[p], Head(sock[p]))
      /\ netPc' \in [Peers -> NetPcs]
      /\ netPc'[p] \in {"setup", "pair"} /\ (netPc'[p] = "pair" <=> Len(told[p]) = 2)
      /\ \A q \in Peers : q # p => told'[q] = told[q] /\ netPc'[q] = netPc[q]
  BY <1>1, <1>2 DEF NetPcs
<1>4. RingTypes'
  BY <1>1, <1>3, TakeEffect DEF RingTypes
<1>5. SetUp'
  <2>1. ASSUME NEW q \in Peers
        PROVE  /\ netPc'[q] \in {"enter", "setup"} => Len(told'[q]) <= 2
               /\ netPc'[q] \notin {"enter", "setup"} => Len(told'[q]) = 3
               /\ q \in bound' <=> netPc'[q] \notin {"gone", "crashed"}
    <3>1. CASE q = p
      <4>1. Len(told'[p]) = Len(told[p]) + 1 /\ (p \in bound' <=> p \in bound)
        BY <1>1, <1>2, <1>3
      <4>2. netPc'[p] # "pair" => Len(told[p]) + 1 <= 2
        BY <1>0, <1>3
      <4>3. netPc'[p] = "pair" => Len(told[p]) + 1 = 3
        BY <1>0, <1>3
      <4>4. netPc'[p] \in {"setup", "pair"} /\ p \in bound
        BY <1>0, <1>3
      <4> QED
        BY ONLY <3>1, <4>1, <4>2, <4>3, <4>4
    <3>2. CASE q # p
      BY <1>1, <1>3, <3>2 DEF SetUp
    <3> QED
      BY <3>1, <3>2
  <2> QED
    BY <2>1 DEF SetUp
<1>6. CalledOnce'
  BY <1>1, <1>3, TakeEffect, CallsKeep
<1>7. /\ Started' = Started /\ Alive' = Alive
      /\ \A q \in Peers : Surplus(q)' = Surplus(q)
  <2>1. \A q \in Peers : InHand(q)' = InHand(q) /\ (InRing(q)' <=> InRing(q))
    BY <1>1, <1>3 DEF InHand, InRing
  <2>2. Started' = Started
    BY <2>1, FirstClient DEF Started
  <2>3. Surplus(p)' = Surplus(p)
    <3>1. InHand(p) \in {0, 1} /\ SentTo(p) \in 0..3 /\ SentTo(p)' = SentTo(p)
      BY Terms, DueKeeps
    <3>2. sock'[p] = Tail(sock[p])
      BY <1>1, TakeEffect
    <3>3. SurplusOf(Tail(sock[p]), Append(told[p], Head(sock[p])), InHand(p), SentTo(p))
             = SurplusOf(sock[p], told[p], InHand(p), SentTo(p))
      BY <1>1, <3>1, CountTake
    <3> QED
      BY ONLY <1>3, <2>1, <3>1, <3>2, <3>3, p \in Peers DEF Surplus
  <2>4. \A q \in Peers : q # p => Surplus(q)' = Surplus(q)
    BY <1>1, <1>3, <2>1, TakeEffect, OthersKeep
  <2> QED
    BY <1>1, <2>2, <2>3, <2>4 DEF Alive
<1>8. OneSurplus'
  BY <1>1, <1>3, <1>7 DEF OneSurplus, Alive
<1>9. OneStarter'
  <2>1. ASSUME NEW q \in Peers, NEW k \in DOMAIN sock'[q], sock'[q][k] = START
        PROVE  sent > 0 /\ q = clients[1] /\ ~Started
    BY <1>1, <2>1, TakeEffect DEF OneStarter
  <2>2. ASSUME NEW q \in Peers
        PROVE  /\ netPc'[q] = "pair" /\ told'[q][3] = START => sent > 0 /\ q = clients[1]
               /\ netPc'[q] = "pass" => buffer[q] # START
    <3>1. CASE q = p
      <4>1. netPc'[p] = "pair" => told'[p][3] = sock[p][1]
        <5>1. netPc'[p] = "pair" => Len(told[p]) + 1 = 3
          BY <1>0, <1>3
        <5> QED
          BY ONLY <1>2, <1>3, <5>1
      <4> QED
        BY <1>1, <1>3, <3>1, <4>1, TakeEffect DEF OneStarter
    <3>2. CASE q # p
      BY <1>3, <3>2 DEF OneStarter
    <3> QED
      BY <3>1, <3>2
  <2>3. ASSUME sent > 0, ~Started, clients[1] \in bound
        PROVE  ThirdIsStart(sock'[clients[1]], told'[clients[1]])
    <3>1. ThirdIsStart(sock[clients[1]], told[clients[1]]) /\ clients[1] \in Peers
      BY <2>3, FirstClient DEF OneStarter
    <3>2. CASE clients[1] = p
      BY <1>0, <1>1, <1>3, <3>1, <3>2, FlagTake, TakeEffect
    <3>3. CASE clients[1] # p
      BY <1>1, <1>3, <3>1, <3>3, TakeEffect
    <3> QED
      BY <3>2, <3>3
  <2> QED
    BY <1>1, <1>7, <2>1, <2>2, <2>3 DEF OneStarter
<1> QED
  BY <1>4, <1>5, <1>6, <1>8, <1>9

LEMMA ReceiveTokenKeeps ==
    ASSUME TokenInv, NEW p \in Peers, ReceiveToken(p), UNCHANGED serverVars
    PROVE  TokenInv'
<1> USE DEF TokenInv, serverVars
<1>1. /\ netPc[p] = "recv" /\ sock[p] # << >> /\ sock' = Received(sock, p)
      /\ netPc \in [Peers -> NetPcs] /\ buffer \in [Peers -> Datagram]
      /\ netPc' = [netPc EXCEPT ![p] = "pass"]
      /\ buffer' = [buffer EXCEPT ![p] = Head(sock[p])]
      /\ bound' = bound /\ told' = told
      /\ sock[p] \in Seq(Datagram) /\ told[p] \in Seq(Datagram)
  BY Terms DEF ReceiveToken, NetGoto, RingTypes
<1>2. /\ netPc' \in [Peers -> NetPcs] /\ netPc'[p] = "pass"
      /\ buffer' \in [Peers -> Datagram] /\ buffer'[p] = sock[p][1]
      /\ \A q \in Peers : q # p => buffer'[q] = buffer[q] /\ netPc'[q] = netPc[q]
  BY <1>1, TakeEffect DEF NetPcs
<1>3. RingTypes'
  BY <1>1, <1>2, TakeEffect DEF RingTypes
<1>4. SetUp'
  BY <1>1, <1>2 DEF SetUp
<1>5. CalledOnce'
  BY <1>1, <1>2, TakeEffect, CallsKeep
<1>6. /\ Started' = Started /\ Alive' = Alive
      /\ \A q \in Peers : Surplus(q)' = Surplus(q)
  <2>1. \A q \in Peers : InRing(q)' <=> InRing(q)
    BY <1>1, <1>2 DEF InRing
  <2>2. Started' = Started
    BY <2>1, FirstClient DEF Started
  <2>3. Surplus(p)' = Surplus(p)
    <3>1. InHand(p) = 0 /\ InHand(p)' = 1 /\ SentTo(p) \in 0..3 /\ SentTo(p)' = SentTo(p)
      BY <1>1, <1>2, Terms, DueKeeps DEF InHand
    <3>2. sock'[p] = Tail(sock[p])
      BY <1>1, TakeEffect
    <3>3. SurplusOf(Tail(sock[p]), told[p], 1, SentTo(p))
             = SurplusOf(sock[p], told[p], 0, SentTo(p))
      BY <1>1, <3>1, CountTake
    <3> QED
      BY ONLY <1>1, <3>1, <3>2, <3>3, p \in Peers DEF Surplus
  <2>4. \A q \in Peers : q # p => Surplus(q)' = Surplus(q)
    <3>1. \A q \in Peers : q # p => InHand(q)' = InHand(q)
      BY <1>2 DEF InHand
    <3> QED
      BY <1>1, <3>1, TakeEffect, OthersKeep
  <2> QED
    BY <1>1, <2>2, <2>3, <2>4 DEF Alive
<1>7. OneSurplus'
  BY <1>1, <1>2, <1>6 DEF OneSurplus, Alive
\* A peer that is in the ring is not the first client, or the token has started.
<1>8. sent > 0 /\ ~Started => clients[1] # p
  BY <1>1 DEF Started, InRing
<1>9. OneStarter'
  <2>1. ASSUME NEW q \in Peers, NEW k \in DOMAIN sock'[q], sock'[q][k] = START
        PROVE  sent > 0 /\ q = clients[1] /\ ~Started
    BY <1>1, <2>1, TakeEffect DEF OneStarter
  <2>2. ASSUME NEW q \in Peers
        PROVE  /\ netPc'[q] = "pair" /\ told[q][3] = START => sent > 0 /\ q = clients[1]
               /\ netPc'[q] = "pass" => buffer'[q] # START
    <3>1. CASE q = p
      BY <1>1, <1>2, <1>8, <3>1, TakeEffect DEF OneStarter
    <3>2. CASE q # p
      BY <1>2, <3>2 DEF OneStarter
    <3> QED
      BY <3>1, <3>2
  <2>3. ASSUME sent > 0, ~Started, clients[1] \in bound
        PROVE  ThirdIsStart(sock'[clients[1]], told'[clients[1]])
    BY <1>1, <1>8, <2>3, TakeEffect, FirstClient DEF OneStarter
  <2> QED
    BY <1>1, <1>6, <2>1, <2>2, <2>3 DEF OneStarter
<1> QED
  BY <1>3, <1>4, <1>5, <1>7, <1>9

\* The address of the next peer, if the set-up gave one.
LEMMA DestRange ==
    ASSUME TokenInv, NEW p \in Peers, Len(told[p]) = 3
    PROVE  Dest(p) \in Peers \cup {Nowhere}
<1>1. told[p] \in Seq(Datagram) /\ Len(told[p]) = 3
  BY Terms DEF TokenInv
<1>2. told[p][1] \in Datagram
  BY ONLY <1>1
<1>3. told[p][1].val \in Peers \cup {Nowhere}
  BY <1>2 DEF Datagram
<1> QED
  BY <1>3 DEF Dest

\* sendto adds to the datagrams of one peer, or of none.
LEMMA SendEffect ==
    ASSUME RingTypes, NEW d \in Peers \cup {Nowhere}, NEW x \in Datagram,
           sock' = Sent(sock, d, x)
    PROVE  /\ sock' \in [Processes -> Seq(Datagram)]
           /\ sock'[Server] = sock[Server]
           /\ \A q \in Peers : q # d => sock'[q] = sock[q]
           /\ d \in Alive => sock'[d] = Append(sock[d], x)
           /\ \A q \in Peers : \A k \in DOMAIN sock'[q] :
                 sock'[q][k] = x \/ (k \in DOMAIN sock[q] /\ sock'[q][k] = sock[q][k])
<1>1. sock \in [Processes -> Seq(Datagram)] /\ bound \in SUBSET Processes
  BY DEF RingTypes
<1>2. CASE d \in bound
  <2>1. /\ d \in Peers /\ d \in Processes /\ d # Server
        /\ sock' = [sock EXCEPT ![d] = Append(sock[d], x)]
    BY <1>1, <1>2, Parties DEF Sent
  <2>2. sock[d] \in Seq(Datagram) /\ Append(sock[d], x) \in Seq(Datagram)
    BY <1>1, <2>1
  <2>3. /\ sock' \in [Processes -> Seq(Datagram)]
        /\ sock'[Server] = sock[Server]
        /\ \A q \in Peers : q # d => sock'[q] = sock[q]
        /\ sock'[d] = Append(sock[d], x)
    BY <1>1, <2>1, <2>2, Parties
  <2>4. ASSUME NEW q \in Peers, NEW k \in DOMAIN sock'[q]
        PROVE  sock'[q][k] = x \/ (k \in DOMAIN sock[q] /\ sock'[q][k] = sock[q][k])
    <3>1. CASE q = d
      <4>1. sock'[q] = Append(sock[q], x) /\ sock[q] \in Seq(Datagram)
        BY <2>2, <2>3, <3>1
      <4> QED
        BY <2>4, <4>1, AppendedElement
    <3>2. CASE q # d
      BY <2>3, <2>4, <3>2
    <3> QED
      BY <3>1, <3>2
  <2> QED
    BY <2>3, <2>4
<1>3. CASE d \notin bound
  BY <1>1, <1>3 DEF Sent, Alive
<1> QED
  BY <1>2, <1>3

LEMMA OneArrives ==
    ASSUME RingTypes, NEW d \in Peers \cup {Nowhere}, NEW x \in Datagram,
           sock' = Sent(sock, d, x), UNCHANGED <<serverVars, told>>,
           NEW q \in Alive, NEW h \in {0, 1}, InHand(q)' = h,
           SurplusOf(sock[q], told[q], h, SentTo(q)) = 0
    PROVE  Surplus(q)' = IF q = d THEN 1 ELSE 0
<1>1. /\ q \in Peers /\ sock[q] \in Seq(Datagram) /\ told[q] \in Seq(Datagram)
      /\ SentTo(q) \in 0..3 /\ SentTo(q)' = SentTo(q) /\ told'[q] = told[q]
  BY Terms, DueKeeps DEF Alive, serverVars
<1>2. Surplus(q)' = SurplusOf(sock'[q], told[q], h, SentTo(q))
  BY ONLY <1>1, InHand(q)' = h DEF Surplus
<1>3. CASE q = d
  <2>1. sock'[q] = Append(sock[q], x)
    BY <1>3, SendEffect
  <2>2. SurplusOf(Append(sock[q], x), told[q], h, SentTo(q)) = 1
    BY <1>1, CountAppend
  <2> QED
    BY <1>2, <1>3, <2>1, <2>2
<1>4. CASE q # d
  BY <1>1, <1>2, <1>4, SendEffect
<1> QED
  BY <1>3, <1>4

LEMMA PassTokenKeeps ==
    ASSUME TokenInv, NEW p \in Peers, PassToken(p), UNCHANGED serverVars
    PROVE  TokenInv'
<1> USE DEF TokenInv, serverVars
<1>1. /\ netPc[p] = "pass" /\ netPc' = [netPc EXCEPT ![p] = "unlock"]
      /\ netPc \in [Peers -> NetPcs] /\ sock' = Sent(sock, Dest(p), buffer[p])
      /\ bound' = bound /\ told' = told /\ buffer' = buffer
      /\ buffer[p] \in Datagram /\ buffer[p] # START
  BY DEF PassToken, NetGoto, RingTypes, OneStarter
<1>2. /\ netPc' \in [Peers -> NetPcs] /\ netPc'[p] = "unlock"
      /\ \A q \in Peers : q # p => netPc'[q] = netPc[q]
  BY <1>1 DEF NetPcs
<1>3. p \in Alive /\ Surplus(p) = 1 /\ Started
  BY <1>1, PasserHasSurplus
<1>4. Dest(p) \in Peers \cup {Nowhere}
  BY <1>1, DestRange DEF SetUp
<1>5. RingTypes'
  BY <1>1, <1>2, <1>4, SendEffect DEF RingTypes
<1>6. SetUp'
  BY <1>1, <1>2 DEF SetUp
<1>7. CalledOnce'
  BY <1>1, <1>2, <1>4, SendEffect, CallsKeep
<1>8. Started' /\ Alive' = Alive
  <2>1. \A q \in Peers : InRing(q)' <=> InRing(q)
    BY <1>1, <1>2 DEF InRing
  <2> QED
    BY <1>1, <1>3, <2>1, FirstClient DEF Started, Alive
<1>9. ASSUME NEW q \in Alive
      PROVE  Surplus(q)' = IF q = Dest(p) THEN 1 ELSE 0
  <2>1. CASE q = p
    <3>1. InHand(p)' = 0 /\ InHand(p) = 1
      BY <1>1, <1>2 DEF InHand
    <3>2. SurplusOf(sock[p], told[p], 1, SentTo(p)) = 1
      BY <1>3, <3>1 DEF Surplus
    <3>3. SurplusOf(sock[p], told[p], 0, SentTo(p)) = 0
      BY <3>2, Terms, CountHand
    <3> QED
      BY <1>1, <1>3, <1>4, <2>1, <3>1, <3>3, OneArrives
  <2>2. CASE q # p
    <3>1. Surplus(q) = 0
      BY <1>3, <1>9, <2>2 DEF OneSurplus
    <3>2. InHand(q)' = InHand(q) /\ InHand(q) \in {0, 1}
      BY <1>2, <1>9, <2>2 DEF InHand, Alive
    <3>3. SurplusOf(sock[q], told[q], InHand(q), SentTo(q)) = 0
      BY <3>1 DEF Surplus
    <3> QED
      BY <1>1, <1>4, <1>9, <3>2, <3>3, OneArrives
  <2> QED
    BY <2>1, <2>2
<1>10. OneSurplus'
  <2>1. \A q \in Alive' : Surplus(q)' \in {0, 1}
    BY <1>8, <1>9
  <2>2. \A q, r \in Alive' : Surplus(q)' = 1 /\ Surplus(r)' = 1 => q = r
    BY <1>8, <1>9
  <2>3. sent' >= 3
    BY <1>3 DEF OneSurplus
  <2> QED
    BY <1>8, <2>1, <2>2, <2>3 DEF OneSurplus
<1>11. OneStarter'
  <2>1. ASSUME NEW q \in Peers, NEW k \in DOMAIN sock'[q]
        PROVE  sock'[q][k] # START
    <3>1. \/ sock'[q][k] = buffer[p]
          \/ k \in DOMAIN sock[q] /\ sock'[q][k] = sock[q][k]
      BY <1>1, <1>4, <2>1, SendEffect
    <3>2. k \in DOMAIN sock[q] => sock[q][k] # START
      BY <1>3 DEF OneStarter
    <3> QED
      BY ONLY <1>1, <3>1, <3>2
  <2>2. ASSUME NEW q \in Peers
        PROVE  /\ netPc'[q] = "pair" /\ told[q][3] = START => sent > 0 /\ q = clients[1]
               /\ netPc'[q] = "pass" => buffer[q] # START
    BY <1>2 DEF OneStarter
  <2> QED
    BY <1>1, <1>8, <2>1, <2>2 DEF OneStarter
<1> QED
  BY <1>5, <1>6, <1>7, <1>10, <1>11

LEMMA PairKeeps ==
    ASSUME TokenInv, NEW p \in Peers, Pair(p), UNCHANGED serverVars
    PROVE  TokenInv'
<1> USE DEF TokenInv, serverVars
<1>1. /\ netPc[p] = "pair" /\ netPc' = [netPc EXCEPT ![p] = "lock"]
      /\ netPc \in [Peers -> NetPcs]
      /\ bound' = bound /\ told' = told /\ buffer' = buffer
      /\ told[p][3] = START => sock' = Sent(sock, Dest(p), TOKEN)
      /\ told[p][3] # START => sock' = sock
      /\ sock \in [Processes -> Seq(Datagram)]
  BY DEF Pair, NetGoto, RingTypes, START
<1>2. /\ netPc' \in [Peers -> NetPcs] /\ netPc'[p] = "lock"
      /\ \A q \in Peers : q # p => netPc'[q] = netPc[q]
  BY <1>1 DEF NetPcs
<1>3. p \in Alive /\ Len(told[p]) = 3
  BY <1>1 DEF SetUp, Alive
<1>4. Dest(p) \in Peers \cup {Nowhere} /\ TOKEN \in Datagram /\ TOKEN # START
  BY <1>3, DestRange DEF TOKEN, Datagram, START, TokenFlag
<1>5. RingTypes'
  BY <1>1, <1>2, <1>4, SendEffect DEF RingTypes
<1>6. SetUp'
  BY <1>1, <1>2 DEF SetUp
<1>7. CalledOnce'
  <2>1. sock'[Server] = sock[Server]
    BY <1>1, <1>4, SendEffect
  <2> QED
    BY <1>1, <1>2, <2>1, CallsKeep
<1>8. /\ Alive' = Alive
      /\ \A q \in Peers : InHand(q)' = InHand(q) /\ InHand(q) \in {0, 1}
      /\ \A q \in Peers : q # p => (InRing(q)' <=> InRing(q))
      /\ ~InRing(p) /\ InRing(p)'
  BY <1>1, <1>2 DEF Alive, InHand, InRing
<1>9. ASSUME NEW q \in Peers
      PROVE  /\ netPc'[q] = "pair" /\ told[q][3] = START => sent > 0 /\ q = clients[1]
             /\ netPc'[q] = "pass" => buffer[q] # START
  BY <1>2 DEF OneStarter
\* The first client has taken all that the server sends it, and its socket is
\* empty when it starts the token.
<1>10. CASE told[p][3] = START
  <2>1. sent > 0 /\ p = clients[1] /\ ~Started /\ Started'
    BY <1>1, <1>8, <1>10 DEF OneStarter, Started
  <2>2. \A q \in Alive : Surplus(q) = 0
    BY <2>1 DEF OneSurplus
  <2>3. Len(sock[p]) = 0 /\ SentTo(p) = 3
    <3>1. InHand(p) = 0
      BY <1>1 DEF InHand
    <3>2. SurplusOf(sock[p], told[p], 0, SentTo(p)) = 0
      BY <1>3, <2>2, <3>1 DEF Surplus
    <3>3. Len(sock[p]) + Len(told[p]) = SentTo(p)
      BY <3>2, CountZero, Terms
    <3> QED
      BY <1>3, <3>3, Terms, CountFull
  <2>4. sent >= 3
    <3>1. SentTo(p) = Clamp(sent) /\ sent \in Nat
      <4>1. SentTo(p) = Clamp(sent - 3 * (1 - 1)) /\ sent \in Nat
        BY <2>1, FirstClient, SentToClient, Parties DEF RingTypes
      <4> QED
        BY <4>1
    <3> QED
      BY <2>1, <2>3, <3>1 DEF Clamp
  <2>5. ASSUME NEW q \in Alive
        PROVE  Surplus(q)' = IF q = Dest(p) THEN 1 ELSE 0
    <3>1. SurplusOf(sock[q], told[q], InHand(q), SentTo(q)) = 0
      BY <2>2 DEF Surplus
    <3>2. InHand(q)' = InHand(q) /\ InHand(q) \in {0, 1}
      BY <1>8, <2>5 DEF Alive
    <3> QED
      BY <1>1, <1>4, <1>10, <2>5, <3>1, <3>2, OneArrives
  <2>6. OneSurplus'
    <3>1. \A q \in Alive' : Surplus(q)' \in {0, 1}
      BY <1>8, <2>5
    <3>2. \A q, r \in Alive' : Surplus(q)' = 1 /\ Surplus(r)' = 1 => q = r
      BY <1>8, <2>5
    <3> QED
      BY <2>1, <2>4, <3>1, <3>2 DEF OneSurplus
  <2>7. ASSUME NEW q \in Peers, NEW k \in DOMAIN sock'[q]
        PROVE  sock'[q][k] # START
    <3>1. \/ sock'[q][k] = TOKEN
          \/ k \in DOMAIN sock[q] /\ sock'[q][k] = sock[q][k]
      BY <1>1, <1>4, <1>10, <2>7, SendEffect
    <3>2. DOMAIN sock[p] = {}
      BY <2>3, Terms
    <3>3. k \in DOMAIN sock[q] => sock[q][k] # START
      BY <2>1, <3>2 DEF OneStarter
    <3> QED
      BY ONLY <1>4, <3>1, <3>3
  <2>8. OneStarter'
    BY <1>1, <1>9, <2>1, <2>7 DEF OneStarter
  <2> QED
    BY <1>5, <1>6, <1>7, <2>6, <2>8
<1>11. CASE told[p][3] # START
  <2>1. Started' = Started
    <3>1. CASE sent > 0 /\ clients[1] = p
      <4>1. Started
        BY <1>3, <1>11, <3>1 DEF OneStarter, ThirdIsStart, Alive
      <4> QED
        BY <1>8, <3>1, <4>1 DEF Started
    <3>2. CASE ~ (sent > 0 /\ clients[1] = p)
      BY <1>8, <3>2, FirstClient DEF Started
    <3> QED
      BY <3>1, <3>2
  <2>2. \A q \in Peers : Surplus(q)' = Surplus(q)
    BY <1>1, <1>8, <1>11, OthersKeep
  <2>3. OneSurplus'
    BY <1>1, <1>2, <1>8, <2>1, <2>2 DEF OneSurplus, Alive
  <2>4. OneStarter'
    BY <1>1, <1>9, <1>11, <2>1 DEF OneStarter
  <2> QED
    BY <1>5, <1>6, <1>7, <2>3, <2>4
<1> QED
  BY <1>10, <1>11

\* A peer that ends, with its datagrams, takes none of the others'.
LEMMA EndKeeps ==
    ASSUME TokenInv, NEW p \in Peers, UNCHANGED serverVars,
           NEW to \in {"gone", "crashed"},
           netPc[p] \in {"pair", "pass"},
           to = "gone" <=> netPc[p] = "pass",
           netPc' = [netPc EXCEPT ![p] = to],
           bound' = bound \ {p}, sock' = [sock EXCEPT ![p] = << >>],
           UNCHANGED <<told, buffer>>
    PROVE  TokenInv'
<1> USE DEF TokenInv, serverVars
<1>1. /\ netPc \in [Peers -> NetPcs] /\ netPc' \in [Peers -> NetPcs]
      /\ netPc'[p] = to /\ \A q \in Peers : q # p => netPc'[q] = netPc[q]
  BY DEF RingTypes, NetPcs
<1>2. /\ sock' \in [Processes -> Seq(Datagram)]
      /\ sock'[Server] = sock[Server] /\ DOMAIN sock'[p] = {}
      /\ \A q \in Peers : q # p => sock'[q] = sock[q]
  BY Parties DEF RingTypes
<1>3. RingTypes'
  BY <1>1, <1>2 DEF RingTypes
<1>4. SetUp'
  BY <1>1 DEF SetUp
<1>5. CalledOnce'
  BY <1>1, <1>2, CallsKeep
<1>6. /\ Alive' = Alive \ {p}
      /\ \A q \in Peers : q # p => Surplus(q)' = Surplus(q)
  <2>1. \A q \in Peers : q # p => InHand(q)' = InHand(q)
    BY <1>1 DEF InHand
  <2> QED
    BY <1>2, <2>1, OthersKeep DEF Alive
<1>7. Started' = Started
  <2>1. \A q \in Peers : InRing(q)' <=> InRing(q)
    BY <1>1 DEF InRing
  <2> QED
    BY <2>1, FirstClient DEF Started
<1>8. to = "gone" => Started
  BY PasserHasSurplus
<1>9. OneSurplus'
  <2>1. \A q \in Alive' : q \in Alive /\ Surplus(q)' = Surplus(q)
    BY <1>6 DEF Alive
  <2>2. ~Started => \A q \in Peers : netPc'[q] # "gone"
    BY <1>1, <1>8 DEF OneSurplus
  <2> QED
    BY <1>7, <2>1, <2>2 DEF OneSurplus
<1>10. OneStarter'
  <2>1. ASSUME NEW q \in Peers, NEW k \in DOMAIN sock'[q], sock'[q][k] = START
        PROVE  sent > 0 /\ q = clients[1] /\ ~Started
    BY <1>2, <2>1 DEF OneStarter
  <2>2. ASSUME NEW q \in Peers
        PROVE  /\ netPc'[q] = "pair" /\ told[q][3] = START => sent > 0 /\ q = clients[1]
               /\ netPc'[q] = "pass" => buffer[q] # START
    BY <1>1 DEF OneStarter
  <2>3. ASSUME sent > 0, ~Started, clients[1] \in bound \ {p}
        PROVE  ThirdIsStart(sock'[clients[1]], told[clients[1]])
    BY <1>2, <2>3, FirstClient DEF OneStarter
  <2> QED
    BY <1>7, <2>1, <2>2, <2>3 DEF OneStarter
<1> QED
  BY <1>3, <1>4, <1>5, <1>9, <1>10

-----------------------------------------------------------------------------

LEMMA StepKeeps == TokenInv /\ [Next]_vars => TokenInv'
<1> SUFFICES ASSUME TokenInv, [Next]_vars PROVE TokenInv'
  OBVIOUS
<1>1. CASE ServerStep
  BY <1>1, CollectKeeps, AssignKeeps DEF ServerStep, ServerNext
<1>2. ASSUME NEW p \in Peers, NetworkStep(p)
      PROVE  TokenInv'
  <2>1. UNCHANGED serverVars
    BY <1>2 DEF NetworkStep
  <2>2. CASE Contact(p)
    BY <2>1, <2>2, ContactKeeps
  <2>3. CASE ReceiveSetup(p)
    BY <2>1, <2>3, ReceiveSetupKeeps
  <2>4. CASE Pair(p)
    BY <2>1, <2>4, PairKeeps
  <2>5. CASE PairFails(p)
    BY <2>1, <2>5, EndKeeps DEF PairFails, NetGoto
  <2>6. CASE LockTerminal(p)
    BY <2>1, <2>6, QuietKeeps DEF LockTerminal, NetGoto, InLoop
  <2>7. CASE ReceiveToken(p)
    BY <2>1, <2>7, ReceiveTokenKeeps
  <2>8. CASE PassToken(p)
    BY <2>1, <2>8, PassTokenKeeps
  <2>9. CASE Leave(p)
    BY <2>1, <2>9, EndKeeps DEF Leave, NetGoto
  <2>10. CASE UnlockTerminal(p)
    BY <2>1, <2>10, QuietKeeps DEF UnlockTerminal, NetGoto, InLoop
  <2> QED
    BY <1>2, <2>2, <2>3, <2>4, <2>5, <2>6, <2>7, <2>8, <2>9, <2>10
       DEF NetworkStep, NetworkThread
<1>3. ASSUME NEW p \in Peers, TerminalStep(p)
      PROVE  TokenInv'
  <2>1. UNCHANGED <<sockVars, serverVars, networkVars>>
    BY <1>3 DEF TerminalStep, TerminalThread, TypeOneWord, TypeTwoWords, SecondWord,
                LockForCommand, StartAppend, CheckAppend, FinishAppend,
                AnswerCommand, UnlockAfterCommand
  <2> QED
    BY <2>1, QuietKeeps DEF networkVars
<1>4. CASE UNCHANGED vars
  BY <1>4, QuietKeeps DEF vars, peerVars, networkVars
<1> QED
  BY <1>1, <1>2, <1>3, <1>4 DEF Next

\* Of any number of peers at most one is between recvfrom and sendto of the ring
\* loop (bbpeer.c:105-159), though the peers take the first three datagrams for
\* the set-up whosever they are (bbpeer.c:71-93).
THEOREM OneTokenOnly == Spec => []OnePasser
<1>1. Spec => []TokenInv
  BY InitialState, StepKeeps, PTL DEF Spec
<1> QED
  BY <1>1, InvariantImplies, PTL

(***************************************************************************)
(* The types of all of the ring: what TokenInv says of the datagrams, and  *)
(* what the terminals and the file hold.                                   *)
(***************************************************************************)

TerminalTypes ==
    /\ terminalLock \in [Peers -> BOOLEAN]
    /\ strtokBy \in [Peers -> {"network", "terminal"}]
    /\ termPc \in [Peers -> TermPcs]
    /\ userCmd \in [Peers -> Commands]
    /\ tempUserCmd \in [Peers -> Commands]
    /\ typedSoFar \in [Peers -> 0..MaxCommands]
    /\ msgCount \in [Peers -> Int]
    /\ shown \in [Peers -> Answers]
    /\ log \in Seq(Line)

LEMMA TypesImplied == TokenInv /\ TerminalTypes => TypeOK
<1> SUFFICES ASSUME TokenInv, TerminalTypes PROVE TypeOK
  OBVIOUS
<1> USE DEF TokenInv
<1>1. ASSUME NEW p \in Peers PROVE Len(told[p]) <= 3
  <2> DEFINE n == Len(told[p])
  <2>1. RingTypes
    OBVIOUS
  <2>2. n \in Nat
    BY <2>1 DEF RingTypes
  <2>3. n <= 2 \/ n = 3
    BY DEF SetUp
  <2> HIDE DEF n, TokenInv
  <2>4. n <= 3
    BY <2>2, <2>3
  <2> QED
    BY <2>4 DEF n
<1> QED
  BY <1>1 DEF TypeOK, RingTypes, TerminalTypes, SocketTypeOK, ServerTypeOK, PeerTypeOK

\* What is typed for a message is a sequence of lines.
LEMMA InputType ==
    ASSUME NEW lines \in Seq(Line)
    PROVE  MessageInput(lines) \in Seq(Line)
  BY PickedIsSequence DEF MessageInput

LEMMA LinesKept ==
    ASSUME NEW c \in Commands
    PROVE  /\ c.lines \in Seq(Line) /\ c.id \in Int
           /\ [c EXCEPT !.lines = MessageInput(@)] \in Commands
           /\ [c EXCEPT !.lines = MessageInput(@)].op = c.op
           /\ [c EXCEPT !.lines = MessageInput(@)].id = c.id
           /\ [c EXCEPT !.lines = MessageInput(@)].lines = MessageInput(c.lines)
<1>1. c.lines \in Seq(Line)
  BY DEF Commands
<1>2. MessageInput(c.lines) \in Seq(Line)
  BY <1>1, InputType
<1> QED
  BY <1>1, <1>2 DEF Commands

LEMMA NoneIsCommand == NONE \in Commands
<1>1. << >> \in Seq(Line)
  OBVIOUS
<1> QED
  BY <1>1 DEF NONE, Command, Commands, Ops

LEMMA AnswerType ==
    ASSUME TerminalTypes, NEW p \in Peers
    PROVE  Answer(p) \in Answers
<1>1. log \in Seq(Line) /\ userCmd[p] \in Commands /\ shown[p] \in Answers
  BY DEF TerminalTypes
<1>2. userCmd[p].id \in Int /\ << >> \in Seq(Line) /\ LastId(log) \in Int
  <2>1. LastId(log) \in Int
    BY <1>1, HeadersType
  <2>2. userCmd[p].id \in Int
    BY <1>1, LinesKept
  <2> QED
    BY <2>1, <2>2
<1>3. MessageByID(log, userCmd[p].id) \in Answers
  BY <1>1, <1>2, FoundType DEF MessageByID, Answers
<1>4. [kind |-> "range", count |-> LastId(log), body |-> << >>] \in Answers
  BY <1>2 DEF Answers
<1> QED
  BY <1>1, <1>3, <1>4 DEF Answer

LEMMA InitialTypes == Init => TerminalTypes
<1> SUFFICES ASSUME Init PROVE TerminalTypes
  OBVIOUS
<1>1. << >> \in Seq(Line)
  OBVIOUS
<1>2. [kind |-> "nothing", count |-> 0, body |-> << >>] \in Answers
  BY <1>1 DEF Answers
<1>3. 0 \in 0..MaxCommands
  BY PeerAssumption
<1> QED
  BY <1>1, <1>2, <1>3, NoneIsCommand DEF Init, PeerInit, TerminalTypes, TermPcs

LEMMA NetworkKeepsTypes ==
    ASSUME TerminalTypes, NEW p \in Peers, NetworkThread(p)
    PROVE  TerminalTypes'
<1>1. UNCHANGED <<userCmd, tempUserCmd, typedSoFar, msgCount, shown, log>>
  BY DEF NetworkThread, Contact, ReceiveSetup, Pair, PairFails, LockTerminal,
         ReceiveToken, PassToken, Leave, UnlockTerminal, terminalVars, sharedVars
<1>2. \/ UNCHANGED terminalLock
      \/ \E b \in BOOLEAN : terminalLock' = [terminalLock EXCEPT ![p] = b]
  BY DEF NetworkThread, Contact, ReceiveSetup, Pair, PairFails, LockTerminal,
         ReceiveToken, PassToken, Leave, UnlockTerminal, terminalVars, sharedVars
<1>3. UNCHANGED strtokBy \/ strtokBy' = [strtokBy EXCEPT ![p] = "network"]
  BY DEF NetworkThread, Contact, ReceiveSetup, Pair, PairFails, LockTerminal,
         ReceiveToken, PassToken, Leave, UnlockTerminal, terminalVars, sharedVars
<1>4. UNCHANGED termPc \/ termPc' = [termPc EXCEPT ![p] = "prompt"]
  BY DEF NetworkThread, Contact, ReceiveSetup, Pair, PairFails, LockTerminal,
         ReceiveToken, PassToken, Leave, UnlockTerminal, terminalVars, sharedVars
<1>5. terminalLock' \in [Peers -> BOOLEAN]
  BY <1>2 DEF TerminalTypes
<1>6. strtokBy' \in [Peers -> {"network", "terminal"}]
  BY <1>3 DEF TerminalTypes
<1>7. termPc' \in [Peers -> TermPcs]
  BY <1>4 DEF TerminalTypes, TermPcs
<1> QED
  BY <1>1, <1>5, <1>6, <1>7 DEF TerminalTypes

\* A command typed at the prompt.
LEMMA TypingKeepsTypes ==
    ASSUME TerminalTypes, NEW p \in Peers, TypeOneWord(p) \/ TypeTwoWords(p)
    PROVE  TerminalTypes'
<1>1. UNCHANGED <<terminalLock, userCmd, msgCount, shown, log>>
  BY DEF TypeOneWord, TypeTwoWords
<1>2. strtokBy' = [strtokBy EXCEPT ![p] = "terminal"]
  BY DEF TypeOneWord, TypeTwoWords
<1>3. termPc' \in [Peers -> TermPcs]
  BY DEF TypeOneWord, TypeTwoWords, TermGoto, TerminalTypes, TermPcs
<1>4. typedSoFar' \in [Peers -> 0..MaxCommands]
  <2>1. /\ typedSoFar' = [typedSoFar EXCEPT ![p] = @ + 1]
        /\ typedSoFar[p] < MaxCommands
    BY DEF TypeOneWord, TypeTwoWords
  <2> QED
    BY <2>1, PeerAssumption DEF TerminalTypes
<1>5. \E c \in Commands : tempUserCmd' = [tempUserCmd EXCEPT ![p] = c]
  <2>1. \E c \in Typed[p] :
           tempUserCmd' = [tempUserCmd EXCEPT ![p] = [c EXCEPT !.lines = MessageInput(@)]]
    BY DEF TypeOneWord, TypeTwoWords
  <2>2. \A c \in Typed[p] : c \in Commands
    BY PeerAssumption
  <2> QED
    BY <2>1, <2>2, LinesKept
<1>6. tempUserCmd' \in [Peers -> Commands]
  BY <1>5 DEF TerminalTypes
<1>7. strtokBy' \in [Peers -> {"network", "terminal"}]
  BY <1>2 DEF TerminalTypes
<1> QED
  BY <1>1, <1>3, <1>4, <1>6, <1>7 DEF TerminalTypes

LEMMA TerminalKeepsTypes ==
    ASSUME TerminalTypes, NEW p \in Peers, TerminalThread(p)
    PROVE  TerminalTypes'
<1>1. CASE TypeOneWord(p) \/ TypeTwoWords(p)
  BY <1>1, TypingKeepsTypes
<1>2. CASE SecondWord(p)
  <2>1. /\ tempUserCmd' \in [Peers -> Commands]
        /\ termPc' \in [Peers -> TermPcs]
    BY <1>2, NoneIsCommand DEF SecondWord, TermGoto, TerminalTypes, TermPcs
  <2> QED
    BY <1>2, <2>1 DEF SecondWord, TerminalTypes, sharedVars
<1>3. CASE LockForCommand(p)
  <2>1. /\ terminalLock' \in [Peers -> BOOLEAN]
        /\ userCmd' \in [Peers -> Commands]
        /\ termPc' \in [Peers -> TermPcs]
    BY <1>3 DEF LockForCommand, TermGoto, TerminalTypes, TermPcs
  <2> QED
    BY <1>3, <2>1 DEF LockForCommand, TerminalTypes
<1>4. CASE StartAppend(p)
  <2>1. LastId(log) \in Int
    BY HeadersType DEF TerminalTypes
  <2>2. msgCount' \in [Peers -> Int] /\ termPc' \in [Peers -> TermPcs]
    BY <1>4, <2>1 DEF StartAppend, TermGoto, TerminalTypes, TermPcs
  <2> QED
    BY <1>4, <2>2 DEF StartAppend, TerminalTypes, sharedVars
<1>5. CASE CheckAppend(p)
  <2>1. termPc' \in [Peers -> TermPcs]
    BY <1>5 DEF CheckAppend, TermGoto, TerminalTypes, TermPcs
  <2> QED
    BY <1>5, <2>1 DEF CheckAppend, TerminalTypes, sharedVars
<1>6. CASE FinishAppend(p)
  <2>1. log' = Appended(log, msgCount[p], userCmd[p].lines)
    BY <1>6 DEF FinishAppend
  <2>2. /\ log \in Seq(Line) /\ msgCount[p] \in Int
        /\ userCmd[p].lines \in Seq(Line)
    BY LinesKept DEF TerminalTypes
  <2>3. log' \in Seq(Line)
    BY <2>1, <2>2, AppendedIs
  <2>4. termPc' \in [Peers -> TermPcs]
    BY <1>6 DEF FinishAppend, TermGoto, TerminalTypes, TermPcs
  <2> QED
    BY <1>6, <2>3, <2>4 DEF FinishAppend, TerminalTypes, sharedVars
<1>7. CASE AnswerCommand(p)
  <2>1. shown' \in [Peers -> Answers] /\ termPc' \in [Peers -> TermPcs]
    BY <1>7, AnswerType DEF AnswerCommand, TermGoto, TerminalTypes, TermPcs
  <2> QED
    BY <1>7, <2>1 DEF AnswerCommand, TerminalTypes, sharedVars
<1>8. CASE UnlockAfterCommand(p)
  <2>1. terminalLock' \in [Peers -> BOOLEAN] /\ termPc' \in [Peers -> TermPcs]
    BY <1>8 DEF UnlockAfterCommand, TermGoto, TerminalTypes, TermPcs
  <2> QED
    BY <1>8, <2>1 DEF UnlockAfterCommand, TerminalTypes
<1> QED
  BY <1>1, <1>2, <1>3, <1>4, <1>5, <1>6, <1>7, <1>8, TerminalThread(p)
     DEF TerminalThread

LEMMA StepKeepsTypes == TerminalTypes /\ [Next]_vars => TerminalTypes'
<1> SUFFICES ASSUME TerminalTypes, [Next]_vars PROVE TerminalTypes'
  OBVIOUS
<1>1. CASE UNCHANGED peerVars
  BY <1>1 DEF TerminalTypes, peerVars, networkVars, terminalVars, sharedVars
<1>2. ASSUME NEW p \in Peers, NetworkStep(p) PROVE TerminalTypes'
  BY <1>2, NetworkKeepsTypes DEF NetworkStep
<1>3. ASSUME NEW p \in Peers, TerminalStep(p) PROVE TerminalTypes'
  BY <1>3, TerminalKeepsTypes DEF TerminalStep
<1> QED
  BY <1>1, <1>2, <1>3 DEF Next, ServerStep, vars

\* Whoever calls in, whatever is typed and wherever the token is, all of the
\* state is what it looks like: no peer takes more than three datagrams for its
\* set-up (bbpeer.c:71-93), and the file is lines and tags (msgparser.c:196-269).
THEOREM RingIsTyped == Spec => []TypeOK
<1>1. Spec => [](TokenInv /\ TerminalTypes)
  BY InitialState, StepKeeps, InitialTypes, StepKeepsTypes, PTL DEF Spec
<1> QED
  BY <1>1, TypesImplied, PTL

(***************************************************************************)
(* The bulletin board, for one user who writes and messages that have no   *)
(* line the scan would take for a header.                                  *)
(***************************************************************************)

\* BoardInv but for the types.
CommandsTyped ==
    \A p \in Peers : TypedBy(p, userCmd[p]) /\ TypedBy(p, tempUserCmd[p])

FileInOrder == Whole(log) /\ Numbered(log)

CountKept ==
    \A p \in Peers :
       termPc[p] \in {"check", "append"} =>
          userCmd[p].op = "WRITE" /\ msgCount[p] = LastId(log)

LEMMA BoardParts == BoardInv <=> TypeOK /\ CommandsTyped /\ FileInOrder /\ CountKept
  BY DEF BoardInv, CommandsTyped, FileInOrder, CountKept

\* An empty file has no headers.
LEMMA NoHeaders == Headers(<< >>) = << >>
<1>1. << >> \in Seq(Line) /\ Len(<< >>) = 0
  OBVIOUS
<1>2. PICK from : Scan(<< >>, from) /\ Headers(<< >>) = from[1]
  BY <1>1, HeadersIs
<1>3. from[1] = ScanFrom(<< >>, from, 1)
  BY <1>1, <1>2 DEF Scan
<1>4. ScanFrom(<< >>, from, 1) = << >>
  BY <1>1 DEF ScanFrom
<1> QED
  BY <1>2, <1>3, <1>4

\* In a numbered file the last number is how many messages there are.
LEMMA LastNumber ==
    ASSUME NEW f \in Seq(Line), Numbered(f)
    PROVE  LastId(f) = Len(Headers(f)) /\ LastId(f) \in Nat
<1>1. Headers(f) \in Seq(Headings(f))
  BY HeadersType
<1>2. DOMAIN Headers(f) = 1..Len(Headers(f)) /\ Len(Headers(f)) \in Nat
  BY <1>1, LenProperties
<1>3. CASE Headers(f) = << >>
  BY <1>3 DEF LastId, FIRST_MESSAGE_INDEX
<1>4. CASE Headers(f) # << >>
  <2>1. Len(Headers(f)) # 0
    BY <1>1, <1>4, EmptySeq
  <2>2. Len(Headers(f)) \in DOMAIN Headers(f)
    BY <1>2, <2>1
  <2> QED
    BY <1>2, <1>4, <2>2 DEF LastId, Numbered
<1> QED
  BY <1>3, <1>4

\* A message appended with the next number leaves the file in order.
LEMMA NextNumber ==
    ASSUME NEW f \in Seq(Line), Whole(f), Numbered(f),
           NEW body \in Seq(Line), Clean(body)
    PROVE  /\ Whole(Appended(f, LastId(f), body))
           /\ Numbered(Appended(f, LastId(f), body))
           /\ Entries(Appended(f, LastId(f), body)) =
                 Append(Entries(f), [id |-> Len(Entries(f)) + 1, body |-> body])
<1> DEFINE n == Len(Headers(f))
           g == Appended(f, LastId(f), body)
           h == [id |-> LastId(f) + 1, body |-> Len(f) + 2]
<1>1. LastId(f) = n /\ LastId(f) \in Int
  BY LastNumber
<1>2. Whole(g) /\ Headers(g) = Append(Headers(f), h)
  BY <1>1, AppendedHeaders
<1>3. Headers(f) \in Seq(Headings(f))
  BY HeadersType
<1>4. n \in Nat /\ DOMAIN Headers(f) = 1..n
  BY <1>3, LenProperties
<1>5. /\ DOMAIN Headers(g) = 1..(n + 1) /\ Headers(g)[n + 1] = h
      /\ \A k \in 1..n : Headers(g)[k] = Headers(f)[k]
  <2>1. Headers(f) \in Seq(Headings(f) \cup {h}) /\ h \in Headings(f) \cup {h}
    <3>1. \A k \in 1..n : Headers(f)[k] \in Headings(f) \cup {h}
      BY <1>3, <1>4, ElementOfSeq
    <3> QED
      BY <1>3, <1>4, <3>1, IsASeq
  <2> QED
    BY <1>2, <2>1, AppendProperties
<1>6. Numbered(g)
  <2> SUFFICES ASSUME NEW k \in 1..(n + 1) PROVE Headers(g)[k].id = k
    BY <1>5 DEF Numbered
  <2>1. CASE k = n + 1
    BY <1>1, <1>5, <2>1
  <2>2. CASE k \in 1..n
    BY <1>4, <1>5, <2>2 DEF Numbered
  <2> QED
    BY <1>4, <2>1, <2>2
<1>7. Entries(g) = Append(Entries(f), [id |-> LastId(f) + 1, body |-> body])
  BY <1>1, AppendedEntries
<1>8. Len(Entries(f)) = n
  BY EntriesType
<1> QED
  BY <1>1, <1>2, <1>6, <1>7, <1>8

LEMMA InitialBoard == Init => CommandsTyped /\ FileInOrder /\ CountKept
<1> SUFFICES ASSUME Init PROVE CommandsTyped /\ FileInOrder /\ CountKept
  OBVIOUS
<1>1. CommandsTyped /\ CountKept
  BY DEF Init, PeerInit, CommandsTyped, CountKept, TypedBy, NONE, Command
<1>2. FileInOrder
  <2>1. log = << >>
    BY DEF Init, PeerInit
  <2>2. DOMAIN Headers(log) = {}
    BY <2>1, NoHeaders
  <2> QED
    BY <2>1, <2>2 DEF FileInOrder, Whole, Numbered
<1> QED
  BY <1>1, <1>2

\* A command of a user who writes: nobody else writes, and the text has no line
\* the scan would take for a header.
LEMMA WriterAlone ==
    ASSUME OneWriter, CommandsTyped, NEW p \in Peers, NEW q \in Peers,
           userCmd[p].op = "WRITE", userCmd[q].op = "WRITE"
    PROVE  p = q
<1>1. PICK c \in Typed[p] : c.op = "WRITE"
  BY DEF CommandsTyped, TypedBy
<1>2. PICK d \in Typed[q] : d.op = "WRITE"
  BY DEF CommandsTyped, TypedBy
<1> QED
  BY <1>1, <1>2 DEF OneWriter

LEMMA TextIsClean ==
    ASSUME CleanInput, CommandsTyped, NEW p \in Peers, userCmd[p].op = "WRITE"
    PROVE  /\ Clean(userCmd[p].lines)
           /\ \E q \in Peers : \E c \in Typed[q] : userCmd[p].lines = MessageInput(c.lines)
<1>1. PICK t \in Typed[p] : userCmd[p].lines = MessageInput(t.lines)
  BY DEF CommandsTyped, TypedBy
<1> QED
  BY <1>1 DEF CleanInput

\* The commands stay what was typed.
LEMMA CommandsKept ==
    ASSUME TypeOK, CommandsTyped, NEW p \in Peers, TerminalThread(p)
    PROVE  CommandsTyped'
<1> SUFFICES ASSUME NEW q \in Peers
             PROVE  TypedBy(q, userCmd'[q]) /\ TypedBy(q, tempUserCmd'[q])
  BY DEF CommandsTyped, TypedBy
<1>1. /\ userCmd \in [Peers -> Commands] /\ tempUserCmd \in [Peers -> Commands]
      /\ TypedBy(q, userCmd[q]) /\ TypedBy(q, tempUserCmd[q])
      /\ \A t \in Typed[p] : t \in Commands
  BY PeerAssumption DEF TypeOK, PeerTypeOK, CommandsTyped
<1>2. CASE TypeOneWord(p) \/ TypeTwoWords(p)
  <2>1. PICK c \in Typed[p] :
           tempUserCmd' = [tempUserCmd EXCEPT ![p] =
                              [c EXCEPT !.lines = MessageInput(@)]]
    BY <1>2 DEF TypeOneWord, TypeTwoWords
  <2> DEFINE d == [c EXCEPT !.lines = MessageInput(@)]
  <2>2. d.op = c.op /\ d.id = c.id /\ d.lines = MessageInput(c.lines)
    BY <1>1, <2>1, LinesKept
  <2>3. userCmd' = userCmd /\ tempUserCmd' = [tempUserCmd EXCEPT ![p] = d]
    BY <1>2, <2>1 DEF TypeOneWord, TypeTwoWords
  <2> HIDE DEF d
  <2>4. TypedBy(p, d)
    BY <2>1, <2>2 DEF TypedBy
  <2> QED
    BY <1>1, <2>3, <2>4
<1>3. CASE SecondWord(p)
  <2>1. /\ userCmd' = userCmd
        /\ tempUserCmd' = tempUserCmd \/ tempUserCmd' = [tempUserCmd EXCEPT ![p] = NONE]
    BY <1>3 DEF SecondWord, sharedVars
  <2>2. TypedBy(p, NONE)
    BY DEF TypedBy, NONE, Command
  <2> QED
    BY <1>1, <2>1, <2>2
<1>4. CASE LockForCommand(p)
  <2>1. /\ tempUserCmd' = tempUserCmd
        /\ userCmd' = [userCmd EXCEPT ![p] = tempUserCmd[p]]
    BY <1>4 DEF LockForCommand
  <2> QED
    BY <1>1, <2>1
<1>5. CASE UNCHANGED <<userCmd, tempUserCmd>>
  BY <1>1, <1>5
<1> QED
  BY <1>2, <1>3, <1>4, <1>5, TerminalThread(p)
     DEF TerminalThread, StartAppend, CheckAppend, FinishAppend, AnswerCommand,
         UnlockAfterCommand, sharedVars

\* A thread that is about to write has the last number of the file, because
\* nobody else writes.
LEMMA CountsKept ==
    ASSUME OneWriter, TypeOK, CommandsTyped, CountKept, NEW p \in Peers,
           TerminalThread(p)
    PROVE  CountKept'
<1> SUFFICES ASSUME NEW q \in Peers, termPc'[q] \in {"check", "append"}
             PROVE  userCmd'[q].op = "WRITE" /\ msgCount'[q] = LastId(log')
  BY DEF CountKept, LastId
<1>1. /\ termPc \in [Peers -> TermPcs] /\ userCmd \in [Peers -> Commands]
      /\ msgCount \in [Peers -> Int]
      /\ termPc[q] \in {"check", "append"} =>
            userCmd[q].op = "WRITE" /\ msgCount[q] = LastId(log)
  BY DEF TypeOK, PeerTypeOK, CountKept
<1>2. CASE StartAppend(p)
  <2>1. /\ userCmd[p].op = "WRITE" /\ UNCHANGED <<userCmd, log>>
        /\ msgCount' = [msgCount EXCEPT ![p] = LastId(log)]
        /\ termPc' = [termPc EXCEPT ![p] = "check"]
    BY <1>2 DEF StartAppend, TermGoto, sharedVars
  <2> QED
    BY <1>1, <2>1
<1>3. CASE CheckAppend(p)
  <2>1. /\ termPc[p] = "check" /\ UNCHANGED <<userCmd, msgCount, log>>
        /\ \A r \in Peers : r # p => termPc'[r] = termPc[r]
    BY <1>1, <1>3 DEF CheckAppend, TermGoto, sharedVars
  <2> QED
    BY <1>1, <2>1
<1>4. CASE FinishAppend(p)
  <2>1. /\ termPc[p] = "append" /\ termPc' = [termPc EXCEPT ![p] = "unlock"]
    BY <1>4 DEF FinishAppend, TermGoto
  <2>2. q # p /\ termPc[q] \in {"check", "append"}
    BY <1>1, <2>1
  <2>3. userCmd[p].op = "WRITE" /\ userCmd[q].op = "WRITE"
    BY <1>1, <2>1, <2>2 DEF CountKept
  <2> QED
    BY <2>2, <2>3, WriterAlone
<1>5. CASE LockForCommand(p)
  <2>1. /\ termPc' = [termPc EXCEPT ![p] = "handle"]
        /\ userCmd' = [userCmd EXCEPT ![p] = tempUserCmd[p]]
        /\ UNCHANGED <<msgCount, log>>
    BY <1>5 DEF LockForCommand, TermGoto
  <2> QED
    BY <1>1, <2>1
<1>6. CASE /\ UNCHANGED <<userCmd, msgCount, log>>
           /\ \E to \in {"lock", "secondWord", "unlock", "gone", "prompt"} :
                 termPc' = [termPc EXCEPT ![p] = to]
  BY <1>1, <1>6
<1> QED
  BY <1>2, <1>3, <1>4, <1>5, <1>6, TerminalThread(p)
     DEF TerminalThread, TypeOneWord, TypeTwoWords, SecondWord, AnswerCommand,
         UnlockAfterCommand, TermGoto, sharedVars

LEMMA FileKept ==
    ASSUME CleanInput, TypeOK, CommandsTyped, FileInOrder, CountKept,
           NEW p \in Peers, TerminalThread(p)
    PROVE  FileInOrder'
<1>1. CASE FinishAppend(p)
  <2>1. /\ termPc[p] = "append"
        /\ log' = Appended(log, msgCount[p], userCmd[p].lines)
    BY <1>1 DEF FinishAppend, TermGoto
  <2>2. userCmd[p].op = "WRITE" /\ msgCount[p] = LastId(log)
    BY <2>1 DEF CountKept
  <2>3. log \in Seq(Line) /\ userCmd[p].lines \in Seq(Line)
    BY LinesKept DEF TypeOK, PeerTypeOK
  <2>4. Clean(userCmd[p].lines)
    BY <2>2, TextIsClean
  <2>5. Whole(log') /\ Numbered(log')
    BY <2>1, <2>2, <2>3, <2>4, NextNumber DEF FileInOrder
  <2> QED
    BY <2>5 DEF FileInOrder
<1>2. CASE log' = log
  BY <1>2 DEF FileInOrder
<1> QED
  BY <1>1, <1>2, TerminalThread(p)
     DEF TerminalThread, TypeOneWord, TypeTwoWords, SecondWord, LockForCommand,
         StartAppend, CheckAppend, AnswerCommand, UnlockAfterCommand

LEMMA StepKeepsBoard ==
    ASSUME OneWriter, CleanInput, BoardInv, TypeOK', [Next]_vars
    PROVE  BoardInv'
<1>1. TypeOK /\ CommandsTyped /\ FileInOrder /\ CountKept
  BY BoardParts
<1>2. CASE UNCHANGED <<userCmd, tempUserCmd, termPc, msgCount, log>>
  BY <1>2 DEF BoardInv, TypedBy
<1>3. ASSUME NEW p \in Peers, NetworkThread(p) PROVE BoardInv'
  <2>1. /\ UNCHANGED <<userCmd, tempUserCmd, msgCount, log>>
        /\ termPc' = termPc \/ termPc' = [termPc EXCEPT ![p] = "prompt"]
    BY <1>3 DEF NetworkThread, Contact, ReceiveSetup, Pair, PairFails, LockTerminal,
                ReceiveToken, PassToken, Leave, UnlockTerminal, terminalVars, sharedVars
  <2>2. termPc \in [Peers -> TermPcs]
    BY <1>1 DEF TypeOK, PeerTypeOK
  <2>3. \A q \in Peers : termPc'[q] \in {"check", "append"} => termPc'[q] = termPc[q]
    BY <2>1, <2>2
  <2> QED
    BY <2>1, <2>3 DEF BoardInv, TypedBy
<1>4. ASSUME NEW p \in Peers, TerminalThread(p) PROVE BoardInv'
  <2>1. CommandsTyped' /\ FileInOrder' /\ CountKept'
    BY <1>1, <1>4, CommandsKept, FileKept, CountsKept
  <2> QED
    BY <2>1 DEF BoardInv, CommandsTyped, FileInOrder, CountKept
<1> QED
  BY <1>2, <1>3, <1>4
     DEF Next, ServerStep, NetworkStep, TerminalStep, vars, peerVars, networkVars,
         terminalVars, sharedVars

-----------------------------------------------------------------------------

\* What the board's reader sees of a file in order.
LEMMA EntriesInOrder ==
    ASSUME NEW f \in Seq(Line), Numbered(f)
    PROVE  /\ Len(Entries(f)) = LastId(f) /\ LastId(f) \in Nat
           /\ DOMAIN Entries(f) = 1..LastId(f)
           /\ \A k \in 1..LastId(f) :
                 /\ Headers(f)[k].id = k
                 /\ Entries(f)[k].body = BodyAt(f, Headers(f)[k].body)
<1>1. LastId(f) = Len(Headers(f)) /\ LastId(f) \in Nat
  BY LastNumber
<1>2. Entries(f) \in Seq(Entry) /\ Len(Entries(f)) = Len(Headers(f))
  BY EntriesType
<1>3. DOMAIN Entries(f) = 1..LastId(f)
  BY <1>1, <1>2, LenProperties
<1>4. DOMAIN Headers(f) = 1..LastId(f)
  <2>1. Headers(f) \in Seq(Headings(f))
    BY HeadersType
  <2> QED
    BY <1>1, <2>1, LenProperties
<1>5. ASSUME NEW k \in 1..LastId(f)
      PROVE  Entries(f)[k].body = BodyAt(f, Headers(f)[k].body)
  <2>1. k \in 1..Len(Headers(f))
    BY <1>1
  <2>2. Entries(f)[k] = [id |-> Headers(f)[k].id, body |-> BodyAt(f, Headers(f)[k].body)]
    BY <2>1, EntriesType
  <2> QED
    BY <2>2
<1> QED
  BY <1>1, <1>2, <1>3, <1>4, <1>5 DEF Numbered

\* Every number asked for is answered as the board does.
LEMMA ReadIsRight ==
    ASSUME NEW f \in Seq(Line), Numbered(f), NEW id \in Int
    PROVE  MessageByID(f, id) =
              IF id \in DOMAIN Entries(f)
              THEN [kind |-> "message", count |-> id, body |-> Entries(f)[id].body]
              ELSE [kind |-> "missing", count |-> id, body |-> << >>]
<1>1. /\ LastId(f) \in Nat /\ DOMAIN Entries(f) = 1..LastId(f)
      /\ \A k \in 1..LastId(f) :
            /\ Headers(f)[k].id = k
            /\ Entries(f)[k].body = BodyAt(f, Headers(f)[k].body)
  BY EntriesInOrder
<1>2. DOMAIN Headers(f) = 1..LastId(f)
  <2>1. LastId(f) = Len(Headers(f))
    BY LastNumber
  <2> QED
    BY <2>1, HeadersType, LenProperties
<1>3. Found(f, id) = {k \in 1..LastId(f) : k = id}
  BY <1>1, <1>2 DEF Found
<1>4. CASE id \in 1..LastId(f)
  <2>1. Found(f, id) # {} /\ \A k \in Found(f, id) : k = id
    BY <1>3, <1>4
  <2>2. Min(Found(f, id)) = id
    BY <2>1, FoundType
  <2> QED
    BY <1>1, <1>4, <2>1, <2>2 DEF MessageByID
<1>5. CASE id \notin 1..LastId(f)
  <2>1. Found(f, id) = {}
    BY <1>3, <1>5
  <2> QED
    BY <1>1, <1>5, <2>1 DEF MessageByID
<1> QED
  BY <1>4, <1>5

LEMMA BoardStarts == Init => Board!Init
<1> SUFFICES ASSUME Init PROVE Board!Init
  OBVIOUS
<1>1. log = << >> /\ << >> \in Seq(Line)
  BY DEF Init, PeerInit
<1>2. Entries(log) = << >>
  <2>1. DOMAIN Headers(log) = {} /\ Len(Headers(log)) = 0
    BY <1>1, NoHeaders
  <2>2. Entries(log) \in Seq(Entry) /\ Len(Entries(log)) = 0
    BY <1>1, <2>1, EntriesType
  <2> QED
    BY <2>2, EmptySeq
<1> QED
  BY <1>2 DEF Init, PeerInit, Board!Init

\* The second half of appendMsg is when the message is posted.
LEMMA AppendIsPost ==
    ASSUME CleanInput, BoardInv, NEW p \in Peers, FinishAppend(p)
    PROVE  Board!Post
<1>1. /\ log' = Appended(log, msgCount[p], userCmd[p].lines) /\ shown' = shown
      /\ termPc[p] = "append"
  BY DEF FinishAppend, TermGoto
<1>2. /\ userCmd[p].op = "WRITE" /\ msgCount[p] = LastId(log)
      /\ Whole(log) /\ Numbered(log) /\ TypeOK /\ CommandsTyped
  BY <1>1, BoardParts DEF BoardInv
<1>3. log \in Seq(Line) /\ userCmd[p].lines \in Seq(Line)
  BY <1>2, LinesKept DEF TypeOK, PeerTypeOK
<1>4. /\ Clean(userCmd[p].lines)
      /\ \E q \in Peers : \E c \in Typed[q] : userCmd[p].lines = MessageInput(c.lines)
  BY <1>2, TextIsClean
<1>5. Entries(log') =
         Append(Entries(log), [id |-> Len(Entries(log)) + 1, body |-> userCmd[p].lines])
  BY <1>1, <1>2, <1>3, <1>4, NextNumber
<1>6. userCmd[p].lines \in UNION {{MessageInput(c.lines) : c \in Typed[q]} : q \in Peers}
  BY <1>4
<1> QED
  BY <1>1, <1>5, <1>6 DEF Board!Post

\* A READ shows the message with the number, a LIST the range of the numbers,
\* and no other command shows anything.
LEMMA AnswerIsBoards ==
    ASSUME BoardInv, NEW p \in Peers, AnswerCommand(p)
    PROVE  Board!Read(p) \/ Board!List(p) \/ UNCHANGED Board!vars
<1>1. /\ shown' = [shown EXCEPT ![p] = Answer(p)] /\ log' = log
  BY DEF AnswerCommand
<1>2. /\ log \in Seq(Line) /\ userCmd[p] \in Commands /\ Numbered(log)
      /\ shown \in [Peers -> Answers] /\ TypedBy(p, userCmd[p])
  BY DEF BoardInv, TypeOK, PeerTypeOK
<1>3. Entries(log') = Entries(log)
  BY <1>1
<1>4. CASE userCmd[p].op = "READ"
  <2> DEFINE id == userCmd[p].id
  <2>1. id \in Int
    BY <1>2, LinesKept
  <2>2. id \in UNION {{c.id : c \in Typed[q]} : q \in Peers}
    BY <1>2, <1>4 DEF TypedBy
  <2>3. Answer(p) = MessageByID(log, id)
    BY <1>4 DEF Answer
  <2>4. Answer(p) = Board!Message(id)
    BY <1>2, <2>1, <2>3, ReadIsRight DEF Board!Message
  <2> QED
    BY <1>1, <1>3, <2>2, <2>4 DEF Board!Read
<1>5. CASE userCmd[p].op = "LIST" /\ LastId(log) # FIRST_MESSAGE_INDEX - 1
  <2>1. Answer(p) = [kind |-> "range", count |-> LastId(log), body |-> << >>]
    BY <1>5 DEF Answer
  <2>2. Len(Entries(log)) = LastId(log) /\ LastId(log) # 0
    BY <1>2, <1>5, EntriesInOrder DEF FIRST_MESSAGE_INDEX
  <2>3. Entries(log) # << >>
    BY <2>2
  <2> QED
    BY <1>1, <1>3, <2>1, <2>2, <2>3 DEF Board!List
<1>6. CASE /\ userCmd[p].op # "READ"
           /\ ~ (userCmd[p].op = "LIST" /\ LastId(log) # FIRST_MESSAGE_INDEX - 1)
  <2>1. Answer(p) = shown[p]
    BY <1>6 DEF Answer
  <2>2. shown' = shown
    BY <1>1, <1>2, <2>1
  <2> QED
    BY <1>3, <2>2 DEF Board!vars
<1> QED
  BY <1>4, <1>5, <1>6

LEMMA StepsAreBoards ==
    ASSUME CleanInput, BoardInv, [Next]_vars
    PROVE  [Board!Next]_(Board!vars)
<1>1. CASE UNCHANGED <<log, shown>>
  BY <1>1 DEF Board!vars
<1>2. ASSUME NEW p \in Peers, NetworkThread(p)
      PROVE  UNCHANGED <<log, shown>>
  BY <1>2 DEF NetworkThread, Contact, ReceiveSetup, Pair, PairFails, LockTerminal,
              ReceiveToken, PassToken, Leave, UnlockTerminal, terminalVars
<1>3. ASSUME NEW p \in Peers, TerminalThread(p)
      PROVE  [Board!Next]_(Board!vars)
  <2>1. CASE FinishAppend(p)
    BY <2>1, AppendIsPost DEF Board!Next
  <2>2. CASE AnswerCommand(p)
    BY <2>2, AnswerIsBoards DEF Board!Next
  <2>3. CASE UNCHANGED <<log, shown>>
    BY <1>1, <2>3
  <2> QED
    BY <1>3, <2>1, <2>2, <2>3
       DEF TerminalThread, TypeOneWord, TypeTwoWords, SecondWord, LockForCommand,
           StartAppend, CheckAppend, UnlockAfterCommand
<1> QED
  BY <1>1, <1>2, <1>3
     DEF Next, ServerStep, NetworkStep, TerminalStep, vars, peerVars, networkVars,
         terminalVars

\* If one user writes, and no line typed would be taken for a header by the scan
\* of searchLogByID, then the board is what its users are promised (msgparser.h:9,
\* terminal.c:296-318): each message is found under the next number, and read as
\* it was typed, however the threads of the peers interleave.
THEOREM BoardImplemented ==
    ASSUME OneWriter, CleanInput
    PROVE  Spec => ImplementsBoard
<1>1. Init => BoardInv
  <2>1. Init => TypeOK
    BY InitialState, InitialTypes, TypesImplied
  <2> QED
    BY <2>1, InitialBoard, BoardParts
<1>2. BoardInv /\ TypeOK' /\ [Next]_vars => BoardInv'
  BY OneWriter, CleanInput, StepKeepsBoard
<1>3. BoardInv /\ [Next]_vars => [Board!Next]_(Board!vars)
  BY CleanInput, StepsAreBoards
<1>4. Spec => []BoardInv
  BY <1>1, <1>2, RingIsTyped, PTL DEF Spec
<1> QED
  BY <1>3, <1>4, BoardStarts, PTL DEF Spec, ImplementsBoard, Board!Spec

==============================================================================
