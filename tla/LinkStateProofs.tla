--------------------------- MODULE LinkStateProofs ---------------------------
(***************************************************************************)
(* However many routers there are, whatever their files say and whatever   *)
(* is lost: they never hear each other in a circle, what they hear is what *)
(* the sender's file says, the sender they print is the one that sent, and *)
(* what they do is what LinkStateExchange promises.  HearingInv is         *)
(* inductive, and so is ExchangeInv.  And the shortest paths PathTrials    *)
(* tries are right, whatever the weights.                                  *)
(***************************************************************************)
EXTENDS LinkStateInvariant, PathTrials, OrderedProofs

\* A sequence is one over the set of its own elements.
LEMMA OwnRange ==
    ASSUME NEW S, NEW s \in Seq(S)
    PROVE  IsSequence(s)
BY DEF IsSequence

\* Appending to a sequence of one's own elements gives such a sequence again.
LEMMA AppendIsSequence ==
    ASSUME NEW s, IsSequence(s), NEW e
    PROVE  /\ IsSequence(Append(s, e))
           /\ \A k \in DOMAIN Append(s, e) :
                 Append(s, e)[k] = e \/ (k \in DOMAIN s /\ Append(s, e)[k] = s[k])
<1> DEFINE S == {s[k] : k \in DOMAIN s} \cup {e}
<1>1. s \in Seq(S)
  BY DEF IsSequence
<1>2. Append(s, e) \in Seq(S)
  BY <1>1
<1>3. \A k \in DOMAIN Append(s, e) :
         Append(s, e)[k] = e \/ (k \in DOMAIN s /\ Append(s, e)[k] = s[k])
  BY <1>1
<1> QED
  BY <1>2, <1>3, OwnRange

\* So does taking the first element away.
LEMMA TailIsSequence ==
    ASSUME NEW s, IsSequence(s), s # << >>
    PROVE  /\ IsSequence(Tail(s))
           /\ 1 \in DOMAIN s /\ Head(s) = s[1]
           /\ \A k \in DOMAIN Tail(s) : k + 1 \in DOMAIN s /\ Tail(s)[k] = s[k + 1]
<1> DEFINE S == {s[k] : k \in DOMAIN s}
<1>1. s \in Seq(S)
  BY DEF IsSequence
<1>2. Tail(s) \in Seq(S)
  BY <1>1
<1>3. /\ 1 \in DOMAIN s /\ Head(s) = s[1]
      /\ \A k \in DOMAIN Tail(s) : k + 1 \in DOMAIN s /\ Tail(s)[k] = s[k + 1]
  BY <1>1
<1> QED
  BY <1>2, <1>3, OwnRange

LEMMA InitHearing == Init => HearingInv
<1> SUFFICES ASSUME Init PROVE HearingInv
  OBVIOUS
<1>1. IsSequence(<< >>)
  BY DEF IsSequence
<1>2. NoCircularHearing
  BY DEF Init, NoCircularHearing
<1> QED
  BY <1>1, <1>2 DEF Init, HearingInv

\* The steps that hear nobody and send nothing, and of which none leads back:
\* a router that was past listening stays so.
LEMMA QuietStep ==
    ASSUME HearingInv,
           UNCHANGED <<inbox, rcvPkt>>,
           DOMAIN pc' = Routers, DOMAIN ownPkt' = Routers,
           \A n \in Routers : PastListening(n) => PastListening(n)',
           \A n \in Routers : pc'[n] \in {"bind", "listen", "flood"} =>
              ownPkt'[n].sourceLabel = n
    PROVE  HearingInv'
<1>1. inbox' = inbox /\ rcvPkt' = rcvPkt
  OBVIOUS
<1>2. NoCircularHearing'
  BY <1>1 DEF HearingInv, NoCircularHearing, Heard
<1>3. ASSUME NEW n \in Routers
      PROVE  /\ IsSequence(inbox'[n])
             /\ \A k \in DOMAIN inbox'[n] :
                   /\ inbox'[n][k].pkt.sourceLabel \in Routers
                   /\ PastListening(inbox[n][k].pkt.sourceLabel)'
  BY <1>1 DEF HearingInv
<1>4. ASSUME NEW n \in Routers, rcvPkt'[n] # NULL
      PROVE  PastListening(n)' /\ Heard(n)' \in Routers /\ PastListening(Heard(n))'
  BY <1>1, <1>4 DEF HearingInv, Heard
<1> QED
  BY <1>1, <1>2, <1>3, <1>4 DEF HearingInv

\* A router hears the sender of the first datagram in its socket.  Nobody has
\* heard the router itself, for it was not past listening.
LEMMA ReceiveStep ==
    ASSUME HearingInv, NEW n \in Routers, ListenReceive(n)
    PROVE  HearingInv'
<1> DEFINE m == Head(inbox[n]).pkt.sourceLabel
<1>1. /\ IsSequence(inbox[n]) /\ inbox[n] # << >>
      /\ pc' = [pc EXCEPT ![n] = "flood"]
      /\ rcvPkt' = [rcvPkt EXCEPT ![n] = Head(inbox[n]).pkt]
      /\ inbox' = [inbox EXCEPT ![n] = Tail(@)]
      /\ ownPkt' = ownPkt /\ pc[n] = "listen"
  BY DEF HearingInv, ListenReceive, Goto
<1>2. /\ IsSequence(Tail(inbox[n]))
      /\ 1 \in DOMAIN inbox[n] /\ Head(inbox[n]) = inbox[n][1]
      /\ \A k \in DOMAIN Tail(inbox[n]) :
            k + 1 \in DOMAIN inbox[n] /\ Tail(inbox[n])[k] = inbox[n][k + 1]
  BY <1>1, TailIsSequence
<1>3. m \in Routers /\ PastListening(m)
  BY <1>2 DEF HearingInv
<1>4. m # n
  BY <1>1, <1>3 DEF PastListening
<1>5. \A r \in Routers : PastListening(r) => PastListening(r)'
  BY <1>1 DEF HearingInv, PastListening
<1>6. /\ rcvPkt'[n] = Head(inbox[n]).pkt
      /\ \A r \in Routers \ {n} : rcvPkt'[r] = rcvPkt[r]
  BY <1>1 DEF HearingInv
<1>7. PastListening(n)'
  BY <1>1 DEF HearingInv, PastListening
<1>8. NoCircularHearing'
  <2> SUFFICES ASSUME NEW S \in (SUBSET Routers) \ {{}}
               PROVE  \E r \in S : rcvPkt'[r] = NULL \/ Heard(r)' \notin S
    BY DEF NoCircularHearing
  <2>1. CASE S = {n}
    BY <2>1, <1>4, <1>6 DEF Heard
  <2>2. CASE S # {n}
    <3>1. S \ {n} \in (SUBSET Routers) \ {{}}
      BY <2>2
    <3>2. PICK r \in S \ {n} : rcvPkt[r] = NULL \/ Heard(r) \notin S \ {n}
      BY <3>1 DEF HearingInv, NoCircularHearing
    <3>3. rcvPkt[r] # NULL => Heard(r) # n
      BY <1>1, <3>2 DEF HearingInv, PastListening
    <3> QED
      BY <3>2, <3>3, <1>6 DEF Heard
  <2> QED
    BY <2>1, <2>2
<1>9. \A r \in Routers :
        /\ IsSequence(inbox[r])'
        /\ \A k \in DOMAIN inbox'[r] :
              /\ inbox'[r][k].pkt.sourceLabel \in Routers
              /\ PastListening(inbox[r][k].pkt.sourceLabel)'
  <2> SUFFICES ASSUME NEW r \in Routers
               PROVE  /\ IsSequence(inbox[r])'
                      /\ \A k \in DOMAIN inbox'[r] :
                            /\ inbox'[r][k].pkt.sourceLabel \in Routers
                            /\ PastListening(inbox[r][k].pkt.sourceLabel)'
    OBVIOUS
  <2>1. CASE r = n
    <3>1. inbox'[r] = Tail(inbox[n])
      BY <2>1, <1>1 DEF HearingInv
    <3> QED
      <4>1. IsSequence(inbox'[r])
        BY <3>1, <1>2
      <4>2. ASSUME NEW k \in DOMAIN inbox'[r]
            PROVE  /\ inbox'[r][k].pkt.sourceLabel \in Routers
                   /\ PastListening(inbox[r][k].pkt.sourceLabel)'
        <5>1. k + 1 \in DOMAIN inbox[n] /\ inbox'[r][k] = inbox[n][k + 1]
          BY <3>1, <1>2
        <5>2. /\ inbox[n][k + 1].pkt.sourceLabel \in Routers
              /\ PastListening(inbox[n][k + 1].pkt.sourceLabel)
          BY <5>1 DEF HearingInv
        <5> QED
          BY <5>1, <5>2, <1>5
      <4> QED
        BY <4>1, <4>2
  <2>2. CASE r # n
    <3>1. inbox'[r] = inbox[r]
      BY <2>2, <1>1 DEF HearingInv
    <3> QED
      BY <3>1, <1>5 DEF HearingInv
  <2> QED
    BY <2>1, <2>2
<1>10. \A r \in Routers : pc'[r] \in {"bind", "listen", "flood"} =>
          ownPkt'[r].sourceLabel = r
  BY <1>1 DEF HearingInv
<1>11. \A r \in Routers : rcvPkt'[r] # NULL =>
          PastListening(r)' /\ Heard(r)' \in Routers /\ PastListening(Heard(r))'
  BY <1>3, <1>5, <1>6, <1>7 DEF HearingInv, Heard
<1> QED
  BY <1>1, <1>8, <1>9, <1>10, <1>11 DEF HearingInv

\* A datagram carries the packet of a router that is flooding.
LEMMA SendStep ==
    ASSUME HearingInv, NEW n \in Routers, FloodSend(n)
    PROVE  HearingInv'
<1> DEFINE to == addr[n][FirstOf(ToTell(n))]
           d  == [from |-> n, pkt |-> ownPkt[n]]
<1>1. /\ pc' = pc /\ rcvPkt' = rcvPkt /\ ownPkt' = ownPkt /\ pc[n] = "flood"
      /\ \/ inbox' = [inbox EXCEPT ![to] = Append(@, d)]
         \/ inbox' = inbox
  BY DEF FloodSend, MayFlood, sendToNeighbor
<1>2. d.pkt.sourceLabel = n /\ PastListening(n)
  BY <1>1 DEF HearingInv, PastListening
<1>3. CASE inbox' = inbox
  BY <1>1, <1>3, QuietStep DEF HearingInv, PastListening
<1>4. CASE inbox' = [inbox EXCEPT ![to] = Append(@, d)]
  <2>1. DOMAIN inbox' = Routers
    BY <1>4 DEF HearingInv
  <2>2. \A r \in Routers :
          /\ IsSequence(inbox'[r])
          /\ \A k \in DOMAIN inbox'[r] :
                inbox'[r][k] = d \/ (k \in DOMAIN inbox[r] /\ inbox'[r][k] = inbox[r][k])
    <3> SUFFICES ASSUME NEW r \in Routers
                 PROVE  /\ IsSequence(inbox'[r])
                        /\ \A k \in DOMAIN inbox'[r] :
                              inbox'[r][k] = d
                              \/ (k \in DOMAIN inbox[r] /\ inbox'[r][k] = inbox[r][k])
      OBVIOUS
    <3>1. IsSequence(inbox[r])
      BY DEF HearingInv
    <3>2. CASE r = to
      <4>1. inbox'[r] = Append(inbox[r], d)
        BY <3>2, <1>4 DEF HearingInv
      <4> QED
        BY <3>1, <4>1, AppendIsSequence
    <3>3. CASE r # to
      <4>1. inbox'[r] = inbox[r]
        BY <3>3, <1>4 DEF HearingInv
      <4> QED
        BY <3>1, <4>1
    <3> QED
      BY <3>2, <3>3
  <2>3. NoCircularHearing'
    BY <1>1 DEF HearingInv, NoCircularHearing, Heard
  <2>4. \A r \in Routers :
          /\ IsSequence(inbox[r])'
          /\ \A k \in DOMAIN inbox'[r] :
                /\ inbox'[r][k].pkt.sourceLabel \in Routers
                /\ PastListening(inbox[r][k].pkt.sourceLabel)'
    <3> SUFFICES ASSUME NEW r \in Routers, NEW k \in DOMAIN inbox'[r]
                 PROVE  /\ inbox'[r][k].pkt.sourceLabel \in Routers
                        /\ PastListening(inbox'[r][k].pkt.sourceLabel)
      BY <1>1, <2>2 DEF PastListening
    <3>1. CASE inbox'[r][k] = d
      BY <3>1, <1>2
    <3>2. CASE k \in DOMAIN inbox[r] /\ inbox'[r][k] = inbox[r][k]
      BY <3>2 DEF HearingInv
    <3> QED
      BY <3>1, <3>2, <2>2
  <2> QED
    BY <1>1, <2>1, <2>3, <2>4 DEF HearingInv, Heard, PastListening
<1> QED
  BY <1>1, <1>3, <1>4

LEMMA StepHearing == HearingInv /\ [Next]_vars => HearingInv'
<1> SUFFICES ASSUME HearingInv, [Next]_vars PROVE HearingInv'
  OBVIOUS
<1>1. ASSUME NEW n \in Routers, confirmArgs(n) PROVE HearingInv'
  BY <1>1, QuietStep DEF confirmArgs, Goto, HearingInv, PastListening
<1>2. ASSUME NEW n \in Routers, parseNeighborFile(n) PROVE HearingInv'
  BY <1>2, QuietStep DEF parseNeighborFile, Goto, HearingInv, PastListening
<1>3. ASSUME NEW n \in Routers, buildLSPacket(n) PROVE HearingInv'
  <2>1. /\ UNCHANGED <<inbox, rcvPkt>>
        /\ pc[n] = "build" /\ pc' = [pc EXCEPT ![n] = "bind"]
        /\ DOMAIN ownPkt' = Routers
        /\ \A r \in Routers \ {n} : ownPkt'[r] = ownPkt[r]
        /\ ownPkt'[n].sourceLabel = n
    BY <1>3 DEF buildLSPacket, Goto, HearingInv
  <2> QED
    BY <2>1, QuietStep DEF HearingInv, PastListening
<1>4. ASSUME NEW n \in Routers, configureHostInfo(n) PROVE HearingInv'
  BY <1>4, QuietStep DEF configureHostInfo, Goto, HearingInv, PastListening
<1>5. ASSUME NEW n \in Routers, listenPacket(n) PROVE HearingInv'
  <2>1. CASE ListenReceive(n)
    BY <2>1, ReceiveStep
  <2>2. CASE ListenTimeout(n)
    BY <2>2, QuietStep DEF ListenTimeout, Goto, HearingInv, PastListening
  <2> QED
    BY <1>5, <2>1, <2>2 DEF listenPacket
<1>6. ASSUME NEW n \in Routers, floodNeighbors(n) PROVE HearingInv'
  <2>1. CASE FloodSend(n)
    BY <2>1, SendStep
  <2>2. CASE FloodReturn(n)
    BY <2>2, QuietStep DEF FloodReturn, Goto, HearingInv, PastListening
  <2> QED
    BY <1>6, <2>1, <2>2 DEF floodNeighbors
<1>7. ASSUME NEW n \in Routers, ListenError(n) PROVE HearingInv'
  BY <1>7, QuietStep DEF ListenError, Goto, HearingInv, PastListening
<1>8. CASE UNCHANGED vars
  BY <1>8, QuietStep DEF vars, HearingInv, PastListening
<1> QED
  BY <1>1, <1>2, <1>3, <1>4, <1>5, <1>6, <1>7, <1>8
     DEF Next, Router, RouterWorks

\* Whatever the files say and however the routers are scheduled, and whatever
\* is lost, no set of routers hears only each other (node.c:61-68).
THEOREM NobodyHearsInACircle == Spec => []NoCircularHearing
<1>1. HearingInv => NoCircularHearing
  BY DEF HearingInv
<1> QED
  BY <1>1, InitHearing, StepHearing, PTL DEF Spec

-----------------------------------------------------------------------------
(***************************************************************************)
(* Tables, files and packets: what the operators of the model give, for    *)
(* every file and every row.                                               *)
(***************************************************************************)

\* The routers are finitely many natural numbers, and NULL is none of them.
LEMMA RouterNumbers ==
    /\ Routers \in SUBSET Nat /\ IsFiniteSet(Routers) /\ NULL \notin Routers
    /\ NumRouters \in Nat /\ INF \in Int /\ NULL \notin Int /\ Garbage \notin Edge
<1>1. NumRouters \in Nat /\ NULL \notin Int /\ INF \in Int /\ Garbage \notin Edge
  BY RoutersAssumption
<1>2. IsFiniteSet(0..(NumRouters - 1))
  BY <1>1, FS_Interval
<1> QED
  BY <1>1, <1>2 DEF Routers

\* The files a router may be started with.
LEMMA FileTypes ==
    ASSUME NEW n \in Routers, NEW s \in StartedWith[n]
    PROVE  s.file # NULL => s.file \in Seq(Line) /\ Len(s.file) <= MAX_EDGES
BY StartAssumption

\* The last of the lines read that name router i.
LEMMA LastLineNames ==
    ASSUME NEW f \in Seq(Line), NEW i, Naming(f, i) # {}
    PROVE  /\ LastOf(Naming(f, i)) \in Naming(f, i)
           /\ \A k \in Naming(f, i) : k <= LastOf(Naming(f, i))
           /\ LastLine(f, i) \in Line
           /\ LastLine(f, i).label = i /\ i \in Routers
           /\ LastLine(f, i).at \in Routers
<1>1. Naming(f, i) \in SUBSET Nat /\ Len(f) \in Nat
  BY DEF Naming, Stored
<1>2. \A k \in Naming(f, i) : k <= Len(f)
  BY DEF Naming, Stored
<1>3. /\ LastOf(Naming(f, i)) \in Naming(f, i)
      /\ \A k \in Naming(f, i) : k <= LastOf(Naming(f, i))
  BY <1>1, <1>2, LastOfGreatest
<1>4. PICK k \in Naming(f, i) : k = LastOf(Naming(f, i))
  BY <1>3
<1>5. k \in DOMAIN f /\ f[k] \in Line /\ f[k].label = i /\ ~Faulty(f[k])
  BY DEF Naming, Stored
<1>6. f[k].at \in Routers /\ i \in Routers
  BY <1>5 DEF Faulty, Line
<1> QED
  BY <1>3, <1>4, <1>5, <1>6 DEF LastLine

LEMMA TableTypes ==
    ASSUME NEW f \in Seq(Line), NEW i \in Routers
    PROVE  WeightIn(f, i) \in Int /\ AtIn(f, i) \in Routers \cup {NULL}
<1>1. CASE Naming(f, i) = {}
  BY <1>1, RouterNumbers DEF WeightIn, AtIn
<1>2. CASE Naming(f, i) # {}
  <2>1. LastLine(f, i) \in Line /\ LastLine(f, i).at \in Routers
    BY <1>2, LastLineNames
  <2>2. LastLine(f, i).weight \in Int
    BY <2>1 DEF Line
  <2> QED
    BY <1>2, <2>1, <2>2 DEF WeightIn, AtIn
<1> QED
  BY <1>1, <1>2

\* What a file without a faulty line says is what the last lines of the routers
\* it names say.
LEMMA SaysLastLines ==
    ASSUME NEW f \in Seq(Line), Clean(f)
    PROVE  /\ \A i \in Routers : Naming(f, i) # {} => LastLine(f, i) \in Says(f)
           /\ \A line \in Says(f) :
                 /\ line \in Line /\ line.label \in Routers
                 /\ Naming(f, line.label) # {} /\ line = LastLine(f, line.label)
<1>1. Stored(f) = DOMAIN f
  <2>1. \A k \in DOMAIN f : \A j \in 1..k : j \in DOMAIN f
    OBVIOUS
  <2> QED
    BY <2>1 DEF Clean, Stored
<1>2. ASSUME NEW i \in Routers, Naming(f, i) # {}
      PROVE  LastLine(f, i) \in Says(f)
  <2>1. PICK k \in Naming(f, i) :
          k = LastOf(Naming(f, i)) /\ \A j \in Naming(f, i) : j <= k
    BY <1>2, LastLineNames
  <2>2. k \in DOMAIN f /\ f[k].label = i
    BY DEF Naming, Stored
  <2>3. ~Overruled(f, k)
    <3> SUFFICES ASSUME NEW j \in DOMAIN f, j > k, f[j].label = f[k].label
                 PROVE  FALSE
      BY DEF Overruled
    <3>1. j \in Naming(f, i)
      BY <1>1, <2>2 DEF Naming
    <3>2. j \in Nat /\ k \in Nat /\ j <= k
      BY <2>1, <2>2, <3>1
    <3> QED
      BY <3>2
  <2> QED
    BY <2>1, <2>2, <2>3 DEF Says, LastLine
<1>3. ASSUME NEW line \in Says(f)
      PROVE  /\ line \in Line /\ line.label \in Routers
             /\ Naming(f, line.label) # {} /\ line = LastLine(f, line.label)
  <2>1. PICK k \in DOMAIN f : line = f[k] /\ ~Overruled(f, k)
    BY DEF Says
  <2>2. f[k] \in Line /\ ~Faulty(f[k])
    BY DEF Clean
  <2>3. k \in Naming(f, line.label)
    BY <1>1, <2>1 DEF Naming
  <2>4. PICK l \in Naming(f, line.label) :
          l = LastOf(Naming(f, line.label)) /\ k <= l
    BY <2>3, LastLineNames
  <2>5. l \in DOMAIN f /\ f[l].label = f[k].label
    BY <2>1 DEF Naming, Stored
  <2>6. k \in Nat /\ l \in Nat /\ ~(l > k)
    BY <2>1, <2>5 DEF Overruled
  <2>7. l = k
    BY <2>4, <2>6
  <2> QED
    BY <2>1, <2>2, <2>3, <2>4, <2>7 DEF Faulty, LastLine
<1> QED
  BY <1>2, <1>3

\* The edges of a row: one for each linked router, in order, and then what
\* nobody wrote.
LEMMA EdgeTypes ==
    ASSUME NEW weight \in Int, NEW i \in Routers
    PROVE  LSEdge(weight, i) \in Edge
<1>1. WORD \in Nat \ {0}
  BY DEF WORD
<1>2. weight % WORD \in 0..(WORD - 1)
  BY <1>1
<1> DEFINE cost == weight % WORD
<1> HIDE DEF cost
<1>3. cost \in Field
  BY <1>2 DEF Field, cost
<1>4. [cost |-> cost, destLabel |-> i] \in Edge
  BY <1>3 DEF Edge
<1> QED
  BY <1>4 DEF LSEdge, cost

Linked(row) == {i \in Routers : row[i] # INF}

LEMMA EdgesOfRow ==
    ASSUME NEW row \in [Routers -> Int], NEW count \in Nat
    PROVE  LET edges == LSEdges(row, count) IN
           /\ edges \in Seq(Edge \cup {Garbage}) /\ Len(edges) = count
           /\ IsFiniteSet(Linked(row)) /\ Cardinality(Linked(row)) \in Nat
           /\ \A k \in 1..count :
                 IF k <= Cardinality(Linked(row))
                 THEN \E i \in Linked(row) : edges[k] = LSEdge(row[i], i)
                 ELSE edges[k] = Garbage
           /\ Cardinality(Linked(row)) <= count =>
                 \A i \in Linked(row) : \E k \in 1..count : edges[k] = LSEdge(row[i], i)
<1> DEFINE edges == LSEdges(row, count)
           to(k) == NthOf(Linked(row), k)
           size == Cardinality(Linked(row))
<1>1. Linked(row) \in SUBSET Nat /\ Linked(row) \subseteq Routers /\ IsFiniteSet(Linked(row))
  BY RouterNumbers, FS_Subset DEF Linked
<1>2. /\ size \in Nat
      /\ \A k \in 1..size : to(k) \in Linked(row)
      /\ \A i \in Linked(row) : \E k \in 1..size : to(k) = i
  BY <1>1, NthOfCounts
<1>3. edges = [k \in 1..count |-> IF k <= size THEN LSEdge(row[to(k)], to(k)) ELSE Garbage]
  BY DEF LSEdges, Linked
<1> HIDE DEF edges, to, size
<1>4. \A i \in Routers : LSEdge(row[i], i) \in Edge
  BY EdgeTypes
<1>5. ASSUME NEW k \in 1..count
      PROVE  /\ IF k <= size THEN \E i \in Linked(row) : edges[k] = LSEdge(row[i], i)
                             ELSE edges[k] = Garbage
             /\ edges[k] \in Edge \cup {Garbage}
  <2>1. CASE k <= size
    <3>1. to(k) \in Linked(row) /\ edges[k] = LSEdge(row[to(k)], to(k))
      BY <2>1, <1>2, <1>3
    <3> QED
      BY <2>1, <3>1, <1>1, <1>4
  <2>2. CASE ~(k <= size)
    BY <2>2, <1>3
  <2> QED
    BY <2>1, <2>2
<1>6. edges \in Seq(Edge \cup {Garbage}) /\ Len(edges) = count
  <2>1. edges \in [1..count -> Edge \cup {Garbage}]
    BY <1>3, <1>5
  <2> QED
    BY <2>1
<1>7. ASSUME size <= count, NEW i \in Linked(row)
      PROVE  \E k \in 1..count : edges[k] = LSEdge(row[i], i)
  <2>1. PICK k \in 1..size : to(k) = i
    BY <1>2
  <2>2. k \in 1..count /\ k <= size
    BY <2>1, <1>2, <1>7
  <2> QED
    BY <2>1, <2>2, <1>3
<1> QED
  BY <1>1, <1>2, <1>5, <1>6, <1>7 DEF edges, size

\* A file names no more routers with a weight than it has lines, and each line
\* is a router's when no router is named twice.
LEMMA LinkedFit ==
    ASSUME NEW f \in Seq(Line), Clean(f), NEW row \in [Routers -> Int],
           \A i \in Routers : row[i] = WeightIn(f, i)
    PROVE  /\ Cardinality(Linked(row)) <= Len(f)
           /\ OneLinePerLink(f) => Cardinality(Linked(row)) = Len(f)
<1> DEFINE lineOf == [i \in Linked(row) |-> LastOf(Naming(f, i))]
           places == 1..Len(f)
<1>1. IsFiniteSet(places) /\ Cardinality(places) = Len(f)
  <2> DEFINE n == Len(f)
  <2>1. n \in Nat
    OBVIOUS
  <2> HIDE DEF n
  <2>2. /\ IsFiniteSet(1..n)
        /\ Cardinality(1..n) = IF 1 > n THEN 0 ELSE n - 1 + 1
    BY <2>1, FS_Interval
  <2>3. Cardinality(1..n) = n
    BY <2>1, <2>2
  <2> QED
    BY <2>2, <2>3 DEF n
<1>2. ASSUME NEW i \in Linked(row)
      PROVE  /\ i \in Routers /\ Naming(f, i) # {} /\ lineOf[i] \in places
             /\ f[lineOf[i]].label = i
  <2>1. i \in Routers /\ Naming(f, i) # {}
    BY DEF Linked, WeightIn
  <2>2. LastOf(Naming(f, i)) \in Naming(f, i)
    BY <2>1, LastLineNames
  <2>3. LastOf(Naming(f, i)) \in DOMAIN f /\ f[LastOf(Naming(f, i))].label = i
    BY <2>2 DEF Naming, Stored
  <2> QED
    BY <2>1, <2>3
<1>3. lineOf \in Injection(Linked(row), places)
  <2>1. lineOf \in [Linked(row) -> places]
    BY <1>2
  <2>2. \A i, j \in Linked(row) : lineOf[i] = lineOf[j] => i = j
    BY <1>2
  <2> HIDE DEF lineOf, places
  <2> QED
    BY <2>1, <2>2, Fun_IsInj
<1>4. /\ Cardinality(Linked(row)) <= Cardinality(places)
      /\ Cardinality(Linked(row)) = Cardinality(places)
            <=> lineOf \in Surjection(Linked(row), places)
  <2> HIDE DEF lineOf, places
  <2> QED
    BY <1>1, <1>3, FS_Injection
<1>5. ASSUME OneLinePerLink(f)
      PROVE  lineOf \in Surjection(Linked(row), places)
  <2>1. ASSUME NEW k \in places PROVE \E i \in Linked(row) : lineOf[i] = k
    <3>1. /\ k \in DOMAIN f /\ f[k] \in Line /\ ~Faulty(f[k])
          /\ ~Overruled(f, k) /\ f[k].weight # INF
      BY <1>5 DEF Clean, OneLinePerLink
    <3>2. f[k] \in Says(f) /\ f[k].label \in Routers
      BY <3>1 DEF Says, Faulty
    <3>3. k \in Naming(f, f[k].label)
      BY <3>1 DEF Naming, Stored, Clean
    <3>4. PICK l \in Naming(f, f[k].label) : l = LastOf(Naming(f, f[k].label)) /\ k <= l
      BY <3>3, LastLineNames
    <3>5. l \in DOMAIN f /\ f[l].label = f[k].label
      BY DEF Naming, Stored
    <3>6. k \in Nat /\ l \in Nat /\ ~(l > k)
      BY <3>1, <3>5 DEF Overruled
    <3>7. l = k
      BY <3>4, <3>6
    <3>8. row[f[k].label] = f[k].weight
      BY <3>2, <3>3, <3>4, <3>7 DEF WeightIn, LastLine
    <3>9. f[k].label \in Linked(row)
      BY <3>1, <3>2, <3>8 DEF Linked
    <3> QED
      BY <3>4, <3>7, <3>9
  <2>2. lineOf \in [Linked(row) -> places]
    BY <1>2
  <2> HIDE DEF lineOf, places
  <2> QED
    BY <2>1, <2>2, Fun_IsSurj
<1> QED
  BY <1>1, <1>4, <1>5

\* So the edges written are those the file says, and if it names every router
\* once and with a weight there are no others.
LEMMA EdgesSay ==
    ASSUME NEW f \in Seq(Line), Clean(f), NEW row \in [Routers -> Int],
           \A i \in Routers : row[i] = WeightIn(f, i)
    PROVE  LET edges == LSEdges(row, Len(f)) IN
           /\ {edges[k] : k \in DOMAIN edges} \ {Garbage} =
                 {LSEdge(line.weight, line.label) : line \in {l \in Says(f) : l.weight # INF}}
           /\ OneLinePerLink(f) => Garbage \notin {edges[k] : k \in DOMAIN edges}
<1> DEFINE edges == LSEdges(row, Len(f))
           count == Len(f)
           said == {l \in Says(f) : l.weight # INF}
<1>1. count \in Nat
  OBVIOUS
<1>2. /\ edges \in Seq(Edge \cup {Garbage}) /\ Len(edges) = count
      /\ Cardinality(Linked(row)) \in Nat
      /\ \A k \in 1..count :
            IF k <= Cardinality(Linked(row))
            THEN \E i \in Linked(row) : edges[k] = LSEdge(row[i], i)
            ELSE edges[k] = Garbage
      /\ Cardinality(Linked(row)) <= count =>
            \A i \in Linked(row) : \E k \in 1..count : edges[k] = LSEdge(row[i], i)
  BY <1>1, EdgesOfRow
<1>3. /\ Cardinality(Linked(row)) <= count
      /\ OneLinePerLink(f) => Cardinality(Linked(row)) = count
  BY LinkedFit
<1> HIDE DEF edges, count
<1>4. DOMAIN edges = 1..count
  BY <1>2
<1>5. ASSUME NEW i \in Linked(row)
      PROVE  \E line \in said : LSEdge(row[i], i) = LSEdge(line.weight, line.label)
  <2>1. i \in Routers /\ Naming(f, i) # {} /\ row[i] = LastLine(f, i).weight
    BY DEF Linked, WeightIn
  <2>2. LastLine(f, i) \in Says(f) /\ LastLine(f, i).label = i
    BY <2>1, SaysLastLines, LastLineNames
  <2>3. LastLine(f, i).weight # INF
    BY <2>1 DEF Linked
  <2> QED
    BY <2>1, <2>2, <2>3
<1>6. ASSUME NEW line \in said
      PROVE  line.label \in Linked(row) /\ row[line.label] = line.weight
  <2>1. /\ line.label \in Routers /\ Naming(f, line.label) # {}
        /\ line = LastLine(f, line.label)
    BY SaysLastLines
  <2>2. row[line.label] = line.weight
    BY <2>1 DEF WeightIn
  <2> QED
    BY <2>1, <2>2 DEF Linked
<1>7. \A i \in Linked(row) : LSEdge(row[i], i) # Garbage
  <2>1. \A i \in Linked(row) : LSEdge(row[i], i) \in Edge
    BY EdgeTypes DEF Linked
  <2> QED
    BY <2>1, RouterNumbers
<1>8. ASSUME NEW e \in {edges[k] : k \in DOMAIN edges} \ {Garbage}
      PROVE  e \in {LSEdge(line.weight, line.label) : line \in said}
  <2>1. PICK k \in 1..count : e = edges[k] /\ edges[k] # Garbage
    BY <1>4
  <2>2. PICK i \in Linked(row) : e = LSEdge(row[i], i)
    BY <2>1, <1>2
  <2> HIDE DEF said
  <2> QED
    BY <2>2, <1>5
<1>9. ASSUME NEW e \in {LSEdge(line.weight, line.label) : line \in said}
      PROVE  e \in {edges[k] : k \in DOMAIN edges} \ {Garbage}
  <2>1. PICK line \in said : e = LSEdge(line.weight, line.label)
    OBVIOUS
  <2>2. line.label \in Linked(row) /\ e = LSEdge(row[line.label], line.label)
    BY <2>1, <1>6
  <2>3. PICK k \in 1..count : edges[k] = e
    BY <2>2, <1>2, <1>3
  <2> QED
    BY <2>2, <2>3, <1>4, <1>7
<1>10. ASSUME OneLinePerLink(f), NEW k \in DOMAIN edges
       PROVE  edges[k] # Garbage
  <2>1. k \in 1..count /\ k <= Cardinality(Linked(row))
    BY <1>10, <1>3, <1>4, <1>1
  <2> QED
    BY <2>1, <1>2, <1>7
<1>11. {edges[k] : k \in DOMAIN edges} \ {Garbage} =
          {LSEdge(line.weight, line.label) : line \in said}
  <2> HIDE DEF said
  <2> QED
    BY <1>8, <1>9
<1> QED
  BY <1>10, <1>11 DEF edges, count

-----------------------------------------------------------------------------
(***************************************************************************)
(* ExchangeInv is inductive: the steps up to the socket.                   *)
(***************************************************************************)

LEMMA FileOfTypes ==
    ASSUME TypeOK, NEW n \in Routers, FileOf(n) # NULL
    PROVE  /\ FileOf(n) \in Seq(Line)
           /\ Len(FileOf(n)) \in Nat /\ Len(FileOf(n)) <= MAX_EDGES
<1>1. started[n] \in StartedWith[n]
  BY DEF TypeOK
<1>2. FileOf(n) \in Seq(Line) /\ Len(FileOf(n)) <= MAX_EDGES
  BY <1>1, FileTypes DEF FileOf
<1> QED
  BY <1>2

\* A field of 16 bits takes what is below 65536, and all of it.
LEMMA FieldNumbers ==
    ASSUME NEW k \in Nat
    PROVE  k % WORD \in Field /\ (k <= 664 => k % WORD = k /\ k \in Field)
<1>1. WORD \in Nat /\ WORD > 664
  BY DEF WORD
<1>2. k % WORD \in 0..(WORD - 1)
  BY <1>1
<1>3. k <= 664 => k % WORD = k
  BY <1>1
<1> QED
  BY <1>1, <1>2, <1>3 DEF Field

LEMMA InitExchange == Init => ExchangeInv
<1> SUFFICES ASSUME Init PROVE ExchangeInv
  OBVIOUS
<1>1. TypeOK
  <2>1. \A n \in Routers : started[n] \in StartedWith[n]
    BY DEF Init
  <2>2. INF \in Int
    BY RouterNumbers
  <2> QED
    BY <2>1, <2>2 DEF Init, TypeOK
<1>2. Reading /\ Building /\ Flooding /\ Sending /\ Receiving
  BY DEF Init, Reading, ReadingAt, Building, Flooding, Sending, Receiving, Built,
         PastListening
<1> QED
  BY <1>1, <1>2 DEF ExchangeInv

\* What a router's table says of its file, as long as the table is not written.
LEMMA ReadingKept ==
    ASSUME NEW r \in Routers, ReadingAt(r), started' = started,
           pc'[r] = pc[r], seqNum'[r] = seqNum[r], adjMatrix'[r] = adjMatrix[r],
           addr'[r] = addr[r], numNeighbors'[r] = numNeighbors[r]
    PROVE  ReadingAt(r)'
BY DEF ReadingAt, Built, TableIsFile, FileOf

\* What was built, sent and received stays so: a step may build a packet for a
\* router that had none, or go on with its flooding.
LEMMA ExchangeKept ==
    ASSUME ExchangeInv,
           \A m \in Routers : Built(m) =>
              /\ Built(m)'
              /\ ownPkt'[m] = ownPkt[m]
              /\ next'[m] \in Nat /\ next[m] <= next'[m]
              /\ \A i \in Routers \ {m} : addr'[m][i] = addr[m][i]
    PROVE  /\ \A m, n \in Routers : Told(m, n) => Told(m, n)'
           /\ \A m \in Routers : Built(m) =>
                 \A s \in Routers : portToNodeLabel(m, s)' = portToNodeLabel(m, s)
           /\ inbox' = inbox => Sending'
           /\ UNCHANGED <<rcvPkt, rcvdFrom>> => Receiving'
<1>1. Routers \in SUBSET Nat /\ next \in [Routers -> Nat]
  BY RouterNumbers DEF ExchangeInv, TypeOK
<1>2. ASSUME NEW m \in Routers, NEW n \in Routers, Told(m, n)
      PROVE  Told(m, n)'
  <2>1. PICK i \in Routers \ {m} : i < next[m] /\ addr[m][i] = n
    BY <1>2 DEF Told
  <2>2. Built(m) /\ Built(m)'
    BY <1>2 DEF Told
  <2>3. next'[m] \in Nat /\ next[m] <= next'[m] /\ addr'[m][i] = n
    BY <2>1, <2>2
  <2>4. i < next'[m]
    BY <2>1, <2>3, <1>1
  <2> QED
    BY <2>2, <2>3, <2>4 DEF Told
<1>3. ASSUME NEW m \in Routers, Built(m), NEW s \in Routers
      PROVE  portToNodeLabel(m, s)' = portToNodeLabel(m, s)
  <2>1. {i \in Routers \ {m} : addr'[m][i] = s} = {i \in Routers \ {m} : addr[m][i] = s}
    BY <1>3
  <2> QED
    BY <2>1 DEF portToNodeLabel
<1>4. ASSUME inbox' = inbox PROVE Sending'
  <2>1. \A n \in Routers : \A k \in DOMAIN inbox[n] : inbox[n][k].from \in Routers
    <3> SUFFICES ASSUME NEW n \in Routers, NEW k \in DOMAIN inbox[n]
                 PROVE  inbox[n][k].from \in Routers
      OBVIOUS
    <3>1. inbox[n] \in Seq(Datagram)
      BY DEF ExchangeInv, TypeOK
    <3>2. inbox[n][k] \in Datagram
      BY <3>1
    <3> QED
      BY <3>2 DEF Datagram
  <2> QED
    BY <2>1, <1>2, <1>4 DEF ExchangeInv, Sending, Told
<1>5. ASSUME UNCHANGED <<rcvPkt, rcvdFrom>> PROVE Receiving'
  <2> SUFFICES ASSUME NEW n \in Routers, rcvPkt[n] # NULL
               PROVE  /\ Built(n)'
                      /\ Heard(n) \in Routers /\ Told(Heard(n), n)'
                      /\ rcvPkt[n] = ownPkt'[Heard(n)]
                      /\ rcvdFrom[n] = portToNodeLabel(n, Heard(n))'
    BY <1>5 DEF Receiving, Heard
  <2>1. /\ Built(n) /\ Heard(n) \in Routers /\ Told(Heard(n), n)
        /\ rcvPkt[n] = ownPkt[Heard(n)]
        /\ rcvdFrom[n] = portToNodeLabel(n, Heard(n))
    BY DEF ExchangeInv, Receiving
  <2>2. Built(Heard(n)) /\ Heard(n)' = Heard(n)
    BY <2>1, <1>5 DEF Told, Heard
  <2> QED
    BY <2>1, <2>2, <1>2, <1>3
<1> QED
  BY <1>2, <1>3, <1>4, <1>5

LEMMA ArgsExchange ==
    ASSUME ExchangeInv, NEW n \in Routers, confirmArgs(n)
    PROVE  ExchangeInv'
<1>1. PICK p \in {"parse", "done"} :
        /\ pc[n] = "args" /\ pc' = [pc EXCEPT ![n] = p]
        /\ UNCHANGED <<started, adjMatrix, addr, seqNum, numNeighbors, ownPkt, inbox,
                       rcvPkt, rcvdFrom, next, floodResult>>
  BY DEF confirmArgs, Goto
<1>2. TypeOK'
  BY <1>1 DEF ExchangeInv, TypeOK
<1>3. Reading'
  <2> SUFFICES ASSUME NEW r \in Routers PROVE ReadingAt(r)'
    BY DEF Reading
  <2>1. ReadingAt(r)
    BY DEF ExchangeInv, Reading
  <2>2. CASE r # n
    BY <2>1, <2>2, <1>1, ReadingKept DEF ExchangeInv, TypeOK
  <2>3. CASE r = n
    BY <2>1, <2>3, <1>1 DEF ExchangeInv, TypeOK, ReadingAt, Built
  <2> QED
    BY <2>2, <2>3
<1>4. Building'
  BY <1>1 DEF ExchangeInv, Building, Built, PacketOf, FileOf
<1>5. Flooding'
  BY <1>1 DEF ExchangeInv, TypeOK, Flooding, PastListening
<1>6. Sending' /\ Receiving'
  <2>1. \A m \in Routers : Built(m) =>
              /\ Built(m)' /\ ownPkt'[m] = ownPkt[m]
              /\ next'[m] \in Nat /\ next[m] <= next'[m]
              /\ \A i \in Routers \ {m} : addr'[m][i] = addr[m][i]
    BY <1>1 DEF Built, ExchangeInv, TypeOK
  <2> QED
    BY <1>1, <2>1, ExchangeKept
<1> QED
  BY <1>2, <1>3, <1>4, <1>5, <1>6 DEF ExchangeInv

LEMMA ParseExchange ==
    ASSUME ExchangeInv, NEW n \in Routers, parseNeighborFile(n)
    PROVE  ExchangeInv'
<1> DEFINE f == FileOf(n)
           p == IF LinesRead(f) = -1 THEN "done" ELSE "build"
           row == [i \in Routers |-> IF f = NULL THEN INF ELSE WeightIn(f, i)]
           table == [i \in Routers |-> IF f = NULL THEN NULL ELSE AtIn(f, i)]
<1>1. /\ pc[n] = "parse" /\ pc' = [pc EXCEPT ![n] = p]
      /\ numNeighbors' = [numNeighbors EXCEPT ![n] = LinesRead(f)]
      /\ UNCHANGED <<started, seqNum, ownPkt, inbox, rcvPkt, rcvdFrom, next, floodResult>>
  BY DEF parseNeighborFile, Goto, FileOf
<1>2. ReadingAt(n) /\ adjMatrix[n] = [i \in Routers |-> INF]
      /\ addr[n] = [i \in Routers |-> NULL] /\ seqNum[n] = -1
  BY <1>1 DEF ExchangeInv, Reading, ReadingAt
<1>3. adjMatrix' = [adjMatrix EXCEPT ![n] = row] /\ addr' = [addr EXCEPT ![n] = table]
  <2> DEFINE Named == IF f = NULL THEN {} ELSE {i \in Routers : Naming(f, i) # {}}
             newRow == [i \in Routers |-> IF i \in Named THEN LastLine(f, i).weight
                                                         ELSE adjMatrix[n][i]]
             newTable == [i \in Routers |-> IF i \in Named THEN LastLine(f, i).at
                                                           ELSE addr[n][i]]
  <2>1. /\ adjMatrix' = [adjMatrix EXCEPT ![n] = newRow]
        /\ addr' = [addr EXCEPT ![n] = newTable]
    BY DEF parseNeighborFile, FileOf, LastLine
  <2>2. ASSUME NEW i \in Routers
        PROVE  newRow[i] = row[i] /\ newTable[i] = table[i]
    <3>1. CASE f = NULL
      BY <3>1, <1>2
    <3>2. CASE f # NULL
      BY <3>2, <1>2 DEF WeightIn, AtIn
    <3> QED
      BY <3>1, <3>2
  <2>3. newRow = row /\ newTable = table
    BY <2>2
  <2> HIDE DEF newRow, newTable, row, table
  <2> QED
    BY <2>1, <2>3
<1>4. f # NULL => f \in Seq(Line) /\ Len(f) \in Nat /\ Len(f) <= MAX_EDGES
  BY FileOfTypes DEF ExchangeInv
<1>5. row \in [Routers -> Int] /\ table \in [Routers -> Routers \cup {NULL}]
  BY <1>4, TableTypes, RouterNumbers
<1>6. LinesRead(f) \in Nat \cup {-1}
  BY <1>4 DEF LinesRead
<1>7. p # "done" => f # NULL /\ Clean(f) /\ LinesRead(f) = Len(f)
  <2> SUFFICES ASSUME p # "done" PROVE f # NULL /\ Clean(f) /\ LinesRead(f) = Len(f)
    OBVIOUS
  <2>1. f # NULL /\ Stored(f) = DOMAIN f /\ LinesRead(f) = Len(f)
    BY DEF LinesRead
  <2>2. ASSUME NEW k \in DOMAIN f PROVE ~Faulty(f[k])
    <3>1. k \in 1..k
      BY <1>4, <2>1
    <3> QED
      BY <2>1, <3>1 DEF Stored
  <2> QED
    BY <2>1, <2>2 DEF Clean
<1> HIDE DEF f, row, table
<1>8. TypeOK'
  <2>1. p \in {"build", "done"}
    OBVIOUS
  <2>2. adjMatrix' \in [Routers -> [Routers -> Int]]
    BY <1>3, <1>5 DEF ExchangeInv, TypeOK
  <2>3. addr' \in [Routers -> [Routers -> Routers \cup {NULL}]]
    BY <1>3, <1>5 DEF ExchangeInv, TypeOK
  <2>4. numNeighbors' \in [Routers -> Nat \cup {-1}]
    BY <1>1, <1>6 DEF ExchangeInv, TypeOK
  <2> HIDE DEF p
  <2> QED
    BY <1>1, <2>1, <2>2, <2>3, <2>4 DEF ExchangeInv, TypeOK
<1>9. Reading'
  <2> SUFFICES ASSUME NEW r \in Routers PROVE ReadingAt(r)'
    BY DEF Reading
  <2>1. ReadingAt(r)
    BY DEF ExchangeInv, Reading
  <2>2. CASE r # n
    BY <2>1, <2>2, <1>1, <1>3, ReadingKept DEF ExchangeInv, TypeOK
  <2>3. CASE r = n
    <3>1. pc'[n] = p /\ p \in {"build", "done"} /\ seqNum'[n] = -1
      BY <1>1, <1>2 DEF ExchangeInv, TypeOK
    <3>2. adjMatrix'[n] = row /\ addr'[n] = table /\ numNeighbors'[n] = LinesRead(f)
      BY <1>1, <1>3 DEF ExchangeInv, TypeOK
    <3>3. pc'[n] = "build" => TableIsFile(n)'
      <4> SUFFICES ASSUME p # "done" PROVE TableIsFile(n)'
        BY <3>1
      <4>1. f # NULL /\ Clean(f) /\ LinesRead(f) = Len(f) /\ FileOf(n)' = f
        BY <1>1, <1>7 DEF FileOf, f
      <4> QED
        BY <3>2, <4>1 DEF TableIsFile, row, table
    <3> HIDE DEF p
    <3> QED
      BY <2>3, <3>1, <3>3 DEF ReadingAt, Built
  <2> QED
    BY <2>2, <2>3
<1>10. Building' /\ Flooding'
  <2>1. \A r \in Routers : Built(r) => r # n
    BY <1>2 DEF Built
  <2>2. Building'
    BY <1>1, <1>3, <2>1 DEF ExchangeInv, TypeOK, Building, Built, PacketOf, FileOf
  <2>3. Flooding'
    BY <1>1 DEF ExchangeInv, TypeOK, Flooding, PastListening
  <2> QED
    BY <2>2, <2>3
<1>11. Sending' /\ Receiving'
  <2>1. \A m \in Routers : Built(m) =>
              /\ Built(m)' /\ ownPkt'[m] = ownPkt[m]
              /\ next'[m] \in Nat /\ next[m] <= next'[m]
              /\ \A i \in Routers \ {m} : addr'[m][i] = addr[m][i]
    BY <1>1, <1>2, <1>3 DEF Built, ExchangeInv, TypeOK
  <2> QED
    BY <1>1, <2>1, ExchangeKept
<1> QED
  BY <1>8, <1>9, <1>10, <1>11 DEF ExchangeInv

\* The packet of a router that has read its file.
LEMMA PacketTypes ==
    ASSUME TypeOK, NEW n \in Routers, TableIsFile(n)
    PROVE  PacketOf(n) \in Packet
<1> DEFINE f == FileOf(n)
<1>1. Len(f) \in Nat /\ Len(f) <= 664
  <2>1. f # NULL
    BY DEF TableIsFile, Clean
  <2>2. MAX_EDGES = 664
    BY DEF MAX_EDGES
  <2> QED
    BY <2>1, <2>2, FileOfTypes
<1>2. LSEdges(adjMatrix[n], Len(f)) \in Seq(Edge \cup {Garbage})
  BY <1>1, EdgesOfRow DEF TypeOK
<1>3. NumRouters % WORD \in Field
  BY RouterNumbers, FieldNumbers
<1> HIDE DEF f
<1>4. 0 \in Field /\ Len(f) \in Field
  BY <1>1, FieldNumbers
<1> QED
  BY <1>2, <1>3, <1>4 DEF PacketOf, Packet, f

LEMMA BuildExchange ==
    ASSUME ExchangeInv, NEW n \in Routers, buildLSPacket(n)
    PROVE  ExchangeInv'
<1> DEFINE f == FileOf(n)
           packet == PacketOf(n)
<1>1. /\ pc[n] = "build" /\ pc' = [pc EXCEPT ![n] = "bind"]
      /\ seqNum' = [seqNum EXCEPT ![n] = @ + 1]
      /\ UNCHANGED <<started, adjMatrix, addr, numNeighbors, inbox, rcvPkt, rcvdFrom,
                     next, floodResult>>
  BY DEF buildLSPacket, Goto
<1>2. ReadingAt(n) /\ TableIsFile(n) /\ seqNum[n] = -1
  BY <1>1 DEF ExchangeInv, Reading, ReadingAt
<1>3. f \in Seq(Line) /\ Len(f) \in Nat /\ Len(f) <= 664 /\ numNeighbors[n] = Len(f)
  <2>1. f # NULL /\ numNeighbors[n] = Len(f)
    BY <1>2 DEF TableIsFile, Clean
  <2>2. MAX_EDGES = 664
    BY DEF MAX_EDGES
  <2> QED
    BY <2>1, <2>2, FileOfTypes DEF ExchangeInv
<1>4. ownPkt' = [ownPkt EXCEPT ![n] = packet]
  <2>1. (seqNum[n] + 1) % WORD = 0
    <3>1. 0 % WORD = 0
      BY FieldNumbers
    <3> QED
      BY <3>1, <1>2
  <2>2. numNeighbors[n] % WORD = Len(f)
    BY <1>3, FieldNumbers
  <2> HIDE DEF f
  <2> QED
    BY <2>1, <2>2, <1>3 DEF buildLSPacket, PacketOf, f
<1>5. packet \in Packet
  BY <1>2, PacketTypes DEF ExchangeInv
<1>6. TypeOK'
  <2>1. ownPkt' \in [Routers -> Packet \cup {NULL}]
    BY <1>4, <1>5 DEF ExchangeInv, TypeOK
  <2>2. seqNum' \in [Routers -> {-1, 0}]
    BY <1>1, <1>2 DEF ExchangeInv, TypeOK
  <2> HIDE DEF packet, f
  <2> QED
    BY <1>1, <2>1, <2>2 DEF ExchangeInv, TypeOK
<1> HIDE DEF packet
<1>7. /\ \A r \in Routers \ {n} : pc'[r] = pc[r] /\ seqNum'[r] = seqNum[r] /\ ownPkt'[r] = ownPkt[r]
      /\ pc'[n] = "bind" /\ seqNum'[n] = 0 /\ ownPkt'[n] = packet
  BY <1>1, <1>2, <1>4 DEF ExchangeInv, TypeOK
<1>8. Reading'
  <2> SUFFICES ASSUME NEW r \in Routers PROVE ReadingAt(r)'
    BY DEF Reading
  <2>1. ReadingAt(r)
    BY DEF ExchangeInv, Reading
  <2>2. CASE r # n
    BY <2>1, <2>2, <1>1, <1>7, ReadingKept
  <2>3. CASE r = n
    <3>1. TableIsFile(n)'
      BY <1>1, <1>2 DEF TableIsFile, FileOf
    <3> QED
      BY <2>3, <1>7, <3>1 DEF ReadingAt, Built
  <2> QED
    BY <2>2, <2>3
<1>9. Building'
  <2> SUFFICES ASSUME NEW r \in Routers, Built(r)' PROVE ownPkt'[r] = PacketOf(r)'
    BY DEF Building
  <2>1. PacketOf(r)' = PacketOf(r)
    BY <1>1 DEF PacketOf, FileOf
  <2>2. CASE r = n
    BY <2>1, <2>2, <1>7 DEF packet
  <2>3. CASE r # n
    BY <2>1, <2>3, <1>7 DEF ExchangeInv, Building, Built
  <2> QED
    BY <2>2, <2>3
<1>10. Flooding'
  BY <1>1 DEF ExchangeInv, TypeOK, Flooding, PastListening
<1>11. Sending' /\ Receiving'
  <2>1. \A m \in Routers : Built(m) =>
              /\ Built(m)' /\ ownPkt'[m] = ownPkt[m]
              /\ next'[m] \in Nat /\ next[m] <= next'[m]
              /\ \A i \in Routers \ {m} : addr'[m][i] = addr[m][i]
    BY <1>1, <1>2, <1>7 DEF Built, ExchangeInv, TypeOK
  <2> QED
    BY <1>1, <2>1, ExchangeKept
<1> QED
  BY <1>6, <1>8, <1>9, <1>10, <1>11 DEF ExchangeInv

LEMMA BindExchange ==
    ASSUME ExchangeInv, NEW n \in Routers, configureHostInfo(n)
    PROVE  ExchangeInv'
<1>1. PICK p \in {"listen", "done"} :
        /\ pc[n] = "bind" /\ pc' = [pc EXCEPT ![n] = p]
        /\ addr' = [addr EXCEPT ![n][n] = n]
        /\ UNCHANGED <<started, adjMatrix, seqNum, numNeighbors, ownPkt, inbox,
                       rcvPkt, rcvdFrom, next, floodResult>>
  BY DEF configureHostInfo, Goto
<1>2. /\ pc'[n] = p /\ \A r \in Routers \ {n} : pc'[r] = pc[r] /\ addr'[r] = addr[r]
      /\ \A i \in Routers \ {n} : addr'[n][i] = addr[n][i]
  BY <1>1 DEF ExchangeInv, TypeOK
<1>3. TypeOK'
  <2>1. addr' \in [Routers -> [Routers -> Routers \cup {NULL}]]
    BY <1>1 DEF ExchangeInv, TypeOK
  <2> QED
    BY <1>1, <2>1 DEF ExchangeInv, TypeOK
<1>4. Reading'
  <2> SUFFICES ASSUME NEW r \in Routers PROVE ReadingAt(r)'
    BY DEF Reading
  <2>1. ReadingAt(r)
    BY DEF ExchangeInv, Reading
  <2>2. CASE r # n
    BY <2>1, <2>2, <1>1, <1>2, ReadingKept
  <2>3. CASE r = n
    <3>1. Built(n) /\ TableIsFile(n)
      BY <2>1, <2>3, <1>1 DEF ReadingAt
    <3>2. TableIsFile(n)' /\ Built(n)'
      BY <1>1, <1>2, <3>1 DEF TableIsFile, FileOf, Built
    <3> QED
      BY <2>3, <1>1, <1>2, <3>2 DEF ReadingAt, Built
  <2> QED
    BY <2>2, <2>3
<1>5. Building'
  BY <1>1 DEF ExchangeInv, Building, Built, PacketOf, FileOf
<1>6. Flooding'
  BY <1>1 DEF ExchangeInv, TypeOK, Flooding, PastListening
<1>7. Sending' /\ Receiving'
  <2>1. \A m \in Routers : Built(m) =>
              /\ Built(m)' /\ ownPkt'[m] = ownPkt[m]
              /\ next'[m] \in Nat /\ next[m] <= next'[m]
              /\ \A i \in Routers \ {m} : addr'[m][i] = addr[m][i]
    BY <1>1, <1>2 DEF Built, ExchangeInv, TypeOK
  <2> QED
    BY <1>1, <2>1, ExchangeKept
<1> QED
  BY <1>3, <1>4, <1>5, <1>6, <1>7 DEF ExchangeInv

-----------------------------------------------------------------------------
(***************************************************************************)
(* The steps with a socket.                                                *)
(***************************************************************************)

LEMMA SeqEnds ==
    ASSUME NEW X, NEW s \in Seq(X)
    PROVE  /\ s # << >> =>
              /\ Head(s) \in X /\ 1 \in DOMAIN s /\ Head(s) = s[1]
              /\ Tail(s) \in Seq(X)
              /\ \A k \in DOMAIN Tail(s) : k + 1 \in DOMAIN s /\ Tail(s)[k] = s[k + 1]
           /\ \A x \in X :
              /\ Append(s, x) \in Seq(X)
              /\ \A k \in DOMAIN Append(s, x) :
                    Append(s, x)[k] = x \/ (k \in DOMAIN s /\ Append(s, x)[k] = s[k])
OBVIOUS

\* What has been built does not change any more when only the place of a router
\* in main changes.
LEMMA MovedOn ==
    ASSUME ExchangeInv, NEW n \in Routers,
           NEW p \in {"flood", "done"},
           pc[n] \in {"listen", "flood"}, pc' = [pc EXCEPT ![n] = p],
           UNCHANGED <<started, adjMatrix, addr, seqNum, numNeighbors, ownPkt, next>>
    PROVE  Reading' /\ Building'
<1>1. Reading'
  <2> SUFFICES ASSUME NEW r \in Routers PROVE ReadingAt(r)'
    BY DEF Reading
  <2>1. ReadingAt(r)
    BY DEF ExchangeInv, Reading
  <2>2. CASE r # n
    BY <2>1, <2>2, ReadingKept DEF ExchangeInv, TypeOK
  <2>3. CASE r = n
    <3>1. Built(n) /\ TableIsFile(n)
      BY <2>1, <2>3 DEF ReadingAt
    <3>2. TableIsFile(n)' /\ Built(n)'
      BY <3>1 DEF TableIsFile, FileOf, Built
    <3>3. pc'[n] = p
      BY DEF ExchangeInv, TypeOK
    <3> QED
      BY <2>3, <3>2, <3>3 DEF ReadingAt, Built
  <2> QED
    BY <2>2, <2>3
<1>2. Building'
  BY DEF ExchangeInv, Building, Built, PacketOf, FileOf
<1> QED
  BY <1>1, <1>2

LEMMA SenderTypes ==
    ASSUME TypeOK, NEW n \in Routers, NEW s
    PROVE  portToNodeLabel(n, s) \in Routers \cup {NULL}
<1> DEFINE fits == {i \in Routers \ {n} : addr[n][i] = s}
<1>1. CASE fits = {}
  BY <1>1 DEF portToNodeLabel
<1>2. CASE fits # {}
  <2>1. FirstOf(fits) \in fits
    BY <1>2, FirstOfLeast, RouterNumbers
  <2> QED
    BY <2>1, <1>2 DEF portToNodeLabel
<1> QED
  BY <1>1, <1>2

LEMMA ReceiveExchange ==
    ASSUME ExchangeInv, NEW n \in Routers, ListenReceive(n)
    PROVE  ExchangeInv'
<1> DEFINE d == Head(inbox[n])
<1>1. /\ pc[n] = "listen" /\ inbox[n] # << >> /\ pc' = [pc EXCEPT ![n] = "flood"]
      /\ rcvPkt' = [rcvPkt EXCEPT ![n] = d.pkt]
      /\ rcvdFrom' = [rcvdFrom EXCEPT ![n] = portToNodeLabel(n, d.from)]
      /\ inbox' = [inbox EXCEPT ![n] = Tail(inbox[n])]
      /\ UNCHANGED <<started, adjMatrix, addr, seqNum, numNeighbors, ownPkt, next,
                     floodResult>>
  BY DEF ListenReceive, Goto
<1>2. /\ d \in Datagram /\ 1 \in DOMAIN inbox[n] /\ d = inbox[n][1]
      /\ Tail(inbox[n]) \in Seq(Datagram)
      /\ \A k \in DOMAIN Tail(inbox[n]) :
            k + 1 \in DOMAIN inbox[n] /\ Tail(inbox[n])[k] = inbox[n][k + 1]
  <2>1. inbox[n] \in Seq(Datagram)
    BY DEF ExchangeInv, TypeOK
  <2> QED
    BY <1>1, <2>1, SeqEnds
<1>3. Told(d.from, n) /\ d.pkt = ownPkt[d.from]
  BY <1>2 DEF ExchangeInv, Sending
<1>4. d.from \in Routers /\ d.pkt \in Packet
  BY <1>2 DEF Datagram
<1> HIDE DEF d
<1>5. d.pkt.sourceLabel = d.from
  <2>1. Built(d.from)
    BY <1>3 DEF Told
  <2>2. d.pkt = PacketOf(d.from)
    BY <1>3, <1>4, <2>1 DEF ExchangeInv, Building
  <2> QED
    BY <2>2 DEF PacketOf
<1>6. TypeOK'
  <2>1. portToNodeLabel(n, d.from) \in Routers \cup {NULL}
    BY SenderTypes DEF ExchangeInv
  <2> QED
    BY <1>1, <1>2, <1>4, <2>1 DEF ExchangeInv, TypeOK
<1>7. Reading' /\ Building'
  BY <1>1, MovedOn
<1>8. Flooding'
  BY <1>1 DEF ExchangeInv, TypeOK, Flooding, PastListening
<1>9. /\ \A m, r \in Routers : Told(m, r) => Told(m, r)'
      /\ \A m \in Routers : Built(m) =>
            \A s \in Routers : portToNodeLabel(m, s)' = portToNodeLabel(m, s)
  <2>1. \A m \in Routers : Built(m) =>
              /\ Built(m)' /\ ownPkt'[m] = ownPkt[m]
              /\ next'[m] \in Nat /\ next[m] <= next'[m]
              /\ \A i \in Routers \ {m} : addr'[m][i] = addr[m][i]
    BY <1>1 DEF Built, ExchangeInv, TypeOK
  <2> QED
    BY <2>1, ExchangeKept
<1>10. Sending'
  <2> SUFFICES ASSUME NEW r \in Routers, NEW k \in DOMAIN inbox'[r]
               PROVE  /\ Told(inbox[r][k].from, r)'
                      /\ (inbox[r][k].pkt = ownPkt[inbox[r][k].from])'
    BY DEF Sending
  <2>1. PICK j \in DOMAIN inbox[r] : inbox'[r][k] = inbox[r][j]
    BY <1>1, <1>2 DEF ExchangeInv, TypeOK
  <2>2. inbox[r][j].from \in Routers
    <3>1. inbox[r] \in Seq(Datagram)
      BY DEF ExchangeInv, TypeOK
    <3>2. inbox[r][j] \in Datagram
      BY <3>1
    <3> QED
      BY <3>2 DEF Datagram
  <2>3. Told(inbox[r][j].from, r) /\ inbox[r][j].pkt = ownPkt[inbox[r][j].from]
    BY DEF ExchangeInv, Sending
  <2> QED
    BY <1>1, <1>9, <2>1, <2>2, <2>3
<1>11. Receiving'
  <2> SUFFICES ASSUME NEW r \in Routers, rcvPkt'[r] # NULL
               PROVE  /\ Built(r)'
                      /\ Heard(r)' \in Routers /\ Told(Heard(r), r)'
                      /\ rcvPkt'[r] = (ownPkt[Heard(r)])'
                      /\ rcvdFrom'[r] = portToNodeLabel(r, Heard(r))'
    BY DEF Receiving
  <2>1. CASE r = n
    <3>1. rcvPkt'[n] = d.pkt /\ rcvdFrom'[n] = portToNodeLabel(n, d.from)
      BY <1>1 DEF ExchangeInv, TypeOK
    <3>2. Heard(n)' = d.from
      BY <3>1, <1>5 DEF Heard
    <3>3. Built(n) /\ Built(n)'
      BY <1>1 DEF ExchangeInv, Reading, ReadingAt, Built
    <3>4. portToNodeLabel(n, Heard(n))' = portToNodeLabel(n, d.from)
      BY <1>1, <3>2 DEF portToNodeLabel
    <3>5. Told(Heard(n), n)'
      BY <1>1, <1>3, <3>2 DEF Told, Built
    <3> QED
      BY <1>1, <1>3, <1>4, <2>1, <3>1, <3>2, <3>3, <3>4, <3>5
  <2>2. CASE r # n
    <3>1. rcvPkt'[r] = rcvPkt[r] /\ rcvdFrom'[r] = rcvdFrom[r]
      BY <1>1, <2>2 DEF ExchangeInv, TypeOK
    <3>2. Heard(r)' = Heard(r)
      BY <3>1 DEF Heard
    <3>3. /\ Built(r) /\ Heard(r) \in Routers /\ Told(Heard(r), r)
          /\ rcvPkt[r] = ownPkt[Heard(r)]
          /\ rcvdFrom[r] = portToNodeLabel(r, Heard(r))
      BY <3>1 DEF ExchangeInv, Receiving
    <3>4. portToNodeLabel(r, Heard(r))' = portToNodeLabel(r, Heard(r))
      BY <1>1, <3>2 DEF portToNodeLabel
    <3>5. Built(r)' /\ Told(Heard(r), r)'
      BY <1>1, <3>2, <3>3 DEF Told, Built
    <3> QED
      BY <1>1, <3>1, <3>2, <3>3, <3>4, <3>5
  <2> QED
    BY <2>1, <2>2
<1> QED
  BY <1>6, <1>7, <1>8, <1>10, <1>11 DEF ExchangeInv

\* A router that gives up listening, by its timeout or by an error.
LEMMA NotHeardExchange ==
    ASSUME ExchangeInv, NEW n \in Routers, ListenTimeout(n) \/ ListenError(n)
    PROVE  ExchangeInv'
<1>1. PICK p \in {"flood", "done"} :
        /\ pc[n] = "listen" /\ pc' = [pc EXCEPT ![n] = p]
        /\ UNCHANGED <<started, adjMatrix, addr, seqNum, numNeighbors, ownPkt, inbox,
                       rcvPkt, rcvdFrom, next, floodResult>>
  BY DEF ListenTimeout, ListenError, Goto
<1>2. TypeOK'
  BY <1>1 DEF ExchangeInv, TypeOK
<1>3. Reading' /\ Building'
  BY <1>1, MovedOn
<1>4. Flooding'
  BY <1>1 DEF ExchangeInv, TypeOK, Flooding, PastListening
<1>5. Sending' /\ Receiving'
  <2>1. \A m \in Routers : Built(m) =>
              /\ Built(m)' /\ ownPkt'[m] = ownPkt[m]
              /\ next'[m] \in Nat /\ next[m] <= next'[m]
              /\ \A i \in Routers \ {m} : addr'[m][i] = addr[m][i]
    BY <1>1 DEF Built, ExchangeInv, TypeOK
  <2> QED
    BY <1>1, <2>1, ExchangeKept
<1> QED
  BY <1>2, <1>3, <1>4, <1>5 DEF ExchangeInv

LEMMA ReturnExchange ==
    ASSUME ExchangeInv, NEW n \in Routers, FloodReturn(n)
    PROVE  ExchangeInv'
<1>1. PICK result \in {0, -1} :
        /\ pc[n] = "flood" /\ pc' = [pc EXCEPT ![n] = "done"]
        /\ floodResult' = [floodResult EXCEPT ![n] = result]
        /\ UNCHANGED <<started, adjMatrix, addr, seqNum, numNeighbors, ownPkt, inbox,
                       rcvPkt, rcvdFrom, next>>
  BY DEF FloodReturn, Goto
<1>2. TypeOK'
  BY <1>1 DEF ExchangeInv, TypeOK
<1>3. Reading' /\ Building'
  BY <1>1, MovedOn
<1>4. Flooding'
  BY <1>1 DEF ExchangeInv, TypeOK, Flooding, PastListening
<1>5. Sending' /\ Receiving'
  <2>1. \A m \in Routers : Built(m) =>
              /\ Built(m)' /\ ownPkt'[m] = ownPkt[m]
              /\ next'[m] \in Nat /\ next[m] <= next'[m]
              /\ \A i \in Routers \ {m} : addr'[m][i] = addr[m][i]
    BY <1>1 DEF Built, ExchangeInv, TypeOK
  <2> QED
    BY <1>1, <2>1, ExchangeKept
<1> QED
  BY <1>2, <1>3, <1>4, <1>5 DEF ExchangeInv

\* The router told next is the first in the table that was not told yet.
LEMMA TellNext ==
    ASSUME TypeOK, NEW n \in Routers, ToTell(n) # {}
    PROVE  LET i == FirstOf(ToTell(n)) IN
           /\ i \in ToTell(n) /\ i \in Routers \ {n} /\ i \in Nat /\ i + 1 \in Nat
           /\ next[n] \in Nat /\ next[n] <= i /\ addr[n][i] \in Routers
           /\ \A j \in ToTell(n) : i <= j
<1>1. ToTell(n) \in SUBSET Nat
  BY RouterNumbers DEF ToTell
<1>2. FirstOf(ToTell(n)) \in ToTell(n) /\ \A j \in ToTell(n) : FirstOf(ToTell(n)) <= j
  BY <1>1, FirstOfLeast
<1>3. next[n] \in Nat /\ addr[n] \in [Routers -> Routers \cup {NULL}]
  BY DEF TypeOK
<1>4. \A i \in ToTell(n) :
         /\ i \in Routers \ {n} /\ i \in Nat /\ next[n] <= i /\ addr[n][i] # NULL
  BY <1>1, <1>3 DEF ToTell
<1> QED
  BY <1>2, <1>3, <1>4

LEMMA SendExchange ==
    ASSUME ExchangeInv, NEW n \in Routers, FloodSend(n)
    PROVE  ExchangeInv'
<1>0. PICK i \in Routers, to \in Routers :
        i = FirstOf(ToTell(n)) /\ to = addr[n][i]
  BY TellNext DEF FloodSend, ExchangeInv
<1> DEFINE d == [from |-> n, pkt |-> ownPkt[n]]
<1>1. /\ pc[n] = "flood" /\ ToTell(n) # {} /\ sendToNeighbor(n, to)
      /\ next' = [next EXCEPT ![n] = i + 1]
      /\ UNCHANGED <<pc, started, adjMatrix, addr, seqNum, numNeighbors, ownPkt,
                     rcvPkt, rcvdFrom, floodResult>>
  BY <1>0 DEF FloodSend, MayFlood
<1>2. /\ i \in Routers \ {n} /\ i \in Nat /\ i + 1 \in Nat
      /\ next[n] \in Nat /\ next[n] <= i
  BY <1>0, <1>1, TellNext DEF ExchangeInv
<1>3. Built(n) /\ TableIsFile(n) /\ ownPkt[n] = PacketOf(n)
  BY <1>1 DEF ExchangeInv, Reading, ReadingAt, Building
<1>5. inbox' = inbox \/ inbox' = [inbox EXCEPT ![to] = Append(inbox[to], d)]
  BY <1>1 DEF sendToNeighbor
<1>6. d \in Datagram
  <2>1. ownPkt[n] \in Packet
    BY <1>3, PacketTypes DEF ExchangeInv
  <2> QED
    BY <2>1 DEF Datagram
<1>7. /\ next'[n] = i + 1
      /\ \A r \in Routers : next'[r] \in Nat /\ next[r] <= next'[r]
  <2>1. next \in [Routers -> Nat]
    BY DEF ExchangeInv, TypeOK
  <2>2. ASSUME NEW r \in Routers, r # n PROVE next'[r] = next[r]
    BY <1>1, <2>1, <2>2
  <2>3. next'[n] = i + 1
    BY <1>1, <2>1
  <2> QED
    BY <1>2, <2>1, <2>2, <2>3
<1>8. /\ \A m, r \in Routers : Told(m, r) => Told(m, r)'
      /\ inbox' = inbox => Sending'
      /\ Receiving'
  <2>1. \A m \in Routers : Built(m) =>
              /\ Built(m)' /\ ownPkt'[m] = ownPkt[m]
              /\ next'[m] \in Nat /\ next[m] <= next'[m]
              /\ \A k \in Routers \ {m} : addr'[m][k] = addr[m][k]
    BY <1>1, <1>7 DEF Built
  <2> QED
    BY <1>1, <2>1, ExchangeKept
<1>9. Told(n, to)'
  <2>1. i < next'[n] /\ i \in Routers \ {n}
    BY <1>2, <1>7
  <2>2. addr'[n][i] = to /\ Built(n)'
    BY <1>0, <1>1, <1>3 DEF Built
  <2> QED
    BY <2>1, <2>2 DEF Told
<1> HIDE DEF d
<1>10. inbox' \in [Routers -> Seq(Datagram)]
       /\ \A r \in Routers : \A k \in DOMAIN inbox'[r] :
             \/ k \in DOMAIN inbox[r] /\ inbox'[r][k] = inbox[r][k]
             \/ r = to /\ inbox'[r][k] = d
  <2>1. \A r \in Routers : inbox[r] \in Seq(Datagram)
    BY DEF ExchangeInv, TypeOK
  <2> DEFINE s == inbox[to]
  <2>2. s \in Seq(Datagram)
    BY <2>1
  <2>3. /\ Append(s, d) \in Seq(Datagram)
        /\ \A k \in DOMAIN Append(s, d) :
              Append(s, d)[k] = d \/ (k \in DOMAIN s /\ Append(s, d)[k] = s[k])
    <3> HIDE DEF s
    <3> QED
      BY <1>6, <2>2, SeqEnds
  <2> QED
    BY <1>2, <1>5, <2>1, <2>3 DEF ExchangeInv, TypeOK
<1>11. TypeOK'
  <2>1. next' \in [Routers -> Nat]
    BY <1>1, <1>2 DEF ExchangeInv, TypeOK
  <2> QED
    BY <1>1, <1>10, <2>1 DEF ExchangeInv, TypeOK
<1>12. Reading' /\ Building'
  BY <1>1 DEF ExchangeInv, Reading, ReadingAt, TableIsFile, Building, Built,
              PacketOf, FileOf
<1>13. Flooding'
  BY <1>1 DEF ExchangeInv, TypeOK, Flooding, PastListening
<1>14. Sending'
  <2> SUFFICES ASSUME NEW r \in Routers, NEW k \in DOMAIN inbox'[r]
               PROVE  /\ Told(inbox[r][k].from, r)'
                      /\ (inbox[r][k].pkt = ownPkt[inbox[r][k].from])'
    BY DEF Sending
  <2>1. CASE k \in DOMAIN inbox[r] /\ inbox'[r][k] = inbox[r][k]
    <3>1. inbox[r][k].from \in Routers
      <4>1. inbox[r] \in Seq(Datagram)
        BY DEF ExchangeInv, TypeOK
      <4>2. inbox[r][k] \in Datagram
        BY <4>1, <2>1
      <4> QED
        BY <4>2 DEF Datagram
    <3>2. Told(inbox[r][k].from, r) /\ inbox[r][k].pkt = ownPkt[inbox[r][k].from]
      BY <2>1 DEF ExchangeInv, Sending
    <3> QED
      BY <1>1, <1>8, <2>1, <3>1, <3>2
  <2>2. CASE r = to /\ inbox'[r][k] = d
    <3>1. d.from = n /\ d.pkt = ownPkt[n]
      BY DEF d
    <3> QED
      BY <1>1, <1>9, <2>2, <3>1
  <2> QED
    BY <1>10, <2>1, <2>2
<1> QED
  BY <1>8, <1>11, <1>12, <1>13, <1>14 DEF ExchangeInv

LEMMA StepExchange == ExchangeInv /\ [Next]_vars => ExchangeInv'
<1> SUFFICES ASSUME ExchangeInv, [Next]_vars PROVE ExchangeInv'
  OBVIOUS
<1>1. ASSUME NEW n \in Routers, Router(n) PROVE ExchangeInv'
  BY <1>1, ArgsExchange, ParseExchange, BuildExchange, BindExchange, ReceiveExchange,
     NotHeardExchange, SendExchange, ReturnExchange
     DEF Router, RouterWorks, listenPacket, floodNeighbors
<1>2. CASE UNCHANGED vars
  <2>1. UNCHANGED <<pc, started, adjMatrix, addr, seqNum, numNeighbors, ownPkt,
                    inbox, rcvPkt, rcvdFrom, next, floodResult>>
    BY <1>2 DEF vars
  <2>2. TypeOK' /\ Reading'
    BY <2>1 DEF ExchangeInv, TypeOK, Reading, ReadingAt, TableIsFile, Built, FileOf
  <2>3. Building' /\ Flooding'
    BY <2>1 DEF ExchangeInv, Building, Built, PacketOf, FileOf, Flooding, PastListening
  <2>4. Sending' /\ Receiving'
    <3>1. \A m \in Routers : Built(m) =>
              /\ Built(m)' /\ ownPkt'[m] = ownPkt[m]
              /\ next'[m] \in Nat /\ next[m] <= next'[m]
              /\ \A i \in Routers \ {m} : addr'[m][i] = addr[m][i]
      BY <2>1 DEF Built, ExchangeInv, TypeOK
    <3> QED
      BY <2>1, <3>1, ExchangeKept
  <2> QED
    BY <2>2, <2>3, <2>4 DEF ExchangeInv
<1> QED
  BY <1>1, <1>2 DEF Next

-----------------------------------------------------------------------------
(***************************************************************************)
(* What follows for the packets that are heard.                            *)
(***************************************************************************)

\* What an address of a router's table says: the line of its file it comes from.
LEMMA AddressLine ==
    ASSUME NEW f \in Seq(Line), Clean(f), NEW i \in Routers, NEW to \in Routers,
           AtIn(f, i) = to
    PROVE  \E line \in Says(f) : line.at = to /\ line.label = i
<1>1. Naming(f, i) # {} /\ LastLine(f, i).at = to
  BY RouterNumbers DEF AtIn
<1> QED
  BY <1>1, SaysLastLines, LastLineNames

LEMMA LineAddress ==
    ASSUME NEW f \in Seq(Line), Clean(f), NEW line \in Says(f)
    PROVE  line.label \in Routers /\ line.at \in Routers /\ AtIn(f, line.label) = line.at
<1>1. /\ line.label \in Routers
      /\ Naming(f, line.label) # {} /\ line = LastLine(f, line.label)
  BY SaysLastLines
<1> QED
  BY <1>1, LastLineNames DEF AtIn

\* The table of a router that has built its packet.
LEMMA BuiltTable ==
    ASSUME ExchangeInv, NEW n \in Routers, Built(n)
    PROVE  /\ FileOf(n) \in Seq(Line) /\ Clean(FileOf(n))
           /\ adjMatrix[n] \in [Routers -> Int]
           /\ \A i \in Routers : adjMatrix[n][i] = WeightIn(FileOf(n), i)
           /\ \A i \in Routers \ {n} : addr[n][i] = AtIn(FileOf(n), i)
           /\ ownPkt[n] = PacketOf(n)
<1>1. TableIsFile(n) /\ ownPkt[n] = PacketOf(n)
  BY DEF ExchangeInv, Reading, ReadingAt, Building
<1>2. FileOf(n) # NULL
  BY <1>1 DEF TableIsFile, Clean
<1>3. FileOf(n) \in Seq(Line)
  BY <1>2, FileOfTypes DEF ExchangeInv
<1>4. adjMatrix[n] \in [Routers -> Int]
  BY DEF ExchangeInv, TypeOK
<1> QED
  BY <1>1, <1>3, <1>4 DEF TableIsFile

\* Who was told by m is whom a line of the file of m names.
LEMMA ToldByFile ==
    ASSUME ExchangeInv, NEW m \in Routers, NEW n \in Routers, Told(m, n)
    PROVE  \E line \in Says(FileOf(m)) : line.at = n /\ line.label # m
<1>1. Built(m)
  BY DEF Told
<1>2. PICK i \in Routers \ {m} : addr[m][i] = n
  BY DEF Told
<1>3. AtIn(FileOf(m), i) = n /\ FileOf(m) \in Seq(Line) /\ Clean(FileOf(m))
  BY <1>1, <1>2, BuiltTable
<1> QED
  BY <1>2, <1>3, AddressLine

LEMMA TrueHearing == ExchangeInv => HeardIsTrue
<1> SUFFICES ASSUME ExchangeInv, NEW n \in Routers, rcvPkt[n] # NULL
             PROVE  LET f == FileOf(Heard(n))
                        edges == rcvPkt[n].edges
                        written == {edges[k] : k \in DOMAIN edges} \ {Garbage}
                    IN  /\ Clean(f)
                        /\ \E line \in Says(f) : line.at = n /\ line.label # Heard(n)
                        /\ written = {LSEdge(line.weight, line.label) :
                                         line \in {l \in Says(f) : l.weight # INF}}
                        /\ rcvPkt[n].numNeighbors = Len(edges)
                        /\ OneLinePerLink(f) => Garbage \notin {edges[k] : k \in DOMAIN edges}
  BY DEF HeardIsTrue
<1>1. PICK m \in Routers : m = Heard(n) /\ Told(m, n) /\ rcvPkt[n] = ownPkt[m]
  BY DEF ExchangeInv, Receiving
<1>2. /\ FileOf(m) \in Seq(Line) /\ Clean(FileOf(m))
      /\ adjMatrix[m] \in [Routers -> Int]
      /\ \A i \in Routers : adjMatrix[m][i] = WeightIn(FileOf(m), i)
      /\ rcvPkt[n] = PacketOf(m)
  BY <1>1, BuiltTable DEF Told
<1> DEFINE f == FileOf(m)
           edges == LSEdges(adjMatrix[m], Len(f))
<1>3. rcvPkt[n].edges = edges /\ rcvPkt[n].numNeighbors = Len(f)
  BY <1>2 DEF PacketOf
<1>4. Len(edges) = Len(f)
  <2>1. Len(f) \in Nat
    BY <1>2
  <2> QED
    BY <1>2, <2>1, EdgesOfRow
<1>5. /\ {edges[k] : k \in DOMAIN edges} \ {Garbage} =
            {LSEdge(line.weight, line.label) : line \in {l \in Says(f) : l.weight # INF}}
      /\ OneLinePerLink(f) => Garbage \notin {edges[k] : k \in DOMAIN edges}
  BY <1>2, EdgesSay
<1>6. \E line \in Says(f) : line.at = n /\ line.label # m
  BY <1>1, ToldByFile
<1> HIDE DEF edges
<1> QED
  BY <1>1, <1>2, <1>3, <1>4, <1>5, <1>6

LEMMA TrueNaming == ExchangeInv => SenderIsNamed
<1> SUFFICES ASSUME ExchangeInv, NEW n \in Routers, rcvPkt[n] # NULL,
                    \A line \in Says(FileOf(n)) : line.label # n => line.at = line.label
             PROVE  rcvdFrom[n] =
                       IF \E line \in {l \in Says(FileOf(n)) : l.label # n} : line.at = Heard(n)
                       THEN Heard(n) ELSE NULL
  BY DEF SenderIsNamed
<1>1. PICK m \in Routers : m = Heard(n) /\ rcvdFrom[n] = portToNodeLabel(n, m) /\ Built(n)
  BY DEF ExchangeInv, Receiving
<1> DEFINE f == FileOf(n)
           fits == {i \in Routers \ {n} : addr[n][i] = m}
<1>2. /\ f \in Seq(Line) /\ Clean(f)
      /\ \A i \in Routers \ {n} : addr[n][i] = AtIn(f, i)
  BY <1>1, BuiltTable
<1> HIDE DEF f
<1>3. ASSUME NEW i \in fits
      PROVE  i = m /\ \E line \in {l \in Says(f) : l.label # n} : line.at = m
  <2>1. PICK line \in Says(f) : line.at = m /\ line.label = i
    BY <1>2, AddressLine
  <2> QED
    BY <2>1 DEF f
<1>4. ASSUME NEW line \in Says(f), line.label # n, line.at = m
      PROVE  fits = {m}
  <2>1. line.label = m
    BY <1>4 DEF f
  <2>2. addr[n][m] = m
    BY <1>2, <1>4, <2>1, LineAddress
  <2> QED
    BY <1>3, <1>4, <2>1, <2>2
<1>5. CASE fits = {}
  <2>1. rcvdFrom[n] = NULL
    BY <1>1, <1>5 DEF portToNodeLabel
  <2> QED
    BY <1>1, <1>4, <1>5, <2>1 DEF f
<1>6. CASE fits # {}
  <2>1. fits = {m}
    BY <1>3, <1>6
  <2>2. FirstOf({m}) = m
    BY DEF FirstOf
  <2>3. rcvdFrom[n] = m
    BY <1>1, <2>1, <2>2 DEF portToNodeLabel
  <2> QED
    BY <1>1, <1>3, <1>6, <2>3 DEF f
<1> QED
  BY <1>5, <1>6

\* Every table, packet and inbox keeps its type, a packet whose header promises
\* more edges than were written included (node.c:184, 200-211).
THEOREM LinkTypes == Spec => []TypeOK
<1>1. ExchangeInv => TypeOK
  BY DEF ExchangeInv
<1> QED
  BY <1>1, InitExchange, StepExchange, PTL DEF Spec

\* For all files, however many lines of one router they have: what a router has
\* received is what the file of the packet's source says, and no line is told
\* that stands before a faulty one (node.c:150-184, 200-211, 235-246, 287).
THEOREM WhatIsHeardIsTrue == Spec => []HeardIsTrue
BY InitExchange, StepExchange, TrueHearing, PTL DEF Spec

\* The label found for the address of a packet is the source's own, where the
\* file gives each router its own address (node.c:295, 300-318).
THEOREM SendersAreNamed == Spec => []SenderIsNamed
BY InitExchange, StepExchange, TrueNaming, PTL DEF Spec

-----------------------------------------------------------------------------
(***************************************************************************)
(* The routers implement LinkStateExchange.                                *)
(***************************************************************************)

\* Whom a clean file tells a router to inform are routers.
LEMMA LinksAreRouters ==
    ASSUME NEW n \in Routers, \E s \in StartedWith[n] : FileOf(n) = s.file
    PROVE  LinksOf(n) \in SUBSET Routers
<1>1. CASE ~Clean(FileOf(n))
  BY <1>1 DEF LinksOf
<1>2. CASE Clean(FileOf(n))
  <2>1. FileOf(n) \in Seq(Line)
    BY <1>2, FileTypes DEF Clean
  <2>2. \A line \in Says(FileOf(n)) : line.at \in Routers
    BY <1>2, <2>1, LineAddress
  <2> QED
    BY <1>2, <2>2 DEF LinksOf
<1> QED
  BY <1>1, <1>2

LEMMA ExchangeStarts == Init => Exchange!Init
<1> SUFFICES ASSUME Init PROVE Exchange!Init
  OBVIOUS
<1>1. ASSUME NEW n \in Routers
      PROVE  /\ LinksOf(n) \in SUBSET Routers /\ HeardBy(n) = NULL
             /\ ToldBy(n) = {} /\ Outcome(n) = "pending"
  <2>1. LinksOf(n) \in SUBSET Routers
    BY LinksAreRouters DEF Init, FileOf
  <2>2. HeardBy(n) = NULL
    BY DEF Init, HeardBy
  <2>3. ToldBy(n) = {}
    BY DEF Init, ToldBy
  <2>4. Outcome(n) = "pending"
    BY RouterNumbers DEF Init, Outcome
  <2> QED
    BY <2>1, <2>2, <2>3, <2>4
<1> QED
  BY <1>1 DEF Exchange!Init

\* A step of one router leaves what the others promise alone.
OnlyMoves(n) ==
    /\ started' = started
    /\ \A r \in Routers \ {n} :
          /\ pc'[r] = pc[r] /\ addr'[r] = addr[r] /\ next'[r] = next[r]
          /\ rcvPkt'[r] = rcvPkt[r] /\ floodResult'[r] = floodResult[r]

LEMMA OthersKept ==
    ASSUME NEW n \in Routers, OnlyMoves(n)
    PROVE  /\ [r \in Routers |-> LinksOf(r)]' = [r \in Routers |-> LinksOf(r)]
           /\ \A r \in Routers \ {n} :
                 /\ HeardBy(r)' = HeardBy(r) /\ ToldBy(r)' = ToldBy(r)
                 /\ Outcome(r)' = Outcome(r)
<1>1. [r \in Routers |-> LinksOf(r)]' = [r \in Routers |-> LinksOf(r)]
  BY DEF OnlyMoves, LinksOf, FileOf
<1>2. ASSUME NEW r \in Routers \ {n}
      PROVE  /\ HeardBy(r)' = HeardBy(r) /\ ToldBy(r)' = ToldBy(r)
             /\ Outcome(r)' = Outcome(r)
  BY DEF OnlyMoves, HeardBy, Heard, ToldBy, Outcome
<1> QED
  BY <1>1, <1>2

\* What a router that hears nobody and tells nobody does: nothing, or it gives up.
LEMMA QuietMove ==
    ASSUME NEW n \in Routers, OnlyMoves(n),
           HeardBy(n)' = HeardBy(n), ToldBy(n)' = ToldBy(n),
           \/ Outcome(n)' = Outcome(n)
           \/ Outcome(n) = "pending" /\ Outcome(n)' = "cut"
    PROVE  [Exchange!Next]_(Exchange!vars)
<1> DEFINE links == [r \in Routers |-> LinksOf(r)]
           heard == [r \in Routers |-> HeardBy(r)]
           told  == [r \in Routers |-> ToldBy(r)]
           outcome == [r \in Routers |-> Outcome(r)]
<1>1. links' = links /\ heard' = heard /\ told' = told
  BY OthersKept
<1>2. CASE Outcome(n)' = Outcome(n)
  <2>1. outcome' = outcome
    BY <1>2, OthersKept
  <2> QED
    BY <1>1, <2>1 DEF Exchange!vars
<1>3. CASE Outcome(n) = "pending" /\ Outcome(n)' = "cut"
  <2>1. outcome[n] = "pending" /\ outcome' = [outcome EXCEPT ![n] = "cut"]
    BY <1>3, OthersKept
  <2>2. Exchange!GiveUp(n)
    BY <1>1, <2>1 DEF Exchange!GiveUp
  <2> QED
    BY <2>2 DEF Exchange!Next
<1> QED
  BY <1>2, <1>3

\* Before a router has returned from floodNeighbors nobody can tell how it ends.
LEMMA Pending ==
    ASSUME ExchangeInv, NEW n \in Routers, pc[n] # "done"
    PROVE  floodResult[n] = NULL /\ Outcome(n) = "pending"
<1>1. floodResult[n] = NULL
  BY DEF ExchangeInv, Flooding
<1> QED
  BY <1>1, RouterNumbers DEF Outcome

\* The steps before the flood that hear nobody: at most the router gives up.
LEMMA BeforeFlood ==
    ASSUME ExchangeInv, NEW n \in Routers, OnlyMoves(n),
           pc[n] \in {"args", "parse", "build", "bind", "listen"},
           rcvPkt'[n] = rcvPkt[n], next'[n] = next[n],
           floodResult'[n] = floodResult[n]
    PROVE  [Exchange!Next]_(Exchange!vars)
<1>1. next[n] = 0 /\ Outcome(n) = "pending" /\ floodResult[n] = NULL
  BY Pending DEF ExchangeInv, Flooding, PastListening
<1>2. HeardBy(n)' = HeardBy(n)
  BY DEF HeardBy, Heard
<1>3. \A i \in Routers : ~(i < 0)
  BY RouterNumbers
<1>4. ToldBy(n) = {} /\ ToldBy(n)' = {}
  BY <1>1, <1>3 DEF ToldBy
<1>5. Outcome(n)' \in {"pending", "cut"}
  BY <1>1, RouterNumbers DEF Outcome
<1> QED
  BY <1>1, <1>2, <1>4, <1>5, QuietMove

LEMMA HearingMove ==
    ASSUME ExchangeInv, NEW n \in Routers, ListenReceive(n), OnlyMoves(n)
    PROVE  [Exchange!Next]_(Exchange!vars)
<1> DEFINE links == [r \in Routers |-> LinksOf(r)]
           heard == [r \in Routers |-> HeardBy(r)]
           told  == [r \in Routers |-> ToldBy(r)]
           outcome == [r \in Routers |-> Outcome(r)]
<1>1. PICK m \in Routers :
        /\ Told(m, n) /\ rcvPkt'[n] = ownPkt[m] /\ ownPkt[m].sourceLabel = m
  <2>1. /\ Head(inbox[n]) \in Datagram /\ 1 \in DOMAIN inbox[n]
        /\ Head(inbox[n]) = inbox[n][1]
    <3>1. inbox[n] \in Seq(Datagram) /\ inbox[n] # << >>
      BY DEF ExchangeInv, TypeOK, ListenReceive
    <3> QED
      BY <3>1, SeqEnds
  <2>2. PICK m \in Routers : m = Head(inbox[n]).from
    BY <2>1 DEF Datagram
  <2>3. Told(m, n) /\ Head(inbox[n]).pkt = ownPkt[m]
    BY <2>1, <2>2 DEF ExchangeInv, Sending
  <2>4. ownPkt[m] = PacketOf(m)
    BY <2>3 DEF Told, ExchangeInv, Building
  <2>5. rcvPkt'[n] = Head(inbox[n]).pkt
    BY DEF ListenReceive, ExchangeInv, TypeOK
  <2> QED
    BY <2>3, <2>4, <2>5 DEF PacketOf
<1>2. /\ pc[n] = "listen" /\ pc'[n] = "flood"
      /\ UNCHANGED <<addr, next, floodResult>>
  BY DEF ListenReceive, Goto, ExchangeInv, TypeOK
<1>3. rcvPkt[n] = NULL /\ next[n] = 0 /\ floodResult[n] = NULL /\ Outcome(n) = "pending"
  BY <1>2, Pending DEF ExchangeInv, Flooding, PastListening
<1>4. HeardBy(n) = NULL /\ HeardBy(n)' \in {NULL, m}
  BY <1>1, <1>3 DEF HeardBy, Heard
<1>5. ToldBy(n) = {} /\ ToldBy(n)' = ToldBy(n)
  <2>1. \A i \in Routers : ~(i < 0)
    BY RouterNumbers
  <2> QED
    BY <1>2, <1>3, <2>1 DEF ToldBy
<1>6. Outcome(n)' = "pending"
  BY <1>2, <1>3, RouterNumbers DEF Outcome
<1>7. n \in ToldBy(m)
  BY <1>1, RouterNumbers DEF Told, ToldBy
<1>8. CASE HeardBy(n)' = NULL
  BY <1>3, <1>4, <1>5, <1>6, <1>8, QuietMove
<1>9. CASE HeardBy(n)' = m
  <2>1. links' = links /\ told' = told /\ outcome' = outcome
    BY <1>3, <1>5, <1>6, OthersKept
  <2>2. heard' = [heard EXCEPT ![n] = m] /\ heard[n] = NULL
    BY <1>4, <1>9, OthersKept
  <2>3. told[n] = {} /\ outcome[n] = "pending" /\ n \in told[m]
    BY <1>3, <1>5, <1>7
  <2>4. Exchange!Hear(n, m)
    BY <2>1, <2>2, <2>3 DEF Exchange!Hear
  <2> QED
    BY <2>4 DEF Exchange!Next
<1> QED
  BY <1>4, <1>8, <1>9

LEMMA TellingMove ==
    ASSUME ExchangeInv, NEW n \in Routers, FloodSend(n), OnlyMoves(n)
    PROVE  [Exchange!Next]_(Exchange!vars)
<1> DEFINE links == [r \in Routers |-> LinksOf(r)]
           heard == [r \in Routers |-> HeardBy(r)]
           told  == [r \in Routers |-> ToldBy(r)]
           outcome == [r \in Routers |-> Outcome(r)]
<1>1. PICK i \in Routers \ {n}, to \in Routers :
        /\ i = FirstOf(ToTell(n)) /\ to = addr[n][i] /\ next[n] <= i
        /\ \A j \in ToTell(n) : i <= j
  BY TellNext DEF FloodSend, ExchangeInv
<1>2. /\ pc[n] = "flood" /\ next'[n] = i + 1
      /\ UNCHANGED <<pc, addr, rcvPkt, floodResult>>
  BY <1>1 DEF FloodSend, MayFlood, ExchangeInv, TypeOK
<1>3. HeardBy(n)' = HeardBy(n) /\ Outcome(n)' = Outcome(n) /\ Outcome(n) = "pending"
  BY <1>2, Pending DEF HeardBy, Heard, Outcome
<1>4. ToldBy(n)' = ToldBy(n) \cup {to}
  <2>1. next[n] \in Nat /\ Routers \subseteq Nat
    BY RouterNumbers DEF ExchangeInv, TypeOK
  <2>2. ASSUME NEW j \in Routers \ {n}, addr[n][j] # NULL
        PROVE  j < i + 1 <=> j < next[n] \/ j = i
    <3>1. j < next[n] \/ i <= j
      BY <1>1, <2>1, <2>2 DEF ToTell
    <3> QED
      BY <1>1, <2>1, <3>1
  <2>3. addr[n][i] # NULL
    BY <1>1, RouterNumbers
  <2> QED
    BY <1>1, <1>2, <2>2, <2>3 DEF ToldBy
<1>5. to \in LinksOf(n)
  <2>1. Built(n)
    BY <1>2 DEF ExchangeInv, Reading, ReadingAt
  <2>2. /\ FileOf(n) \in Seq(Line) /\ Clean(FileOf(n))
        /\ AtIn(FileOf(n), i) = to
    BY <1>1, <2>1, BuiltTable
  <2>3. \E line \in Says(FileOf(n)) : line.at = to /\ line.label = i
    BY <2>2, AddressLine
  <2> QED
    BY <2>2, <2>3 DEF LinksOf
<1>6. links' = links /\ heard' = heard /\ outcome' = outcome
  BY <1>3, OthersKept
<1>7. told' = [told EXCEPT ![n] = ToldBy(n) \cup {to}]
  BY <1>4, OthersKept
<1>8. CASE to \in ToldBy(n)
  BY <1>3, <1>4, <1>8, QuietMove
<1>9. CASE to \notin ToldBy(n)
  <2>1. outcome[n] = "pending" /\ to \in links[n] \ told[n]
    BY <1>3, <1>5, <1>9
  <2>2. Exchange!Tell(n, to)
    BY <1>6, <1>7, <2>1 DEF Exchange!Tell
  <2> QED
    BY <2>2 DEF Exchange!Next
<1> QED
  BY <1>8, <1>9

LEMMA ReturningMove ==
    ASSUME ExchangeInv, NEW n \in Routers, FloodReturn(n), OnlyMoves(n)
    PROVE  [Exchange!Next]_(Exchange!vars)
<1> DEFINE links == [r \in Routers |-> LinksOf(r)]
           heard == [r \in Routers |-> HeardBy(r)]
           told  == [r \in Routers |-> ToldBy(r)]
           outcome == [r \in Routers |-> Outcome(r)]
<1>1. /\ pc[n] = "flood" /\ pc'[n] = "done"
      /\ \/ ToTell(n) = {} /\ floodResult'[n] = 0
         \/ floodResult'[n] = -1
      /\ UNCHANGED <<addr, rcvPkt, next>>
  BY DEF FloodReturn, Goto, ExchangeInv, TypeOK
<1>2. /\ HeardBy(n)' = HeardBy(n) /\ ToldBy(n)' = ToldBy(n) /\ Outcome(n) = "pending"
  BY <1>1, Pending DEF HeardBy, Heard, ToldBy
<1>3. CASE floodResult'[n] = -1
  <2>1. Outcome(n)' = "cut"
    BY <1>1, <1>3 DEF Outcome
  <2> QED
    BY <1>2, <2>1, QuietMove
<1>4. CASE ToTell(n) = {} /\ floodResult'[n] = 0
  <2>1. Outcome(n)' = "complete"
    BY <1>4 DEF Outcome
  <2>2. Built(n)
    BY <1>1 DEF ExchangeInv, Reading, ReadingAt
  <2>3. /\ FileOf(n) \in Seq(Line) /\ Clean(FileOf(n))
        /\ \A i \in Routers \ {n} : addr[n][i] = AtIn(FileOf(n), i)
    BY <2>2, BuiltTable
  <2>4. \A i \in Routers \ {n} : addr[n][i] # NULL => i < next[n]
    <3>1. next[n] \in Nat /\ Routers \subseteq Nat
      BY RouterNumbers DEF ExchangeInv, TypeOK
    <3>2. \A i \in Routers : i \notin ToTell(n)
      BY <1>4
    <3> QED
      BY <3>1, <3>2 DEF ToTell
  <2>5. ASSUME NEW to \in ToldBy(n)
        PROVE  to \in LinksOf(n)
    <3>1. PICK i \in Routers \ {n} : addr[n][i] = to /\ to # NULL
      BY DEF ToldBy
    <3>2. to \in Routers
      BY <3>1 DEF ExchangeInv, TypeOK
    <3>3. \E line \in Says(FileOf(n)) : line.at = to /\ line.label = i
      BY <2>3, <3>1, <3>2, AddressLine
    <3> QED
      BY <2>3, <3>3 DEF LinksOf
  <2>6. ASSUME NEW to \in LinksOf(n)
        PROVE  to \in ToldBy(n)
    <3>1. PICK line \in Says(FileOf(n)) : line.label # n /\ to = line.at
      BY <2>3 DEF LinksOf
    <3>2. /\ line.label \in Routers \ {n} /\ to \in Routers
          /\ addr[n][line.label] = to
      BY <2>3, <3>1, LineAddress
    <3>3. to # NULL
      BY <3>2, RouterNumbers
    <3> QED
      BY <2>4, <3>2, <3>3 DEF ToldBy
  <2>7. links' = links /\ heard' = heard /\ told' = told
    BY <1>2, OthersKept
  <2>8. outcome' = [outcome EXCEPT ![n] = "complete"]
    BY <2>1, OthersKept
  <2>9. outcome[n] = "pending" /\ told[n] = links[n]
    BY <1>2, <2>5, <2>6
  <2>10. Exchange!Complete(n)
    BY <2>7, <2>8, <2>9 DEF Exchange!Complete
  <2> QED
    BY <2>10 DEF Exchange!Next
<1> QED
  BY <1>1, <1>3, <1>4

LEMMA StepIsExchange ==
    ExchangeInv /\ [Next]_vars => [Exchange!Next]_(Exchange!vars)
<1> SUFFICES ASSUME ExchangeInv, [Next]_vars PROVE [Exchange!Next]_(Exchange!vars)
  OBVIOUS
<1>1. ASSUME NEW n \in Routers, Router(n)
      PROVE  [Exchange!Next]_(Exchange!vars)
  <2>1. OnlyMoves(n)
    BY <1>1 DEF Router, RouterWorks, confirmArgs, parseNeighborFile, buildLSPacket,
                configureHostInfo, listenPacket, ListenReceive, ListenTimeout,
                ListenError, floodNeighbors, FloodSend, FloodReturn, Goto,
                OnlyMoves, ExchangeInv, TypeOK
  <2>2. CASE confirmArgs(n) \/ parseNeighborFile(n) \/ buildLSPacket(n)
             \/ configureHostInfo(n)
    BY <2>1, <2>2, BeforeFlood
       DEF confirmArgs, parseNeighborFile, buildLSPacket, configureHostInfo
  <2>3. CASE ListenTimeout(n) \/ ListenError(n)
    BY <2>1, <2>3, BeforeFlood DEF ListenTimeout, ListenError
  <2>4. CASE ListenReceive(n)
    BY <2>1, <2>4, HearingMove
  <2>5. CASE FloodSend(n)
    BY <2>1, <2>5, TellingMove
  <2>6. CASE FloodReturn(n)
    BY <2>1, <2>6, ReturningMove
  <2> QED
    BY <1>1, <2>2, <2>3, <2>4, <2>5, <2>6
       DEF Router, RouterWorks, listenPacket, floodNeighbors
<1>2. CASE UNCHANGED vars
  BY <1>2 DEF vars, Exchange!vars, LinksOf, FileOf, HeardBy, Heard, ToldBy, Outcome
<1> QED
  BY <1>1, <1>2 DEF Next

\* What the routers do with their sockets, packets and tables is what
\* LinkStateExchange allows: each tells the routers its file links it to, and
\* reports a complete flood only if all of them were told (node.c:228-251).
THEOREM ExchangeImplemented == Spec => ImplementsExchange
BY ExchangeStarts, InitExchange, StepExchange, StepIsExchange, PTL
   DEF Spec, ImplementsExchange, Exchange!Spec

(***************************************************************************)
(* What PathTrials tries on a few routers and weights holds for every      *)
(* number of routers and every set of weights: its matrices are among      *)
(* those of DijkstraProofs.                                                *)
(***************************************************************************)

Proved == INSTANCE DijkstraProofs WITH NumRouters <- MatrixSize

\* The two instances of Dijkstra, Paths and Proved, define the same.
LEMMA SameDistances ==
    ASSUME NEW M, NEW s
    PROVE  Paths!DistancesRight(M, s) <=> Proved!DistancesRight(M, s)
BY Zenon DEF Proved!DistancesRight, Paths!DistancesRight, Proved!dijkstra, Paths!dijkstra,
   Proved!Cost, Paths!Cost, Proved!Nodes, Paths!Nodes, Proved!Rounds, Paths!Rounds,
   Proved!Round, Paths!Round, Proved!Relax, Paths!Relax, Proved!Closest, Paths!Closest,
   Proved!Candidates, Paths!Candidates, Proved!Initialised, Paths!Initialised,
   Proved!Least, Paths!Least, Proved!Plus, Paths!Plus

LEMMA SameForwards ==
    ASSUME NEW M, NEW s
    PROVE  Paths!ForwardsOnCheapestPath(M, s) <=> Proved!ForwardsOnCheapestPath(M, s)
BY Zenon DEF Proved!ForwardsOnCheapestPath, Paths!ForwardsOnCheapestPath,
   Proved!NextStep, Paths!NextStep, Proved!dijkstra, Paths!dijkstra,
   Proved!Cost, Paths!Cost, Proved!Nodes, Paths!Nodes, Proved!Rounds, Paths!Rounds,
   Proved!Round, Paths!Round, Proved!Relax, Paths!Relax, Proved!Closest, Paths!Closest,
   Proved!Candidates, Paths!Candidates, Proved!Initialised, Paths!Initialised,
   Proved!Least, Paths!Least, Proved!Plus, Paths!Plus

LEMMA CasesAreWeighted ==
    ASSUME NEW c \in LinkedCases
    PROVE  /\ Proved!Sizes /\ Proved!Weighted(c[1])
           /\ c[2] \in Proved!Nodes /\ Proved!StartLinked(c[1], c[2])
<1>1. Proved!Sizes
  BY PathAssumption DEF Proved!Sizes
<1>2. c \in Cases /\ Paths!StartLinked(c[1], c[2])
  BY DEF LinkedCases
<1>3. PICK w \in [Pairs -> Weights], back \in {0, 3}, s \in Paths!Nodes :
        c = <<Matrix(w, back), s>>
  BY <1>2 DEF Cases
<1>4. ASSUME NEW i \in Paths!Nodes, NEW j \in Paths!Nodes
      PROVE  Matrix(w, back)[i][j] \in Nat
  <2>1. i \in Int /\ j \in Int /\ back \in Nat
    BY DEF Paths!Nodes
  <2>2. i < j => w[<<i, j>>] \in Nat
    BY PathAssumption DEF Pairs
  <2>3. j < i => w[<<j, i>>] \in Nat
    BY PathAssumption DEF Pairs
  <2>4. j < i => w[<<j, i>>] + back \in Nat
    BY <2>1, <2>3
  <2> QED
    BY <2>1, <2>2, <2>4, PathAssumption DEF Matrix
<1>5. Paths!Nodes = Proved!Nodes
  BY DEF Paths!Nodes, Proved!Nodes
<1>6. Matrix(w, back) =
        [i \in Paths!Nodes |-> [j \in Paths!Nodes |-> Matrix(w, back)[i][j]]]
  BY DEF Matrix
<1>7. Proved!Weighted(Matrix(w, back))
  BY <1>4, <1>5, <1>6 DEF Proved!Weighted
<1>8. Proved!StartLinked(c[1], c[2])
  BY <1>2, <1>5 DEF Paths!StartLinked, Proved!StartLinked
<1> QED
  BY <1>1, <1>3, <1>5, <1>7, <1>8

\* For any number of routers, and links of any weights, the same there and back
\* or 3 more on the way back, dijkstra's distances are those of the cheapest
\* paths (dijkstra.c:104-135).
THEOREM DistancesAreThoseOfCheapestPaths == Spec => []DijkstraDistancesRight
<1>1. ASSUME NEW c \in LinkedCases PROVE Paths!DistancesRight(c[1], c[2])
  <2>1. Proved!DistancesRight(c[1], c[2])
    BY CasesAreWeighted, Proved!DistancesAreRight
  <2> QED
    BY <2>1, SameDistances
<1>2. DijkstraDistancesRight
  BY <1>1 DEF DijkstraDistancesRight
<1> QED
  BY <1>2, PTL

\* ... and what its table names is the first router of a cheapest path
\* (dijkstra.c:137-147).
THEOREM TableIsRight == Spec => []DijkstraForwardsRight
<1>1. ASSUME NEW c \in LinkedCases PROVE Paths!ForwardsOnCheapestPath(c[1], c[2])
  <2>1. Proved!ForwardsOnCheapestPath(c[1], c[2])
    BY CasesAreWeighted, Proved!ForwardsAreRight
  <2> QED
    BY <2>1, SameForwards
<1>2. DijkstraForwardsRight
  BY <1>1 DEF DijkstraForwardsRight
<1> QED
  BY <1>2, PTL

=============================================================================
