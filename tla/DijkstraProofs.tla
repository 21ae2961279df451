--------------------------- MODULE DijkstraProofs ----------------------------
(***************************************************************************)
(* On every matrix of links that weigh at least 0, and from every router   *)
(* that has a link: dijkstra's distances are the costs of the cheapest     *)
(* paths, and its table names the first router of one.                     *)
(*                                                                         *)
(* Closing: no link from a visited router offers a shorter way, and the    *)
(* visited ones are the closest.  Progress: each round visits one more.    *)
(* Sound: no distance is below the cost of some path.  Tree: previous      *)
(* leads up to the start, one level at a time.  Each round keeps all four. *)
(***************************************************************************)
EXTENDS Dijkstra, OrderedProofs, TLAPS

Sizes == NumRouters \in Nat \ {0} /\ INF \in Nat
Weighted(M) == M \in [Nodes -> [Nodes -> Nat]]

(***************************************************************************)
(* The states between the rounds.                                          *)
(***************************************************************************)
State == [distance : [Nodes -> Nat], previous : [Nodes -> Nodes],
          visited : SUBSET Nodes, nextnode : Nodes]

LEMMA ClosestIs ==
    ASSUME Sizes, NEW st \in State, Candidates(st) # {}
    PROVE  /\ Closest(st) \in Nodes \ st.visited
           /\ st.distance[Closest(st)] < INF
           /\ \A j \in Nodes \ st.visited : st.distance[Closest(st)] <= st.distance[j]
<1> DEFINE C == Candidates(st)
           d == st.distance
           Values == {d[i] : i \in C}
<1>1. C \in SUBSET Nodes /\ d \in [Nodes -> Nat] /\ Nodes \in SUBSET Nat
  <2>1. d \in [Nodes -> Nat]
    BY DEF State
  <2>2. C \in SUBSET Nodes
    BY DEF Candidates
  <2>3. Nodes \in SUBSET Nat
    BY DEF Nodes, Sizes
  <2> QED
    BY <2>1, <2>2, <2>3
<1> HIDE DEF d, C
<1>2. PICK least \in Values : \A v \in Values : least <= v
  <2>1. Values \in SUBSET Nat /\ Values # {}
    BY <1>1 DEF C
  <2> HIDE DEF Values
  <2> QED
    BY <2>1, LeastExists
<1> DEFINE Nearest == {i \in C : d[i] = least}
<1>3. PICK i \in Nearest : \A j \in Nearest : i <= j
  <2>1. Nearest \in SUBSET Nat /\ Nearest # {}
    BY <1>1, <1>2
  <2> HIDE DEF Nearest
  <2> QED
    BY <2>1, LeastExists
<1>4. i \in C /\ \A j \in C : d[i] < d[j] \/ (d[i] = d[j] /\ i <= j)
  <2> SUFFICES ASSUME NEW j \in C PROVE d[i] < d[j] \/ (d[i] = d[j] /\ i <= j)
    BY <1>3
  <2>1. d[i] = least /\ least <= d[j] /\ d[i] \in Nat /\ d[j] \in Nat
    BY <1>1, <1>2, <1>3
  <2> QED
    BY <1>3, <2>1
<1>5. /\ Closest(st) \in C
      /\ \A j \in C : d[Closest(st)] < d[j] \/ (d[Closest(st)] = d[j] /\ Closest(st) <= j)
  BY <1>4 DEF Closest, C, d
<1> DEFINE c == Closest(st)
<1> HIDE DEF c
<1>6. c \in C /\ \A j \in C : d[c] < d[j] \/ (d[c] = d[j] /\ c <= j)
  BY <1>5 DEF c
<1>7. c \in Nodes \ st.visited /\ d[c] < INF
  BY <1>6 DEF C, Candidates, d
<1>8. ASSUME NEW j \in Nodes \ st.visited PROVE d[c] <= d[j]
  <2>1. d[c] \in Nat /\ d[j] \in Nat /\ INF \in Nat
    BY <1>1, <1>7 DEF Sizes
  <2>2. CASE j \in C
    BY <1>6, <2>1, <2>2
  <2>3. CASE j \notin C
    <3>1. ~(d[j] < INF)
      BY <2>3 DEF C, Candidates, d
    <3> QED
      BY <1>7, <2>1, <3>1
  <2> QED
    BY <2>2, <2>3
<1> QED
  BY <1>7, <1>8 DEF c, d


\* What a pass over the unvisited nodes, and what a round changes.
LEMMA RelaxEffect ==
    ASSUME Sizes, NEW M, Weighted(M), NEW st \in State, NEW minDist \in Nat, NEW u \in Nodes
    PROVE  LET r == Relax(M, st, minDist, u)
               better == {i \in Nodes \ st.visited : minDist + M[u][i] < st.distance[i]}
           IN  /\ r \in State
               /\ r.visited = st.visited /\ r.nextnode = st.nextnode
               /\ \A i \in better : r.distance[i] = minDist + M[u][i] /\ r.previous[i] = u
               /\ \A i \in Nodes \ better :
                     r.distance[i] = st.distance[i] /\ r.previous[i] = st.previous[i]
<1> DEFINE better == {i \in Nodes \ st.visited : minDist + M[u][i] < st.distance[i]}
           dist == [i \in Nodes |-> IF i \in better THEN minDist + M[u][i] ELSE st.distance[i]]
           prev == [i \in Nodes |-> IF i \in better THEN u ELSE st.previous[i]]
           r == Relax(M, st, minDist, u)
<1>1. \A i \in Nodes : M[u][i] \in Nat /\ st.distance[i] \in Nat /\ st.previous[i] \in Nodes
  <2>1. \A i \in Nodes : M[u][i] \in Nat
    BY DEF Weighted
  <2>2. st.distance \in [Nodes -> Nat] /\ st.previous \in [Nodes -> Nodes]
    BY DEF State
  <2> QED
    BY <2>1, <2>2
<1>2. dist \in [Nodes -> Nat] /\ prev \in [Nodes -> Nodes]
  BY <1>1
<1>3. r = [st EXCEPT !.distance = dist, !.previous = prev]
  BY DEF Relax
<1> HIDE DEF dist, prev
<1>4. r \in State /\ r.visited = st.visited /\ r.nextnode = st.nextnode
      /\ r.distance = dist /\ r.previous = prev
  BY <1>2, <1>3 DEF State
<1> QED
  BY <1>4 DEF dist, prev

LEMMA Marked ==
    ASSUME NEW st \in State, NEW u \in Nodes
    PROVE  LET r == [st EXCEPT !.visited = @ \cup {u}, !.nextnode = u]
           IN  /\ r \in State /\ r.visited = st.visited \cup {u} /\ r.nextnode = u
               /\ r.distance = st.distance /\ r.previous = st.previous
<1>1. st.visited \cup {u} \in SUBSET Nodes
  BY DEF State
<1> QED
  BY <1>1 DEF State

LEMMA RoundEffect ==
    ASSUME Sizes, NEW M, Weighted(M), NEW st \in State
    PROVE  LET r == Round(M, st)
               none == Candidates(st) = {}
               u == IF none THEN st.nextnode ELSE Closest(st)
               minDist == IF none THEN INF ELSE st.distance[u]
               better == {i \in Nodes \ (st.visited \cup {u}) :
                             minDist + M[u][i] < st.distance[i]}
           IN  /\ r \in State /\ u \in Nodes /\ minDist \in Nat
               /\ r.visited = st.visited \cup {u} /\ r.nextnode = u
               /\ \A i \in better : r.distance[i] = minDist + M[u][i] /\ r.previous[i] = u
               /\ \A i \in Nodes \ better :
                     r.distance[i] = st.distance[i] /\ r.previous[i] = st.previous[i]
<1> DEFINE none == Candidates(st) = {}
           u == IF none THEN st.nextnode ELSE Closest(st)
           minDist == IF none THEN INF ELSE st.distance[u]
           marked == [st EXCEPT !.visited = @ \cup {u}, !.nextnode = u]
<1>1. u \in Nodes
  BY ClosestIs DEF State
<1>2. minDist \in Nat
  BY <1>1 DEF Sizes, State
<1>3. Round(M, st) = Relax(M, marked, minDist, u)
  BY DEF Round
<1> HIDE DEF u, minDist
<1>4. /\ marked \in State /\ marked.visited = st.visited \cup {u} /\ marked.nextnode = u
      /\ marked.distance = st.distance /\ marked.previous = st.previous
  BY <1>1, Marked
<1> HIDE DEF marked
<1> DEFINE r == Relax(M, marked, minDist, u)
           better == {i \in Nodes \ marked.visited : minDist + M[u][i] < marked.distance[i]}
<1>5. /\ r \in State
      /\ r.visited = marked.visited /\ r.nextnode = marked.nextnode
      /\ \A i \in better : r.distance[i] = minDist + M[u][i] /\ r.previous[i] = u
      /\ \A i \in Nodes \ better :
            r.distance[i] = marked.distance[i] /\ r.previous[i] = marked.previous[i]
  BY <1>1, <1>2, <1>4, RelaxEffect
<1> HIDE DEF r
<1>6. better = {i \in Nodes \ (st.visited \cup {u}) : minDist + M[u][i] < st.distance[i]}
  BY <1>4
<1> HIDE DEF better
<1> QED
  BY <1>1, <1>2, <1>3, <1>4, <1>5, <1>6 DEF u, minDist, r


\* What holds after every round: the visited nodes are the closest ones, and no
\* link from one of them offers a shorter way.
Closing(M, s, st) ==
    LET d == st.distance
        V == st.visited
    IN  /\ st \in State
        /\ s \in V /\ st.nextnode \in V /\ d[s] = 0
        /\ \A v \in V : d[v] < INF
        /\ \A v \in V, j \in Nodes \ V : d[v] <= d[j]
        /\ \A v \in V, i \in Nodes : d[i] <= d[v] + M[v][i]

\* The visited nodes are one more after each round, while any is in reach.
Progress(st, k) ==
    Candidates(st) = {} \/ (IsFiniteSet(st.visited) /\ Cardinality(st.visited) = k + 1)

LEMMA Linked ==
    ASSUME Sizes, NEW M, Weighted(M), NEW s \in Nodes, StartLinked(M, s)
    PROVE  INF \in Nat \ {0} /\ NumRouters >= 2
<1>1. PICK i \in Nodes \ {s} : M[s][i] < INF
  BY DEF StartLinked
<1>2. M[s][i] \in Nat
  BY DEF Weighted
<1>3. INF # 0
  BY <1>1, <1>2 DEF Sizes
<1>4. NumRouters >= 2
  BY <1>1 DEF Nodes, Sizes
<1> QED
  BY <1>3, <1>4 DEF Sizes

LEMMA InitialClosing ==
    ASSUME Sizes, NEW M, Weighted(M), NEW s \in Nodes, StartLinked(M, s)
    PROVE  Closing(M, s, Initialised(M, s)) /\ Progress(Initialised(M, s), 0)
<1> DEFINE dist == [i \in Nodes |-> IF i = s THEN 0 ELSE M[s][i]]
           st == Initialised(M, s)
<1>1. M[s] \in [Nodes -> Nat] /\ INF \in Nat \ {0}
  BY Linked DEF Weighted
<1>2. dist \in [Nodes -> Nat]
  BY <1>1
<1>3. st = [distance |-> dist, previous |-> [i \in Nodes |-> s], visited |-> {s},
            nextnode |-> s]
  BY DEF Initialised
<1>4. dist[s] = 0 /\ \A i \in Nodes \ {s} : dist[i] = M[s][i]
  OBVIOUS
<1> HIDE DEF dist, st
<1>5. st \in State /\ st.distance = dist /\ st.visited = {s} /\ st.nextnode = s
  BY <1>2, <1>3 DEF State
<1>6. Closing(M, s, st)
  BY <1>1, <1>2, <1>4, <1>5 DEF Closing
<1>7. Progress(st, 0)
  <2>1. IsFiniteSet({s}) /\ Cardinality({s}) = 1
    BY FS_Singleton
  <2> QED
    BY <1>5, <2>1 DEF Progress
<1> QED
  BY <1>6, <1>7 DEF st

LEMMA RoundCloses ==
    ASSUME Sizes, NEW M, Weighted(M), NEW s \in Nodes, INF > 0,
           NEW st, Closing(M, s, st), NEW k \in Nat, Progress(st, k)
    PROVE  Closing(M, s, Round(M, st)) /\ Progress(Round(M, st), k + 1)
<1> DEFINE r == Round(M, st)
           V == st.visited
           d == st.distance
           W == r.visited
           e == r.distance
<1>1. /\ st \in State /\ s \in V /\ st.nextnode \in V /\ d[s] = 0
      /\ \A v \in V : d[v] < INF
      /\ \A v \in V, j \in Nodes \ V : d[v] <= d[j]
      /\ \A v \in V, i \in Nodes : d[i] <= d[v] + M[v][i]
  BY DEF Closing
<1>2. \A i, j \in Nodes : M[i][j] \in Nat
  BY DEF Weighted
<1>3. V \in SUBSET Nodes /\ d \in [Nodes -> Nat]
  BY <1>1 DEF State
<1>4. CASE Candidates(st) # {}
  <2> DEFINE u == Closest(st)
             better == {i \in Nodes \ (V \cup {u}) : d[u] + M[u][i] < d[i]}
  <2>1. /\ u \in Nodes \ V /\ d[u] < INF
        /\ \A j \in Nodes \ V : d[u] <= d[j]
    BY <1>1, <1>4, ClosestIs
  <2>2. /\ r \in State /\ W = V \cup {u} /\ r.nextnode = u
        /\ \A i \in better : e[i] = d[u] + M[u][i]
        /\ \A i \in Nodes \ better : e[i] = d[i]
    BY <1>1, <1>4, RoundEffect
  <2> HIDE DEF u, r, d, e, V, W
  <2>3. e \in [Nodes -> Nat] /\ W \in SUBSET Nodes
    BY <2>2 DEF State, e, W
  <2>4. \A i \in W : e[i] = d[i]
    BY <2>1, <2>2, <2>3
  <2>5. \A i \in Nodes : e[i] <= d[i]
    BY <1>2, <1>3, <2>1, <2>2
  <2>6. \A i \in Nodes \ W : e[i] = d[i] \/ e[i] = d[u] + M[u][i]
    BY <2>2
  <2>7. e[s] = 0 /\ \A v \in W : e[v] < INF
    BY <1>1, <2>1, <2>2, <2>4
  <2>8. ASSUME NEW v \in W, NEW j \in Nodes \ W PROVE e[v] <= e[j]
    <3>1. d[v] <= d[u]
      BY <1>1, <1>3, <2>1, <2>2
    <3>2. d[u] <= e[j]
      <4>1. d[u] <= d[j] /\ d[u] \in Nat /\ M[u][j] \in Nat
        BY <1>2, <1>3, <2>1, <2>2
      <4> QED
        BY <2>6, <4>1
    <3>3. e[v] = d[v] /\ d[v] \in Nat /\ d[u] \in Nat /\ e[j] \in Nat
      BY <1>3, <2>1, <2>3, <2>4
    <3> QED
      BY <3>1, <3>2, <3>3
  <2>9. ASSUME NEW v \in W, NEW i \in Nodes PROVE e[i] <= e[v] + M[v][i]
    <3>1. /\ e[v] = d[v] /\ d[v] \in Nat /\ d[u] \in Nat /\ e[i] \in Nat /\ d[i] \in Nat
          /\ e[i] <= d[i] /\ M[v][i] \in Nat /\ M[u][i] \in Nat
      BY <1>2, <1>3, <2>1, <2>3, <2>4, <2>5
    <3>2. CASE v \in V
      <4>1. d[i] <= d[v] + M[v][i]
        BY <1>1, <3>2
      <4> QED
        BY <3>1, <4>1
    <3>3. CASE v = u
      <4>1. CASE i \in W
        <5>1. d[i] <= d[u]
          BY <1>1, <1>3, <2>1, <2>2, <4>1
        <5> QED
          BY <3>1, <3>3, <5>1
      <4>2. CASE i \notin W
        <5>1. i \in better \/ ~(d[u] + M[u][i] < d[i])
          BY <2>2, <4>2
        <5> QED
          BY <2>2, <3>1, <3>3, <5>1
      <4> QED
        BY <4>1, <4>2
    <3> QED
      BY <2>2, <3>2, <3>3
  <2>10. Closing(M, s, r)
    BY <1>1, <2>2, <2>7, <2>8, <2>9 DEF Closing, e, W
  <2>11. Progress(r, k + 1)
    <3>1. IsFiniteSet(V) /\ Cardinality(V) = k + 1
      BY <1>4 DEF Progress, V
    <3>2. IsFiniteSet(V \cup {u}) /\ Cardinality(V \cup {u}) = k + 1 + 1
      BY <2>1, <3>1, FS_AddElement
    <3> QED
      BY <2>2, <3>2 DEF Progress, W
  <2> QED
    BY <2>10, <2>11 DEF r
<1>5. CASE Candidates(st) = {}
  <2> DEFINE u == st.nextnode
             better == {i \in Nodes \ (V \cup {u}) : INF + M[u][i] < d[i]}
  <2>1. /\ r \in State /\ W = V \cup {u} /\ r.nextnode = u
        /\ \A i \in better : e[i] = INF + M[u][i]
        /\ \A i \in Nodes \ better : e[i] = d[i]
    BY <1>1, <1>5, RoundEffect
  <2>2. \A i \in Nodes \ V : d[i] >= INF
    BY <1>3, <1>5 DEF Candidates, Sizes
  <2> HIDE DEF r, d, e, V, W
  <2>3. W = V /\ u \in Nodes
    BY <1>1, <1>3, <2>1
  <2>4. e \in [Nodes -> Nat] /\ W \in SUBSET Nodes
    BY <2>1 DEF State, e, W
  <2>5. \A i \in V : e[i] = d[i]
    BY <1>3, <2>1
  <2>6. \A i \in Nodes : e[i] <= d[i]
    BY <1>2, <1>3, <2>1, <2>3 DEF Sizes
  <2>7. \A i \in Nodes \ V : e[i] >= INF
    BY <1>2, <2>1, <2>2, <2>3 DEF Sizes
  <2>8. ASSUME NEW v \in V, NEW j \in Nodes \ V PROVE e[v] <= e[j]
    <3>1. d[v] < INF /\ e[v] = d[v] /\ e[j] >= INF /\ INF \in Nat
      BY <1>1, <2>5, <2>7, <2>8 DEF Sizes
    <3>2. e[v] \in Nat /\ e[j] \in Nat
      BY <2>4, <1>3
    <3> QED
      BY <3>1, <3>2
  <2>9. ASSUME NEW v \in V, NEW i \in Nodes PROVE e[i] <= e[v] + M[v][i]
    <3>1. /\ d[i] <= d[v] + M[v][i] /\ e[i] <= d[i] /\ e[v] = d[v]
      BY <1>1, <2>5, <2>6
    <3>2. e[v] \in Nat /\ e[i] \in Nat /\ d[i] \in Nat /\ M[v][i] \in Nat
      BY <1>2, <1>3, <2>4
    <3> QED
      BY <3>1, <3>2
  <2>10. Closing(M, s, r)
    BY <1>1, <2>1, <2>3, <2>5, <2>8, <2>9 DEF Closing, e, W
  <2>11. Candidates(r) = {}
    BY <2>3, <2>4, <2>7 DEF Candidates, e, W, Sizes
  <2> QED
    BY <2>10, <2>11 DEF r, Progress
<1> QED
  BY <1>4, <1>5


(***************************************************************************)
(* The reference: costs within a number of links.                          *)
(***************************************************************************)
LEMMA LeastIs ==
    ASSUME NEW S \in SUBSET Nat, S # {}
    PROVE  Least(S) \in S /\ \A y \in S : Least(S) <= y
BY LeastExists DEF Least

NoLink(s)   == [i \in Nodes |-> IF i = s THEN 0 ELSE INF]
Ways(M, w, i) == {w[i]} \cup {Plus(w[j], M[j][i]) : j \in Nodes}
OneMoreLink(M, w) == [i \in Nodes |-> Least(Ways(M, w, i))]

LEMMA OneMoreLinkIs ==
    ASSUME Sizes, NEW M, Weighted(M), NEW w \in [Nodes -> Nat]
    PROVE  /\ OneMoreLink(M, w) \in [Nodes -> Nat]
           /\ \A i \in Nodes :
                 /\ OneMoreLink(M, w)[i] <= w[i]
                 /\ \A j \in Nodes : OneMoreLink(M, w)[i] <= Plus(w[j], M[j][i])
                 /\ \/ OneMoreLink(M, w)[i] = w[i]
                    \/ \E j \in Nodes : OneMoreLink(M, w)[i] = Plus(w[j], M[j][i])
<1> SUFFICES ASSUME NEW i \in Nodes
             PROVE  /\ Least(Ways(M, w, i)) \in Nat
                    /\ Least(Ways(M, w, i)) \in Ways(M, w, i)
                    /\ \A y \in Ways(M, w, i) : Least(Ways(M, w, i)) <= y
  BY DEF OneMoreLink, Ways
<1>1. \A j \in Nodes : M[j][i] \in Nat
  BY DEF Weighted
<1>2. \A j \in Nodes : Plus(w[j], M[j][i]) \in Nat
  BY <1>1 DEF Plus, Sizes
<1>3. Ways(M, w, i) \in SUBSET Nat /\ Ways(M, w, i) # {}
  BY <1>2 DEF Ways
<1> QED
  BY <1>3, LeastIs

\* w[k] is what Cost computes for paths of at most k links.
Within(M, s, w) ==
    /\ w \in [0..(NumRouters - 1) -> [Nodes -> Nat]]
    /\ w[0] = NoLink(s)
    /\ \A k \in 1..(NumRouters - 1) : w[k] = OneMoreLink(M, w[k - 1])

LEMMA CostIs ==
    ASSUME Sizes, NEW M, Weighted(M), NEW s \in Nodes
    PROVE  \E w : Within(M, s, w) /\ Cost(M, s) = w[NumRouters - 1]
<1> DEFINE X == [Nodes -> Nat]
           N == NumRouters - 1
           Steps(w) == w = [k \in Nodes |-> IF k = 0 THEN NoLink(s) ELSE OneMoreLink(M, w[k - 1])]
           step == [v \in X |-> OneMoreLink(M, v)]
<1>1. N \in Nat /\ Nodes = 0..N
  BY DEF Sizes, Nodes
<1>2. NoLink(s) \in X /\ step \in [X -> X]
  BY OneMoreLinkIs DEF NoLink, Sizes
<1>3. \E w : Steps(w)
  <2> HIDE DEF step, X, N
  <2>1. PICK w \in [0..N -> X] : StepByStep(w, N, NoLink(s), step)
    BY <1>1, <1>2, StepsExist
  <2>2. ASSUME NEW k \in 0..N
        PROVE  w[k] = IF k = 0 THEN NoLink(s) ELSE OneMoreLink(M, w[k - 1])
    <3>1. w[k] = IF k = 0 THEN NoLink(s) ELSE step[w[k - 1]]
      BY <2>1 DEF StepByStep
    <3>2. k # 0 => w[k - 1] \in X
      BY <1>1, <2>1
    <3> QED
      BY <3>1, <3>2 DEF step
  <2>3. w = [k \in Nodes |-> IF k = 0 THEN NoLink(s) ELSE OneMoreLink(M, w[k - 1])]
    BY <1>1, <2>1, <2>2
  <2> QED
    BY <2>3
<1> DEFINE w == CHOOSE w : Steps(w)
<1>4. Steps(w)
  BY <1>3
<1>5. Cost(M, s) = w[N]
  BY DEF Cost, NoLink, OneMoreLink, Ways
<1> HIDE DEF w
<1>6. DOMAIN w = 0..N /\ w[0] = NoLink(s)
      /\ \A k \in 1..N : w[k] = OneMoreLink(M, w[k - 1])
  <2>1. w = [k \in 0..N |-> IF k = 0 THEN NoLink(s) ELSE OneMoreLink(M, w[k - 1])]
    BY <1>1, <1>4
  <2> HIDE DEF N, Steps
  <2>2. DOMAIN w = 0..N
    BY <2>1
  <2>3. \A k \in 0..N : w[k] = IF k = 0 THEN NoLink(s) ELSE OneMoreLink(M, w[k - 1])
    BY <2>1
  <2>4. 0 \in 0..N /\ \A k \in 1..N : k \in 0..N /\ k # 0
    BY <1>1
  <2> QED
    BY <2>2, <2>3, <2>4
<1> DEFINE Good == {k \in 0..N : w[k] \in X}
<1>7. Good = 0..N
  <2>1. 0 \in Good
    BY <1>1, <1>2, <1>6
  <2>2. ASSUME NEW k \in 1..N, k - 1 \in Good PROVE k \in Good
    <3>1. w[k] = OneMoreLink(M, w[k - 1]) /\ w[k - 1] \in X
      BY <1>6, <2>2
    <3> QED
      BY <1>1, <3>1, OneMoreLinkIs
  <2> HIDE DEF Good, X, N
  <2>3. Good \in SUBSET (0..N)
    BY DEF Good
  <2> QED
    BY <1>1, <2>1, <2>2, <2>3, StepsKeep
<1>8. w \in [0..N -> X]
  BY <1>4, <1>6, <1>7, <1>1
<1> QED
  BY <1>5, <1>6, <1>8 DEF Within

\* Distances that no link improves are not above the cost of any path.
LEMMA NoWayIsShorter ==
    ASSUME Sizes, NEW M, Weighted(M), NEW h \in Nodes, NEW w, Within(M, h, w),
           NEW d \in [Nodes -> Nat], NEW c \in Nat, d[h] <= c,
           \A j, i \in Nodes : d[j] < INF => d[i] <= d[j] + M[j][i]
    PROVE  \A k \in 0..(NumRouters - 1), i \in Nodes :
              c + w[k][i] < INF => d[i] <= c + w[k][i]
<1> DEFINE N == NumRouters - 1
           Good == {k \in 0..N : \A i \in Nodes : c + w[k][i] < INF => d[i] <= c + w[k][i]}
<1>1. N \in Nat /\ INF \in Nat
  BY DEF Sizes
<1>2. 0 \in Good
  BY <1>1 DEF Within, NoLink
<1>3. ASSUME NEW k \in 1..N, k - 1 \in Good PROVE k \in Good
  <2> SUFFICES ASSUME NEW i \in Nodes, c + w[k][i] < INF PROVE d[i] <= c + w[k][i]
    BY <1>1
  <2> DEFINE v == w[k - 1]
  <2>1. v \in [Nodes -> Nat] /\ w[k] = OneMoreLink(M, v) /\ w[k][i] \in Nat
    BY <1>1, OneMoreLinkIs DEF Within
  <2>2. \A j \in Nodes : c + v[j] < INF => d[j] <= c + v[j]
    BY <1>3
  <2> HIDE DEF v
  <2>3. CASE w[k][i] = v[i]
    BY <2>1, <2>2, <2>3
  <2>4. ASSUME NEW j \in Nodes, w[k][i] = Plus(v[j], M[j][i])
        PROVE  d[i] <= c + w[k][i]
    <3>1. M[j][i] \in Nat /\ v[j] \in Nat /\ d[j] \in Nat /\ d[i] \in Nat
      BY <2>1 DEF Weighted
    <3>2. w[k][i] = v[j] + M[j][i]
      BY <1>1, <2>4, <3>1 DEF Plus
    <3>3. c + v[j] < INF
      BY <1>1, <3>1, <3>2
    <3>4. d[j] <= c + v[j]
      BY <2>2, <3>3
    <3>5. d[j] < INF
      BY <1>1, <3>1, <3>3, <3>4
    <3>6. d[i] <= d[j] + M[j][i]
      BY <3>5
    <3> QED
      BY <3>1, <3>2, <3>4, <3>6
  <2> QED
    BY <2>1, <2>3, <2>4, OneMoreLinkIs
<1> HIDE DEF Good
<1>4. Good = 0..N
  <2>1. Good \in SUBSET (0..N)
    BY DEF Good
  <2> HIDE DEF N
  <2> QED
    BY <1>1, <1>2, <1>3, <2>1, StepsKeep
<1> QED
  BY <1>4 DEF Good

(***************************************************************************)
(* The rounds of dijkstra, one after the other.                            *)
(***************************************************************************)
After(M, s, g) ==
    /\ g \in [0..Rounds -> State]
    /\ g[0] = Initialised(M, s)
    /\ \A k \in 1..Rounds : g[k] = Round(M, g[k - 1])

LEMMA RoundsIs ==
    ASSUME Sizes, NumRouters >= 2
    PROVE  Rounds \in Nat /\ Rounds + 1 = NumRouters - 1
BY DEF Rounds, Sizes

LEMMA DijkstraIs ==
    ASSUME Sizes, NEW M, Weighted(M), NEW s \in Nodes, StartLinked(M, s)
    PROVE  \E g : After(M, s, g) /\ dijkstra(M, s) = g[Rounds]
<1> DEFINE Steps(g) == g = [k \in 0..Rounds |->
                              IF k = 0 THEN Initialised(M, s) ELSE Round(M, g[k - 1])]
           step == [st \in State |-> Round(M, st)]
<1>1. Rounds \in Nat
  BY Linked, RoundsIs
<1>2. Initialised(M, s) \in State /\ step \in [State -> State]
  <2>1. Initialised(M, s) \in State
    BY InitialClosing DEF Closing
  <2>2. \A st \in State : Round(M, st) \in State
    BY RoundEffect
  <2> HIDE DEF State
  <2> QED
    BY <2>1, <2>2
<1>3. \E g : Steps(g)
  <2> HIDE DEF step, State
  <2>1. PICK g \in [0..Rounds -> State] : StepByStep(g, Rounds, Initialised(M, s), step)
    BY <1>1, <1>2, StepsExist
  <2>2. ASSUME NEW k \in 0..Rounds
        PROVE  g[k] = IF k = 0 THEN Initialised(M, s) ELSE Round(M, g[k - 1])
    <3>1. g[k] = IF k = 0 THEN Initialised(M, s) ELSE step[g[k - 1]]
      BY <2>1 DEF StepByStep
    <3>2. k # 0 => g[k - 1] \in State
      BY <1>1, <2>1
    <3> QED
      BY <3>1, <3>2 DEF step
  <2>3. g = [k \in 0..Rounds |->
               IF k = 0 THEN Initialised(M, s) ELSE Round(M, g[k - 1])]
    BY <1>1, <2>1, <2>2
  <2> QED
    BY <2>3
<1> DEFINE g == CHOOSE g : Steps(g)
<1>4. Steps(g)
  BY <1>3
<1>5. dijkstra(M, s) = g[Rounds]
  BY DEF dijkstra
<1> HIDE DEF g
<1>6. DOMAIN g = 0..Rounds /\ g[0] = Initialised(M, s)
      /\ \A k \in 1..Rounds : g[k] = Round(M, g[k - 1])
  <2>1. g = [k \in 0..Rounds |->
               IF k = 0 THEN Initialised(M, s) ELSE Round(M, g[k - 1])]
    BY <1>4
  <2> HIDE DEF Steps
  <2>2. DOMAIN g = 0..Rounds
    BY <2>1
  <2>3. \A k \in 0..Rounds :
          g[k] = IF k = 0 THEN Initialised(M, s) ELSE Round(M, g[k - 1])
    BY <2>1
  <2>4. 0 \in 0..Rounds /\ \A k \in 1..Rounds : k \in 0..Rounds /\ k # 0
    BY <1>1
  <2> QED
    BY <2>2, <2>3, <2>4
<1> DEFINE Good == {k \in 0..Rounds : g[k] \in State}
<1>7. Good = 0..Rounds
  <2>1. 0 \in Good
    BY <1>1, <1>2, <1>6
  <2>2. ASSUME NEW k \in 1..Rounds, k - 1 \in Good PROVE k \in Good
    <3>1. g[k] = Round(M, g[k - 1]) /\ g[k - 1] \in State
      BY <1>6, <2>2
    <3>2. g[k] \in State
      BY <3>1, RoundEffect
    <3> QED
      BY <1>1, <3>2
  <2>3. Good \in SUBSET (0..Rounds)
    OBVIOUS
  <2> HIDE DEF Good
  <2> QED
    BY <1>1, <2>1, <2>2, <2>3, StepsKeep
<1>8. g \in [0..Rounds -> State]
  <2>1. g = [k \in 0..Rounds |->
               IF k = 0 THEN Initialised(M, s) ELSE Round(M, g[k - 1])]
    BY <1>4
  <2>2. \A k \in 0..Rounds : g[k] \in State
    BY <1>7
  <2> HIDE DEF Steps, State
  <2> QED
    BY <2>1, <2>2
<1> QED
  BY <1>5, <1>6, <1>8 DEF After

(***************************************************************************)
(* The nodes as a tree below the start: previous is one level up, on a     *)
(* visited node, and the distance is the one over it.                      *)
(***************************************************************************)
Hangs(M, s, st, k, level) ==
    LET d == st.distance
        up == st.previous
    IN  /\ level \in [Nodes -> Nat] /\ level[s] = 0
        /\ \A i \in Nodes : level[i] <= k + 1 /\ (i \in st.visited => level[i] <= k)
        /\ \A i \in Nodes \ {s} :
              /\ up[i] \in st.visited /\ level[i] = level[up[i]] + 1
              /\ d[i] < INF => d[i] = d[up[i]] + M[up[i]][i]

Tree(M, s, st, k) == \E level : Hangs(M, s, st, k, level)

\* A distance below INF is not less than the cost of a path of k + 1 links.
Sound(st, v) == \A i \in Nodes : st.distance[i] < INF => v[i] <= st.distance[i]

LEMMA InitialTree ==
    ASSUME Sizes, NEW M, Weighted(M), NEW s \in Nodes
    PROVE  Tree(M, s, Initialised(M, s), 0)
<1> DEFINE level == [i \in Nodes |-> IF i = s THEN 0 ELSE 1]
           st == Initialised(M, s)
<1>1. \A i \in Nodes : M[s][i] \in Nat
  BY DEF Weighted
<1>2. /\ \A i \in Nodes : st.previous[i] = s /\ (i # s => st.distance[i] = M[s][i])
      /\ st.distance[s] = 0 /\ st.visited = {s}
  BY DEF Initialised
<1>3. /\ level \in [Nodes -> Nat] /\ level[s] = 0
      /\ \A i \in Nodes \ {s} : level[i] = 1
  OBVIOUS
<1> HIDE DEF level, st
<1>4. Hangs(M, s, st, 0, level)
  BY <1>1, <1>2, <1>3 DEF Hangs
<1> QED
  BY <1>4 DEF Tree, st

LEMMA RoundHangs ==
    ASSUME Sizes, NEW M, Weighted(M), NEW s \in Nodes,
           NEW st, Closing(M, s, st), NEW k \in Nat, Tree(M, s, st, k)
    PROVE  Tree(M, s, Round(M, st), k + 1)
<1>1. PICK level : Hangs(M, s, st, k, level)
  BY DEF Tree
<1> DEFINE r == Round(M, st)
           none == Candidates(st) = {}
           V == st.visited
           W == r.visited
           d == st.distance
           e == r.distance
           up == st.previous
           to == r.previous
           u == IF none THEN st.nextnode ELSE Closest(st)
           minDist == IF none THEN INF ELSE d[u]
           better == {i \in Nodes \ (V \cup {u}) : minDist + M[u][i] < d[i]}
           next == [i \in Nodes |-> IF i \in better THEN level[u] + 1 ELSE level[i]]
<1>2. /\ st \in State /\ s \in V /\ V \in SUBSET Nodes /\ d \in [Nodes -> Nat]
  BY DEF Closing, State
<1>3. /\ W = V \cup {u} /\ u \in Nodes
      /\ \A i \in better : e[i] = minDist + M[u][i] /\ to[i] = u
      /\ \A i \in Nodes \ better : e[i] = d[i] /\ to[i] = up[i]
  BY <1>2, RoundEffect
<1>4. minDist = INF \/ minDist = d[u]
  OBVIOUS
<1>5. \A i, j \in Nodes : M[i][j] \in Nat
  BY DEF Weighted
<1>6. better \in SUBSET (Nodes \ W)
  BY <1>3
<1>7. /\ level \in [Nodes -> Nat] /\ level[s] = 0
      /\ \A i \in Nodes : level[i] <= k + 1 /\ (i \in V => level[i] <= k)
      /\ \A i \in Nodes \ {s} :
            /\ up[i] \in V /\ level[i] = level[up[i]] + 1
            /\ d[i] < INF => d[i] = d[up[i]] + M[up[i]][i]
  BY <1>1 DEF Hangs
<1> HIDE DEF r, V, W, d, e, up, to, u, minDist, better
<1>8. /\ next \in [Nodes -> Nat]
      /\ \A i \in better : next[i] = level[u] + 1
      /\ \A i \in Nodes \ better : next[i] = level[i]
  <2>1. better \in SUBSET Nodes /\ level[u] + 1 \in Nat
    BY <1>3, <1>6, <1>7
  <2>2. \A i \in Nodes : next[i] = IF i \in better THEN level[u] + 1 ELSE level[i]
    OBVIOUS
  <2>3. next \in [Nodes -> Nat]
    BY <1>7, <2>1
  <2> QED
    BY <2>1, <2>2, <2>3
<1>9. \A i \in Nodes : next[i] <= k + 2 /\ (i \in W => next[i] <= k + 1)
  <2> TAKE i \in Nodes
  <2>1. level[i] \in Nat /\ level[u] \in Nat /\ level[i] <= k + 1 /\ level[u] <= k + 1
    BY <1>3, <1>7
  <2> QED
    BY <1>6, <1>8, <2>1
<1>10. ASSUME NEW i \in Nodes \ {s}
       PROVE  /\ to[i] \in W /\ next[i] = next[to[i]] + 1
              /\ e[i] < INF => e[i] = e[to[i]] + M[to[i]][i]
  <2>1. CASE i \in better
    <3>1. to[i] = u /\ u \in W /\ u \notin better /\ e[i] = minDist + M[u][i]
      BY <1>3, <1>6, <2>1
    <3>2. next[i] = next[u] + 1 /\ e[u] = d[u]
      BY <1>3, <1>8, <2>1, <3>1
    <3>3. M[u][i] \in Nat /\ INF \in Nat
      BY <1>3, <1>5 DEF Sizes
    <3>4. e[i] < INF => minDist = d[u]
      BY <1>4, <3>1, <3>3
    <3> QED
      BY <3>1, <3>2, <3>4
  <2>2. CASE i \notin better
    <3>1. to[i] = up[i] /\ e[i] = d[i] /\ next[i] = level[i]
      BY <1>3, <1>8, <2>2
    <3>2. up[i] \in V /\ up[i] \in W /\ up[i] \in Nodes \ better
      BY <1>2, <1>3, <1>6, <1>7
    <3>3. e[up[i]] = d[up[i]] /\ next[up[i]] = level[up[i]]
      BY <1>3, <1>8, <3>2
    <3> QED
      BY <1>7, <3>1, <3>2, <3>3
  <2> QED
    BY <2>1, <2>2
<1>11. next[s] = 0
  BY <1>2, <1>3, <1>6, <1>7, <1>8
<1>12. Hangs(M, s, r, k + 1, next)
  BY <1>8, <1>9, <1>10, <1>11 DEF Hangs, W, e, to
<1> QED
  BY <1>12 DEF Tree, r

LEMMA RoundSound ==
    ASSUME Sizes, NEW M, Weighted(M), NEW st \in State,
           NEW v \in [Nodes -> Nat], Sound(st, v)
    PROVE  Sound(Round(M, st), OneMoreLink(M, v))
<1> DEFINE r == Round(M, st)
           none == Candidates(st) = {}
           d == st.distance
           e == r.distance
           u == IF none THEN st.nextnode ELSE Closest(st)
           minDist == IF none THEN INF ELSE d[u]
           better == {i \in Nodes \ (st.visited \cup {u}) : minDist + M[u][i] < d[i]}
           x == OneMoreLink(M, v)
<1>1. /\ u \in Nodes /\ minDist \in Nat
      /\ \A i \in better : e[i] = minDist + M[u][i]
      /\ \A i \in Nodes \ better : e[i] = d[i]
  BY RoundEffect
<1>2. minDist = INF \/ minDist = d[u]
  OBVIOUS
<1>3. /\ x \in [Nodes -> Nat]
      /\ \A i \in Nodes : x[i] <= v[i] /\ \A j \in Nodes : x[i] <= Plus(v[j], M[j][i])
  BY OneMoreLinkIs
<1>4. d \in [Nodes -> Nat]
  BY DEF State
<1>5. \A i \in Nodes : d[i] < INF => v[i] <= d[i]
  BY DEF Sound
<1> HIDE DEF r, d, e, u, minDist, better, x
<1>6. ASSUME NEW i \in Nodes, e[i] < INF PROVE x[i] <= e[i]
  <2>1. x[i] \in Nat /\ v[i] \in Nat /\ v[u] \in Nat /\ d[u] \in Nat /\ M[u][i] \in Nat
        /\ d[i] \in Nat /\ INF \in Nat
    BY <1>1, <1>3, <1>4 DEF Weighted, Sizes
  <2>2. CASE i \in better
    <3>1. e[i] = minDist + M[u][i]
      BY <1>1, <2>2
    <3>2. minDist = d[u] /\ d[u] < INF
      BY <1>1, <1>2, <1>6, <2>1, <3>1
    <3>3. v[u] <= d[u]
      BY <1>1, <1>5, <3>2
    <3>4. v[u] + M[u][i] < INF /\ v[u] + M[u][i] <= e[i]
      BY <1>6, <2>1, <3>1, <3>2, <3>3
    <3>5. x[i] <= v[u] + M[u][i]
      BY <1>1, <1>3, <3>4 DEF Plus
    <3> QED
      BY <2>1, <3>4, <3>5, <3>1, <3>2
  <2>3. CASE i \notin better
    <3>1. e[i] = d[i] /\ x[i] <= v[i]
      BY <1>1, <1>3, <2>3
    <3>2. v[i] <= d[i]
      BY <1>5, <1>6, <3>1
    <3> QED
      BY <2>1, <3>1, <3>2
  <2> QED
    BY <2>2, <2>3
<1> QED
  BY <1>6 DEF Sound, r, e, x


\* What holds after the last round.
LEMMA AfterIs ==
    ASSUME Sizes, NEW M, Weighted(M), NEW s \in Nodes, StartLinked(M, s),
           NEW w, Within(M, s, w)
    PROVE  LET st == dijkstra(M, s)
           IN  /\ Closing(M, s, st) /\ Progress(st, Rounds)
               /\ Tree(M, s, st, Rounds) /\ Sound(st, w[NumRouters - 1])
<1>1. PICK g : After(M, s, g) /\ dijkstra(M, s) = g[Rounds]
  BY DijkstraIs
<1>2. INF > 0 /\ Rounds \in Nat /\ Rounds + 1 = NumRouters - 1
  BY Linked, RoundsIs
<1> DEFINE Holds(k) == /\ Closing(M, s, g[k]) /\ Progress(g[k], k)
                       /\ Tree(M, s, g[k], k) /\ Sound(g[k], w[k + 1])
           Good == {k \in 0..Rounds : Holds(k)}
<1>3. 0 \in Good
  <2>1. Closing(M, s, g[0]) /\ Progress(g[0], 0) /\ Tree(M, s, g[0], 0)
    BY <1>1, InitialClosing, InitialTree DEF After
  <2>2. 1 \in 1..(NumRouters - 1) /\ w[0] \in [Nodes -> Nat] /\ w[0] = NoLink(s)
    BY <1>2 DEF Within
  <2>3. w[1] = OneMoreLink(M, w[0])
    BY <2>2 DEF Within
  <2>4. /\ w[0][s] = 0 /\ w[1] \in [Nodes -> Nat] /\ w[1][s] <= w[0][s]
        /\ \A i \in Nodes : w[1][i] <= Plus(w[0][s], M[s][i])
    BY <2>2, <2>3, OneMoreLinkIs DEF NoLink
  <2>5. ASSUME NEW i \in Nodes, g[0].distance[i] < INF PROVE w[1][i] <= g[0].distance[i]
    <3>1. g[0].distance[i] = IF i = s THEN 0 ELSE M[s][i]
      BY <1>1 DEF After, Initialised
    <3>2. M[s][i] \in Nat
      BY DEF Weighted
    <3> QED
      BY <2>4, <2>5, <3>1, <3>2 DEF Plus
  <2> QED
    BY <1>2, <2>1, <2>5 DEF Sound
<1>4. ASSUME NEW k \in 1..Rounds, k - 1 \in Good PROVE k \in Good
  <2> DEFINE st == g[k - 1]
  <2>1. /\ k - 1 \in Nat /\ k - 1 + 1 = k /\ k \in 1..(NumRouters - 1)
        /\ k + 1 \in 1..(NumRouters - 1) /\ k + 1 - 1 = k
    BY <1>2
  <2>2. Closing(M, s, st) /\ Progress(st, k - 1) /\ Tree(M, s, st, k - 1) /\ Sound(st, w[k])
    BY <1>4, <2>1
  <2>3. g[k] = Round(M, st)
    BY <1>1 DEF After
  <2>4. w[k] \in [Nodes -> Nat] /\ w[k + 1] = OneMoreLink(M, w[k])
    BY <2>1 DEF Within
  <2>5. st \in State
    BY <2>2 DEF Closing
  <2> HIDE DEF st
  <2>6. Closing(M, s, g[k]) /\ Progress(g[k], k)
    BY <1>2, <2>1, <2>2, <2>3, RoundCloses
  <2>7. Tree(M, s, g[k], k)
    BY <2>1, <2>2, <2>3, RoundHangs
  <2>8. Sound(g[k], w[k + 1])
    BY <2>2, <2>3, <2>4, <2>5, RoundSound
  <2> QED
    BY <1>2, <2>6, <2>7, <2>8
<1>5. Good = 0..Rounds
  <2>1. Good \in SUBSET (0..Rounds)
    OBVIOUS
  <2> HIDE DEF Good
  <2> QED
    BY <1>2, <1>3, <1>4, <2>1, StepsKeep
<1>6. Holds(Rounds)
  <2>1. Rounds \in 0..Rounds
    BY <1>2
  <2> QED
    BY <1>5, <2>1
<1> QED
  BY <1>1, <1>2, <1>6

\* After the last round at most one node in reach is unvisited: no link at all
\* offers a shorter way.
LEMMA NoShortcut ==
    ASSUME Sizes, NEW M, Weighted(M), NEW s \in Nodes, NumRouters >= 2,
           NEW st, Closing(M, s, st), Progress(st, Rounds)
    PROVE  LET d == st.distance
           IN  \A j, i \in Nodes : d[j] < INF => d[i] <= d[j] + M[j][i]
<1> DEFINE d == st.distance
           V == st.visited
<1>1. /\ V \in SUBSET Nodes /\ d \in [Nodes -> Nat]
      /\ \A v \in V, j \in Nodes \ V : d[v] <= d[j]
      /\ \A v \in V, i \in Nodes : d[i] <= d[v] + M[v][i]
  BY DEF Closing, State
<1> SUFFICES ASSUME NEW j \in Nodes, NEW i \in Nodes, d[j] < INF
             PROVE  d[i] <= d[j] + M[j][i]
  OBVIOUS
<1>2. M[j][i] \in Nat /\ d[i] \in Nat /\ d[j] \in Nat
  BY <1>1 DEF Weighted
<1>3. CASE j \in V
  BY <1>1, <1>3
<1>4. CASE j \notin V
  <2>1. j \in Candidates(st)
    BY <1>4 DEF Candidates
  <2>2. IsFiniteSet(V) /\ Cardinality(V) = Rounds + 1
    BY <2>1 DEF Progress
  <2> HIDE DEF V, d
  <2>3. /\ IsFiniteSet(V \cup {j}) /\ Cardinality(V \cup {j}) = NumRouters
    <3>1. IsFiniteSet(V \cup {j}) /\ Cardinality(V \cup {j}) = Rounds + 1 + 1
      BY <1>4, <2>2, FS_AddElement
    <3> QED
      BY <3>1, RoundsIs DEF Sizes
  <2>4. IsFiniteSet(Nodes) /\ Cardinality(Nodes) = NumRouters
    <3>1. IsFiniteSet(0..(NumRouters - 1))
          /\ Cardinality(0..(NumRouters - 1)) =
                IF 0 > NumRouters - 1 THEN 0 ELSE NumRouters - 1 - 0 + 1
      BY FS_Interval DEF Sizes
    <3> QED
      BY <3>1 DEF Nodes, Sizes
  <2>5. V \cup {j} = Nodes
    <3>1. V \cup {j} \in SUBSET Nodes
      BY <1>1
    <3> QED
      BY <2>3, <2>4, <3>1, FS_Subset
  <2>6. i = j \/ d[i] <= d[j]
    BY <1>1, <1>4, <2>5
  <2> QED
    BY <1>2, <2>6
<1> QED
  BY <1>3, <1>4

\* The distances are the costs of the cheapest paths, as far as they stay below
\* INF, and no other router is closer than INF (dijkstra.c:104-135).
THEOREM DistancesAreRight ==
    ASSUME Sizes, NEW M, Weighted(M), NEW s \in Nodes, StartLinked(M, s)
    PROVE  DistancesRight(M, s)
<1> DEFINE st == dijkstra(M, s)
           d == st.distance
           N == NumRouters - 1
<1>1. PICK w : Within(M, s, w) /\ Cost(M, s) = w[N]
  BY CostIs
<1>2. NumRouters >= 2 /\ N \in 0..N
  BY Linked DEF Sizes
<1>3. Closing(M, s, st) /\ Progress(st, Rounds) /\ Sound(st, w[N])
  BY <1>1, AfterIs
<1> HIDE DEF st
<1>4. \A j, i \in Nodes : d[j] < INF => d[i] <= d[j] + M[j][i]
  BY <1>2, <1>3, NoShortcut
<1>5. d \in [Nodes -> Nat] /\ d[s] = 0 /\ w[N] \in [Nodes -> Nat]
  BY <1>1, <1>2, <1>3 DEF Closing, State, Within
<1> HIDE DEF d
<1>6. \A i \in Nodes : w[N][i] < INF => d[i] <= w[N][i]
  <2>1. \A k \in 0..N, i \in Nodes : 0 + w[k][i] < INF => d[i] <= 0 + w[k][i]
    BY <1>1, <1>4, <1>5, NoWayIsShorter
  <2>2. \A i \in Nodes : 0 + w[N][i] < INF => d[i] <= 0 + w[N][i]
    BY <1>2, <2>1
  <2>3. \A i \in Nodes : w[N][i] \in Nat
    BY <1>5
  <2> HIDE DEF N
  <2> QED
    BY <2>2, <2>3
<1>7. \A i \in Nodes : d[i] < INF => w[N][i] <= d[i]
  BY <1>3 DEF Sound, d
<1> DEFINE c == w[N]
<1> HIDE DEF c
<1>8. \A i \in Nodes : IF c[i] < INF THEN d[i] = c[i] ELSE d[i] >= INF
  <2> TAKE i \in Nodes
  <2>1. c[i] \in Nat /\ d[i] \in Nat /\ INF \in Nat
    BY <1>5 DEF Sizes, c
  <2>2. (c[i] < INF => d[i] <= c[i]) /\ (d[i] < INF => c[i] <= d[i])
    BY <1>6, <1>7 DEF c
  <2> QED
    BY <2>1, <2>2
<1> QED
  BY <1>1, <1>8 DEF DistancesRight, d, st, c


(***************************************************************************)
(* The walk from a router up the tree, to the one next to the start.       *)
(***************************************************************************)
OneUp(up, s, j) == IF up[j] = s THEN j ELSE up[j]

Walk(up, s, i, x) ==
    /\ x \in [0..(NumRouters - 1) -> Nodes]
    /\ x[0] = i
    /\ \A k \in 1..(NumRouters - 1) : x[k] = OneUp(up, s, x[k - 1])

LEMMA NextStepIs ==
    ASSUME Sizes, NEW up \in [Nodes -> Nodes], NEW s \in Nodes, NEW i \in Nodes
    PROVE  \E x : Walk(up, s, i, x) /\ NextStep(up, s, i) = x[NumRouters - 1]
<1> DEFINE N == NumRouters - 1
           Steps(x) == x = [k \in Nodes |-> IF k = 0 THEN i
                                            ELSE IF up[x[k - 1]] = s THEN x[k - 1]
                                                 ELSE up[x[k - 1]]]
           step == [j \in Nodes |-> OneUp(up, s, j)]
<1>1. N \in Nat /\ Nodes = 0..N
  BY DEF Sizes, Nodes
<1>2. step \in [Nodes -> Nodes] /\ \A j \in Nodes : OneUp(up, s, j) \in Nodes
  BY DEF OneUp
<1>3. \E x : Steps(x)
  <2> HIDE DEF step, N
  <2>1. PICK x \in [0..N -> Nodes] : StepByStep(x, N, i, step)
    BY <1>1, <1>2, StepsExist
  <2>2. ASSUME NEW k \in 0..N
        PROVE  x[k] = IF k = 0 THEN i ELSE IF up[x[k - 1]] = s THEN x[k - 1] ELSE up[x[k - 1]]
    <3>1. x[k] = IF k = 0 THEN i ELSE step[x[k - 1]]
      BY <2>1 DEF StepByStep
    <3>2. k # 0 => k - 1 \in 0..N
      BY <1>1
    <3>3. k # 0 => x[k - 1] \in Nodes
      BY <2>1, <3>2
    <3> QED
      BY <3>1, <3>3 DEF step, OneUp
  <2>3. DOMAIN x = Nodes /\ x = [k \in DOMAIN x |-> x[k]]
    BY <1>1, <2>1
  <2>4. x = [k \in Nodes |-> IF k = 0 THEN i
                             ELSE IF up[x[k - 1]] = s THEN x[k - 1] ELSE up[x[k - 1]]]
    BY <1>1, <2>1, <2>2
  <2> QED
    BY <2>4
<1> DEFINE x == CHOOSE x : Steps(x)
<1>4. Steps(x)
  BY <1>3
<1>5. NextStep(up, s, i) = x[N]
  BY DEF NextStep
<1> HIDE DEF x
<1>6. DOMAIN x = 0..N /\ x[0] = i
      /\ \A k \in 1..N : x[k] = OneUp(up, s, x[k - 1])
  <2>1. x = [k \in 0..N |-> IF k = 0 THEN i
                            ELSE IF up[x[k - 1]] = s THEN x[k - 1] ELSE up[x[k - 1]]]
    BY <1>1, <1>4
  <2> HIDE DEF N, Steps
  <2>2. DOMAIN x = 0..N
    BY <2>1
  <2>3. \A k \in 0..N : x[k] = IF k = 0 THEN i
                               ELSE IF up[x[k - 1]] = s THEN x[k - 1] ELSE up[x[k - 1]]
    BY <2>1
  <2>4. 0 \in 0..N /\ \A k \in 1..N : k \in 0..N /\ k # 0
    BY <1>1
  <2> QED
    BY <2>2, <2>3, <2>4 DEF OneUp
<1> DEFINE Good == {k \in 0..N : x[k] \in Nodes}
<1>7. Good = 0..N
  <2>1. 0 \in Good
    BY <1>1, <1>6
  <2>2. ASSUME NEW k \in 1..N, k - 1 \in Good PROVE k \in Good
    BY <1>1, <1>2, <1>6, <2>2
  <2>3. Good \in SUBSET (0..N)
    OBVIOUS
  <2> HIDE DEF Good, N
  <2> QED
    BY <1>1, <2>1, <2>2, <2>3, StepsKeep
<1>8. x \in [0..N -> Nodes]
  <2>1. x = [k \in 0..N |-> IF k = 0 THEN i
                            ELSE IF up[x[k - 1]] = s THEN x[k - 1] ELSE up[x[k - 1]]]
    BY <1>1, <1>4
  <2>2. \A k \in 0..N : x[k] \in Nodes
    BY <1>7
  <2> HIDE DEF Steps, N
  <2> QED
    BY <2>1, <2>2
<1> QED
  BY <1>5, <1>6, <1>8 DEF Walk

\* On the way up the levels fall, and the walk ends one level below the start.
LEMMA WalkEnds ==
    ASSUME Sizes, NumRouters >= 2, NEW M, NEW s \in Nodes, NEW st \in State,
           NEW level, Hangs(M, s, st, Rounds, level),
           NEW i \in Nodes \ {s}, NEW x, Walk(st.previous, s, i, x)
    PROVE  /\ \A k \in 0..(NumRouters - 1) : x[k] \in Nodes \ {s}
           /\ st.previous[x[NumRouters - 1]] = s
<1> DEFINE N == NumRouters - 1
           up == st.previous
           Good == {k \in 0..N : /\ x[k] \in Nodes \ {s}
                                 /\ up[x[k]] = s \/ level[x[k]] + k <= N}
<1>1. N \in Nat /\ N = Rounds + 1
  BY RoundsIs DEF Sizes
<1>2. /\ x \in [0..N -> Nodes] /\ x[0] = i
      /\ \A k \in 1..N : x[k] = IF up[x[k - 1]] = s THEN x[k - 1] ELSE up[x[k - 1]]
  BY DEF Walk, OneUp
<1>3. up \in [Nodes -> Nodes]
  BY DEF State
<1>4. /\ level \in [Nodes -> Nat] /\ level[s] = 0
      /\ \A j \in Nodes : level[j] <= N
      /\ \A j \in Nodes \ {s} : level[j] = level[up[j]] + 1
  BY <1>1 DEF Hangs
<1> HIDE DEF up
<1>5. 0 \in Good
  BY <1>1, <1>2, <1>4
<1>6. ASSUME NEW k \in 1..N, k - 1 \in Good PROVE k \in Good
  <2> DEFINE j == x[k - 1]
  <2>1. j \in Nodes \ {s} /\ (up[j] = s \/ level[j] + (k - 1) <= N) /\ k \in 0..N
    BY <1>1, <1>6
  <2>2. x[k] = IF up[j] = s THEN j ELSE up[j]
    BY <1>2
  <2> HIDE DEF j
  <2>3. CASE up[j] = s
    BY <2>1, <2>2, <2>3
  <2>4. CASE up[j] # s
    <3>1. level[j] = level[up[j]] + 1 /\ level[up[j]] \in Nat /\ up[j] \in Nodes
      BY <1>3, <1>4, <2>1
    <3>2. level[up[j]] + k <= N
      BY <1>1, <2>1, <2>4, <3>1
    <3> QED
      BY <2>1, <2>2, <2>4, <3>1, <3>2
  <2> QED
    BY <2>3, <2>4
<1>7. Good = 0..N
  <2>1. Good \in SUBSET (0..N)
    OBVIOUS
  <2> HIDE DEF Good, N
  <2> QED
    BY <1>1, <1>5, <1>6, <2>1, StepsKeep
<1>8. N \in Good
  BY <1>1, <1>7
<1>9. up[x[N]] = s
  <2> DEFINE h == x[N]
  <2>1. h \in Nodes \ {s} /\ (up[h] = s \/ level[h] + N <= N)
    BY <1>8
  <2>2. level[h] = level[up[h]] + 1 /\ level[up[h]] \in Nat
    BY <1>3, <1>4, <2>1
  <2> HIDE DEF h, N
  <2>3. up[h] = s
    BY <1>1, <2>1, <2>2
  <2> QED
    BY <2>3 DEF h
<1> QED
  BY <1>7, <1>9 DEF up

\* From where the walk ends, the way down to its first router costs no more
\* than the distances on the walk differ.
LEMMA WayDown ==
    ASSUME Sizes, NumRouters >= 2, NEW M, Weighted(M), NEW s \in Nodes, NEW st \in State,
           NEW level, Hangs(M, s, st, Rounds, level),
           NEW i \in Nodes \ {s}, st.distance[i] < INF,
           NEW x, Walk(st.previous, s, i, x),
           NEW w, Within(M, x[NumRouters - 1], w)
    PROVE  LET h == x[NumRouters - 1]
           IN  /\ st.distance[h] < INF
               /\ st.distance[h] + w[NumRouters - 1][i] <= st.distance[i]
<1> DEFINE N == NumRouters - 1
           up == st.previous
           d == st.distance
           h == x[N]
<1>1. N \in Nat /\ INF \in Nat
  BY DEF Sizes
<1>2. /\ x \in [0..N -> Nodes] /\ x[0] = i
      /\ \A k \in 1..N : x[k] = IF up[x[k - 1]] = s THEN x[k - 1] ELSE up[x[k - 1]]
  BY DEF Walk, OneUp
<1>3. up \in [Nodes -> Nodes] /\ d \in [Nodes -> Nat]
  BY DEF State
<1>4. \A k \in 0..N : x[k] \in Nodes \ {s}
  BY WalkEnds
<1>5. \A j \in Nodes \ {s} : d[j] < INF => d[j] = d[up[j]] + M[up[j]][j]
  BY DEF Hangs
<1>6. \A j, k \in Nodes : M[j][k] \in Nat
  BY DEF Weighted
<1>7. d[i] < INF
  OBVIOUS
<1>8. h \in Nodes /\ w \in [0..N -> [Nodes -> Nat]] /\ w[0] = NoLink(h)
      /\ \A k \in 1..N : w[k] = OneMoreLink(M, w[k - 1])
  BY <1>1, <1>2 DEF Within
<1> HIDE DEF up, d, h
<1> DEFINE Near == {k \in 0..N : d[x[k]] < INF}
<1>9. Near = 0..N
  <2>1. 0 \in Near
    BY <1>1, <1>2, <1>7
  <2>2. ASSUME NEW k \in 1..N, k - 1 \in Near PROVE k \in Near
    <3> DEFINE j == x[k - 1]
    <3>1. j \in Nodes \ {s} /\ d[j] < INF /\ x[k] = IF up[j] = s THEN j ELSE up[j]
      BY <1>1, <1>2, <1>4, <2>2
    <3> HIDE DEF j
    <3>2. /\ d[j] = d[up[j]] + M[up[j]][j] /\ up[j] \in Nodes
          /\ d[up[j]] \in Nat /\ M[up[j]][j] \in Nat
      BY <1>3, <1>5, <1>6, <3>1
    <3>3. d[up[j]] < INF
      BY <1>1, <3>1, <3>2
    <3> QED
      BY <1>1, <3>1, <3>3
  <2>3. Near \in SUBSET (0..N)
    OBVIOUS
  <2> HIDE DEF Near, N
  <2> QED
    BY <1>1, <2>1, <2>2, <2>3, StepsKeep
<1> DEFINE Good == {m \in 0..N : d[h] + w[m][x[N - m]] <= d[x[N - m]]}
<1>10. 0 \in Good
  <2>1. N - 0 = N
    BY <1>1
  <2>2. w[0][h] = 0 /\ d[h] \in Nat
    BY <1>3, <1>8 DEF NoLink
  <2> QED
    BY <1>1, <2>1, <2>2 DEF h
<1>11. ASSUME NEW m \in 1..N, m - 1 \in Good PROVE m \in Good
  <2> DEFINE k == N - m + 1
             j == x[k - 1]
             a == x[k]
             v == w[m - 1]
  <2>1. k \in 1..N /\ k - 1 = N - m /\ N - (m - 1) = k /\ m - 1 \in 0..N /\ k - 1 \in 0..N
    BY <1>1
  <2>2. d[h] + v[a] <= d[a]
    BY <1>11, <2>1
  <2>3. /\ j \in Nodes \ {s} /\ a \in Nodes /\ a = (IF up[j] = s THEN j ELSE up[j])
        /\ d[j] < INF
    BY <1>1, <1>2, <1>4, <1>9, <2>1
  <2>4. v \in [Nodes -> Nat] /\ w[m] = OneMoreLink(M, v) /\ w[m] \in [Nodes -> Nat]
    BY <1>8, <2>1
  <2>5. w[m][j] <= v[j] /\ w[m][j] <= Plus(v[a], M[a][j])
    BY <2>3, <2>4, OneMoreLinkIs
  <2> HIDE DEF k, v
  <2>6. /\ w[m][j] \in Nat /\ v[j] \in Nat /\ v[a] \in Nat /\ d[h] \in Nat /\ d[j] \in Nat
        /\ d[a] \in Nat /\ M[a][j] \in Nat
    BY <1>3, <1>6, <1>8, <2>3, <2>4
  <2> HIDE DEF j, a
  <2>7. d[h] + w[m][j] <= d[j]
    <3>1. CASE a = j
      BY <2>2, <2>5, <2>6, <3>1
    <3>2. CASE a = up[j]
      <4>1. d[j] = d[a] + M[a][j]
        BY <1>5, <2>3, <3>2
      <4>2. v[a] + M[a][j] < INF
        BY <1>1, <2>2, <2>3, <2>6, <4>1
      <4>3. w[m][j] <= v[a] + M[a][j]
        BY <2>5, <4>2 DEF Plus
      <4> QED
        BY <2>2, <2>6, <4>1, <4>3
    <3> QED
      BY <2>3, <3>1, <3>2
  <2> QED
    BY <1>1, <2>1, <2>7 DEF j
<1>12. Good = 0..N
  <2>1. Good \in SUBSET (0..N)
    OBVIOUS
  <2> HIDE DEF Good, N
  <2> QED
    BY <1>1, <1>10, <1>11, <2>1, StepsKeep
<1>13. N \in 0..N /\ N \in Near /\ N \in Good /\ N - N = 0
  BY <1>1, <1>9, <1>12
<1>14. d[x[N]] < INF /\ d[h] + w[N][x[N - N]] <= d[x[N - N]]
  <2> HIDE DEF N
  <2> QED
    BY <1>13
<1> QED
  BY <1>2, <1>13, <1>14 DEF d, h

\* The router printed for a reachable destination is a neighbour of the start on
\* a cheapest path, and the loop that finds it ends (dijkstra.c:137-147).
THEOREM ForwardsAreRight ==
    ASSUME Sizes, NEW M, Weighted(M), NEW s \in Nodes, StartLinked(M, s)
    PROVE  ForwardsOnCheapestPath(M, s)
<1> DEFINE st == dijkstra(M, s)
           d == st.distance
           up == st.previous
           N == NumRouters - 1
<1>1. PICK w : Within(M, s, w)
  BY CostIs
<1>2. NumRouters >= 2 /\ N \in 0..N
  BY Linked DEF Sizes
<1>3. Closing(M, s, st) /\ Progress(st, Rounds) /\ Tree(M, s, st, Rounds)
  BY <1>1, AfterIs
<1>4. PICK level : Hangs(M, s, st, Rounds, level)
  BY <1>3 DEF Tree
<1>5. DistancesRight(M, s)
  BY DistancesAreRight
<1> SUFFICES ASSUME NEW i \in Nodes \ {s}
             PROVE  LET hop == NextStep(up, s, i)
                    IN  /\ up[hop] = s
                        /\ Cost(M, s)[i] < INF =>
                              /\ M[s][hop] < INF
                              /\ Cost(M, s)[i] = M[s][hop] + Cost(M, hop)[i]
  BY DEF ForwardsOnCheapestPath
<1> HIDE DEF st
<1>6. st \in State /\ up \in [Nodes -> Nodes] /\ d \in [Nodes -> Nat] /\ d[s] = 0
  BY <1>3 DEF Closing, State
<1>7. PICK x : Walk(up, s, i, x) /\ NextStep(up, s, i) = x[N]
  BY <1>6, NextStepIs
<1> DEFINE hop == x[N]
<1>8. up[hop] = s /\ hop \in Nodes \ {s}
  <2>1. /\ \A k \in 0..(NumRouters - 1) : x[k] \in Nodes \ {s}
        /\ st.previous[x[NumRouters - 1]] = s
    BY <1>2, <1>4, <1>6, <1>7, WalkEnds
  <2> QED
    BY <1>2, <2>1
<1>9. ASSUME Cost(M, s)[i] < INF
      PROVE  M[s][hop] < INF /\ Cost(M, s)[i] = M[s][hop] + Cost(M, hop)[i]
  <2>1. d[i] = Cost(M, s)[i] /\ d[i] < INF
    BY <1>5, <1>9 DEF DistancesRight, st
  <2>2. PICK v : Within(M, hop, v) /\ Cost(M, hop) = v[N]
    BY <1>8, CostIs
  <2>3. d[hop] < INF /\ d[hop] + v[N][i] <= d[i]
    BY <1>2, <1>4, <1>6, <1>7, <2>1, <2>2, WayDown
  <2>4. d[hop] = M[s][hop]
    <3>1. d[hop] = d[s] + M[s][hop]
      BY <1>4, <1>8, <2>3 DEF Hangs
    <3>2. M[s][hop] \in Nat
      BY <1>8 DEF Weighted
    <3> QED
      BY <1>6, <3>1, <3>2
  <2>5. \A j, k \in Nodes : d[j] < INF => d[k] <= d[j] + M[j][k]
    BY <1>2, <1>3, NoShortcut
  <2>6. d[hop] \in Nat /\ d[i] \in Nat /\ v[N][i] \in Nat
    BY <1>2, <1>6, <1>8, <2>2 DEF Within
  <2> HIDE DEF d, up, hop
  <2>7. \A k \in 0..N, j \in Nodes : d[hop] + v[k][j] < INF => d[j] <= d[hop] + v[k][j]
    BY <1>6, <1>8, <2>2, <2>5, <2>6, NoWayIsShorter
  <2>8. d[hop] + v[N][i] < INF => d[i] <= d[hop] + v[N][i]
    BY <1>2, <2>7
  <2>9. d[i] = d[hop] + v[N][i]
    <3> HIDE DEF N
    <3> QED
      BY <2>1, <2>3, <2>6, <2>8 DEF Sizes
  <2> QED
    BY <2>1, <2>2, <2>3, <2>4, <2>9
<1> QED
  BY <1>7, <1>8, <1>9

=============================================================================
