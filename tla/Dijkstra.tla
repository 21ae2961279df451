------------------------------ MODULE Dijkstra -------------------------------
(***************************************************************************)
(* The shortest paths of SysNet2/P3/dijkstra.c as functions of the         *)
(* adjacency matrix, and a reference definition to compare them with.      *)
(* Links weigh at least 0; an entry of INF or more is no link.  node.c     *)
(* compiles this file but never calls dijkstra().                          *)
(***************************************************************************)
EXTENDS Integers

CONSTANTS NumRouters, INF

Nodes == 0..(NumRouters - 1)

\* distance, previous and visited as they are before the rounds.  nextnode is
\* set by the first round if the start has a link; without one the C code
\* reads it uninitialised, and StartLinked excludes that.
StartLinked(M, s) == \E i \in Nodes \ {s} : M[s][i] < INF

Initialised(M, s) ==
    [distance |-> [i \in Nodes |-> IF i = s THEN 0 ELSE M[s][i]],
     previous |-> [i \in Nodes |-> s],
     visited  |-> {s},
     nextnode |-> s]

\* The first unvisited node at the smallest distance below INF.
Candidates(st) == {i \in Nodes \ st.visited : st.distance[i] < INF}

Closest(st) ==
    CHOOSE i \in Candidates(st) : \A j \in Candidates(st) :
        st.distance[i] < st.distance[j] \/ (st.distance[i] = st.distance[j] /\ i <= j)

\* Mutant: the distance is improved, the way there not recorded.
RelaxNoWay(M, st, minDist, u) ==
    [st EXCEPT !.distance = [i \in Nodes |->
        IF i \notin st.visited /\ minDist + M[u][i] < @[i] THEN minDist + M[u][i] ELSE @[i]]]

\* One pass over the unvisited nodes: is the way through u shorter?
Relax(M, st, minDist, u) ==
    LET better == {i \in Nodes \ st.visited : minDist + M[u][i] < st.distance[i]}
    IN  [st EXCEPT !.distance = [i \in Nodes |-> IF i \in better THEN minDist + M[u][i] ELSE @[i]],
                   !.previous = [i \in Nodes |-> IF i \in better THEN u ELSE @[i]]]

\* When no candidate is left, nextnode keeps its value and minDist is INF.
Round(M, st) ==
    LET none == Candidates(st) = {}
        u == IF none THEN st.nextnode ELSE Closest(st)
        minDist == IF none THEN INF ELSE st.distance[u]
    IN  Relax(M, [st EXCEPT !.visited = @ \cup {u}, !.nextnode = u], minDist, u)

\* Mutant: one round too few.
RoundsShort == IF NumRouters > 3 THEN NumRouters - 3 ELSE 0

\* count runs from 1 to numRouters - 2.
Rounds == IF NumRouters > 2 THEN NumRouters - 2 ELSE 0

dijkstra(M, s) ==
    LET after[k \in 0..Rounds] == IF k = 0 THEN Initialised(M, s) ELSE Round(M, after[k - 1])
    IN  after[Rounds]

\* The walk from i along previous until the start comes next: what is printed
\* as the router to forward to.
NextStep(previous, s, i) ==
    LET step[k \in Nodes] ==
            IF k = 0 THEN i
            ELSE IF previous[step[k - 1]] = s THEN step[k - 1] ELSE previous[step[k - 1]]
    IN  step[NumRouters - 1]

(***************************************************************************)
(* Reference: the cost of the cheapest path of at most k links, or INF.    *)
(***************************************************************************)
Least(S) == CHOOSE x \in S : \A y \in S : x <= y
Plus(a, b) == IF a + b < INF THEN a + b ELSE INF

Cost(M, s) ==
    LET within[k \in Nodes] ==
            IF k = 0 THEN [i \in Nodes |-> IF i = s THEN 0 ELSE INF]
            ELSE [i \in Nodes |->
                    Least({within[k - 1][i]} \cup {Plus(within[k - 1][j], M[j][i]) : j \in Nodes})]
    IN  within[NumRouters - 1]

\* The distances are the costs of the cheapest paths, as far as they stay below
\* INF, and no other node is closer than INF (dijkstra.c:104-135).
DistancesRight(M, s) ==
    LET d == dijkstra(M, s).distance
    IN  \A i \in Nodes : IF Cost(M, s)[i] < INF THEN d[i] = Cost(M, s)[i] ELSE d[i] >= INF

\* The router printed for a reachable destination is a neighbour of the start
\* on a cheapest path, and the loop that finds it ends (dijkstra.c:137-147).
ForwardsOnCheapestPath(M, s) ==
    LET previous == dijkstra(M, s).previous
    IN  \A i \in Nodes \ {s} :
            LET hop == NextStep(previous, s, i)
            IN  /\ previous[hop] = s
                /\ Cost(M, s)[i] < INF =>
                      /\ M[s][hop] < INF
                      /\ Cost(M, s)[i] = M[s][hop] + Cost(M, hop)[i]

=============================================================================
