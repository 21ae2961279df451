----------------------------- MODULE PathTrials ------------------------------
(***************************************************************************)
(* Shortest paths on all the matrices of some weights.  They are constant: *)
(* no program of SysNet2/P3 runs dijkstra.c, so they are tried beside the  *)
(* routers of node.c, in one of their states.                              *)
(***************************************************************************)
EXTENDS LinkState

CONSTANTS
    MatrixSize,     \* how many routers a matrix is for
    Weights         \* what a link may cost one way

ASSUME PathAssumption ==
    MatrixSize \in Nat \ {0} /\ INF \in Nat /\ Weights \in SUBSET Nat

Paths == INSTANCE Dijkstra WITH NumRouters <- MatrixSize

\* A link may cost more on the way back: the two files need not agree.
Pairs == {p \in Paths!Nodes \X Paths!Nodes : p[1] < p[2]}
Matrix(w, back) == [i \in Paths!Nodes |-> [j \in Paths!Nodes |->
                      CASE i < j -> w[<<i, j>>] [] j < i -> w[<<j, i>>] + back [] OTHER -> INF]]
Cases == {<<Matrix(w, back), s>> :
             w \in [Pairs -> Weights], back \in {0, 3}, s \in Paths!Nodes}
LinkedCases == {c \in Cases : Paths!StartLinked(c[1], c[2])}

\* The algorithm does not depend on the routers: one state is enough to try it.
Trial == \A n \in Routers :
    pc[n] = "args" /\ started[n] = CHOOSE s \in StartedWith[n] : TRUE

\* On every such matrix and from every router with a link, dijkstra's distances
\* are those of the cheapest paths.
DijkstraDistancesRight ==
    Trial => \A c \in LinkedCases : Paths!DistancesRight(c[1], c[2])

\* ... and the forwarding table names the first router of a cheapest path.
DijkstraForwardsRight ==
    Trial => \A c \in LinkedCases : Paths!ForwardsOnCheapestPath(c[1], c[2])

=============================================================================
