-------------------------- MODULE LinkStateExchange --------------------------
(***************************************************************************)
(* What the routers promise each other: a router listens before it speaks, *)
(* hears at most one other router, only one that speaks to it, and has     *)
(* told every neighbour of its file when the flood reports success.        *)
(***************************************************************************)
CONSTANTS Routers, NULL

VARIABLES
    links,      \* whom each router's file tells it to inform; never changes
    heard,      \* the router each has heard, or NULL
    told,       \* whom each has sent its packet to
    outcome     \* "pending", "complete", or "cut" when it gave up

vars == <<links, heard, told, outcome>>

Init ==
    /\ links \in [Routers -> SUBSET Routers]
    /\ heard = [n \in Routers |-> NULL]
    /\ told = [n \in Routers |-> {}]
    /\ outcome = [n \in Routers |-> "pending"]

Hear(n, m) ==
    /\ heard[n] = NULL /\ told[n] = {} /\ outcome[n] = "pending"
    /\ n \in told[m]
    /\ heard' = [heard EXCEPT ![n] = m]
    /\ UNCHANGED <<links, told, outcome>>

Tell(n, m) ==
    /\ outcome[n] = "pending"
    /\ m \in links[n] \ told[n]
    /\ told' = [told EXCEPT ![n] = @ \cup {m}]
    /\ UNCHANGED <<links, heard, outcome>>

Complete(n) ==
    /\ outcome[n] = "pending" /\ told[n] = links[n]
    /\ outcome' = [outcome EXCEPT ![n] = "complete"]
    /\ UNCHANGED <<links, heard, told>>

GiveUp(n) ==
    /\ outcome[n] = "pending"
    /\ outcome' = [outcome EXCEPT ![n] = "cut"]
    /\ UNCHANGED <<links, heard, told>>

Next ==
    \E n \in Routers :
        \/ Complete(n)
        \/ GiveUp(n)
        \/ \E m \in Routers : Hear(n, m) \/ Tell(n, m)

Spec == Init /\ [][Next]_vars

=============================================================================
