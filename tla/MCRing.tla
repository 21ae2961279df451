------------------------------- MODULE MCRing --------------------------------
(***************************************************************************)
(* Instances of TokenRing for TLC: what the users may type.                *)
(***************************************************************************)
EXTENDS TokenRing, TLC

Text(n) == [tag |-> "text", n |-> n]
Gt(n)   == [tag |-> "gt", n |-> n]

Write(lines) == Command("WRITE", 0, lines)
Read(id)     == Command("READ", id, << >>)
ListAll      == Command("LIST", 0, << >>)
Exit         == Command("EXIT", 0, << >>)

\* Everybody writes one text, or leaves.
TypedAll == [p \in Peers |-> {Write(<<Text(1)>>), Exit}]

\* One user writes, the others read.
Writer == CHOOSE p \in Peers : TRUE
TypedOneWriter ==
    [p \in Peers |->
        IF p = Writer
        THEN {Write(<<Open(7), Text(1), Close, Gt(1)>>), Write(<< >>)}
        ELSE {Read(1), Read(2), ListAll, NONE}]

AnyPeer == Permutations(Peers)

=============================================================================
