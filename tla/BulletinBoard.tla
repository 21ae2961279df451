--------------------------- MODULE BulletinBoard -----------------------------
(***************************************************************************)
(* What the bulletin board of SysNet2/P1 promises its users, with no ring, *)
(* token, lock or file: messages are kept in the order they were posted,   *)
(* numbered from 1 on (msgparser.h:9-11), and a user who asks is shown the *)
(* message of the number given, or the range of the numbers.               *)
(***************************************************************************)
EXTENDS Naturals, Sequences

CONSTANTS
    Users,
    Bodies,     \* what may be posted
    Numbers     \* the numbers that may be asked for

VARIABLES
    entries,    \* the messages with their numbers
    shown       \* the last answer to each user

vars == <<entries, shown>>

Init ==
    /\ entries = << >>
    /\ shown = [u \in Users |-> [kind |-> "nothing", count |-> 0, body |-> << >>]]

Post ==
    /\ \E body \in Bodies :
          entries' = Append(entries, [id |-> Len(entries) + 1, body |-> body])
    /\ UNCHANGED shown

Message(n) ==
    IF n \in DOMAIN entries
    THEN [kind |-> "message", count |-> n, body |-> entries[n].body]
    ELSE [kind |-> "missing", count |-> n, body |-> << >>]

Read(u) ==
    /\ \E n \in Numbers : shown' = [shown EXCEPT ![u] = Message(n)]
    /\ UNCHANGED entries

List(u) ==
    /\ entries # << >>
    /\ shown' = [shown EXCEPT ![u] =
                    [kind |-> "range", count |-> Len(entries), body |-> << >>]]
    /\ UNCHANGED entries

Next == Post \/ \E u \in Users : Read(u) \/ List(u)

Spec == Init /\ [][Next]_vars

=============================================================================
