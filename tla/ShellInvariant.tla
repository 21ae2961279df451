--------------------------- MODULE ShellInvariant ----------------------------
(***************************************************************************)
(* Why the shell keeps its promises: what holds between the prompt and the *)
(* next one, while the children run.                                       *)
(***************************************************************************)
EXTENDS Shell

\* The loop of waitChildren counts the children it has taken.
Reaped == {k \in DOMAIN children : children[k].state = "reaped"}

Vectors(c) == {c[k].argv : k \in DOMAIN c}

WaitingInv ==
    /\ children \in Seq(ChildrenOf(Vectors(children)))
    /\ pc \in {"prompt", "process", "fork", "wait", "ended"}
    /\ pc \in {"fork", "wait"} => waited = Cardinality(Reaped)
    /\ NoneLeftAtPrompt

-----------------------------------------------------------------------------

\* A child that has not ended has no outcome yet, and one that writes has its
\* file open.
Ended(k) == children[k].state \in {"zombie", "reaped"}
Writes(k) == children[k].state \in {"output", "program"}
OutFile == FileOf[inputCommand.out]
InFile  == FileOf[inputCommand.in]

Starting == pc \in {"fork", "wait"}

\* The command that is carried out was accepted, and every child was started
\* with its own index.
CommandInv == Starting =>
    /\ Len(inputCommand.argv) >= 2
    /\ inputCommand.argv[2] \in DOMAIN Number
    /\ n = Number[inputCommand.argv[2]]
    /\ \A k \in DOMAIN children :
          /\ children[k].argv = formatChildArgV(inputCommand, k - 1)
          /\ ~Ended(k) => children[k].outcome = "none"
          /\ Writes(k) /\ inputCommand.out # NULL =>
                OutFile \notin Protected /\ fs[OutFile] # NULL

\* What the output file holds while the children write it.
Overwritten == inputCommand.in # NULL /\ InFile = OutFile /\ OutFile \notin Undeletable

OutputInv == Starting /\ inputCommand.out # NULL =>
    /\ OutFile \in Protected => \A k \in DOMAIN children : children[k].outcome # "ran"
    /\ OutFile \notin Protected /\ Overwritten =>
          /\ fs[OutFile] = NULL
          /\ \A k \in DOMAIN children : Ended(k) \/ children[k].state = "forked"
    /\ OutFile \notin Protected /\ ~Overwritten =>
          /\ inputCommand.in # NULL => Exists(inputCommand.in)
          /\ Whole(Earlier(OutFile), TextOf(OutFile))

\* After the first line the buffer holds one word at most, and so does the
\* command that is read again and again at the end of the input.
BufferInv ==
    /\ lines > 0 /\ pc # "ended" => Len(command) <= 1
    /\ eof /\ lines > 0 =>
          /\ pc \in {"prompt", "process"}
          /\ pc = "process" => Len(inputCommand.argv) <= 1

ShellInv == TypeOK /\ WaitingInv /\ CommandInv /\ OutputInv /\ BufferInv

=============================================================================
