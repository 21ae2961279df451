-------------------------------- MODULE Shell --------------------------------
(***************************************************************************)
(* The shell of SysNet1/Project1: it reads a command, starts n copies of   *)
(* its program with fork and execv, and waits for all of them.  A word of  *)
(* a command is a value; files are told apart from the names that lead to  *)
(* them.  The programs are not part of the repository: each writes one     *)
(* line to its output and ends.                                            *)
(***************************************************************************)
EXTENDS Ordered

CONSTANTS
    Typed,          \* the lines a user may type, but for "exit"
    Leftovers,      \* what the unset command buffer may hold at the start
    MaxLines,       \* bound on the lines typed
    Words,
    Number,         \* atoi of the words isInt accepts
    Decimal,        \* the word sprintf makes of an index
    Executables,    \* words access(.., X_OK) accepts
    Programs,       \* ... and execv can start
    Files,
    FileOf,         \* the file a word leads to
    Protected,      \* files that can be neither removed nor written
    Undeletable,    \* files that can be written, but that remove leaves there
    NULL

\* What a file held before, and what a failed execv writes, as lines of words.
Old == <<"old">>
ExecFailed == <<"Exec has failed to launch a new process.">>
Text == Seq(Words \cup {Old[1], ExecFailed[1]})

Token == [kind : {"arg", "in", "out"}, word : Words]

\* A line as the words strtok finds in it, and those of one kind.
OfKind(line, kind) == {k \in DOMAIN line : line[k].kind = kind}

\* The argument vector has room for MAXARGS words, and tokenize does not look:
\* what a longer line overwrites is not modelled.
MAXARGS == 32
Line    == {line \in Seq(Token) : Cardinality(OfKind(line, "arg")) <= MAXARGS}

ASSUME ShellAssumption ==
    /\ Typed \subseteq Line
    /\ Leftovers \subseteq Line
    /\ MaxLines \in Nat
    /\ DOMAIN Number \subseteq Words /\ \A w \in DOMAIN Number : Number[w] \in Int
    /\ \A w \in DOMAIN Number : \A i \in 0..(Number[w] - 1) :
          Decimal[i] \in DOMAIN Number /\ Number[Decimal[i]] = i
    /\ Programs \subseteq Executables
    /\ FileOf \in [Words -> Files]
    /\ Protected \subseteq Files
    /\ Undeletable \subseteq Files \ Protected
    /\ NULL \notin Words \cup Seq(Text)

VARIABLES
    pc,             \* where the shell is
    command,        \* the buffer fgets fills
    lines,          \* how many lines were read (only to bound them)
    eof,            \* has the input ended?
    inputCommand,   \* the Param_t tokenize fills
    n,              \* copies to start
    children,       \* the processes forked for this command, by index
    waited,         \* the loop counter of waitChildren
    fs,             \* the lines of each file, or NULL if there is no such file
    before          \* history: the lines of the output file before its removal

vars == <<pc, command, lines, eof, inputCommand, n, children, waited, fs, before>>

NoParam == [argv |-> << >>, in |-> NULL, out |-> NULL]

Init ==
    /\ pc = "prompt"
    /\ command \in Leftovers
    /\ lines = 0
    /\ eof = FALSE
    /\ inputCommand = NoParam
    /\ n = 0
    /\ children = << >>
    /\ waited = 0
    /\ fs \in {g \in [Files -> {NULL, <<Old>>}] : \A f \in Undeletable : g[f] # NULL}
    /\ before = << >>

(***************************************************************************)
(* Reading a command.  strtok ends the buffer after its first word.        *)
(***************************************************************************)
Args(line) == PickedFrom(line, OfKind(line, "arg"))

LastOfKind(line, kind) ==
    IF OfKind(line, kind) = {} THEN NULL ELSE line[LastOf(OfKind(line, kind))].word

tokenize(line) ==
    [argv |-> [k \in DOMAIN Args(line) |-> Args(line)[k].word],
     in   |-> LastOfKind(line, "in"),
     out  |-> LastOfKind(line, "out")]

\* Mutant: the words are taken from a copy of the buffer.
CutByStrtokCopy(line) == line

CutByStrtok(line) == IF line = << >> THEN << >> ELSE <<line[1]>>

Tokenized(line) ==
    /\ inputCommand' = tokenize(line)
    /\ command' = CutByStrtok(line)
    /\ pc' = "process"
    /\ UNCHANGED <<n, children, waited, fs, before>>

ReadCommand ==
    /\ pc = "prompt" /\ ~eof /\ lines < MaxLines
    /\ lines' = lines + 1
    /\ \E line \in Typed : Tokenized(line)
    /\ UNCHANGED eof

ReadExit ==
    /\ pc = "prompt" /\ ~eof /\ lines < MaxLines
    /\ lines' = lines + 1
    /\ pc' = "ended"
    /\ UNCHANGED <<command, eof, inputCommand, n, children, waited, fs, before>>

\* fgets returns NULL and leaves the buffer alone; main does not look.
ReadAtEnd ==
    /\ pc = "prompt"
    /\ eof' = TRUE
    /\ Tokenized(command)
    /\ UNCHANGED lines

(***************************************************************************)
(* processCmd: the checks, and the removal of an old output file.          *)
(***************************************************************************)
Exists(word) == fs[FileOf[word]] # NULL
TextOf(f)    == IF fs[f] = NULL THEN << >> ELSE fs[f]

Accepted(cmd) ==
    /\ Len(cmd.argv) >= 2
    /\ cmd.argv[1] \in Executables
    /\ cmd.argv[2] \in DOMAIN Number
    /\ Number[cmd.argv[2]] >= 1
    /\ cmd.in # NULL => Exists(cmd.in)
    /\ cmd.out # NULL /\ cmd.in # NULL => cmd.out # cmd.in

\* Whether remove succeeds is not looked at.
Remove(cmd) ==
    IF /\ cmd.out # NULL /\ Exists(cmd.out)
       /\ FileOf[cmd.out] \notin Protected \cup Undeletable
    THEN [fs EXCEPT ![FileOf[cmd.out]] = NULL]
    ELSE fs

TextBefore(cmd) == IF cmd.out = NULL THEN << >> ELSE TextOf(FileOf[cmd.out])

RejectCommand ==
    /\ pc = "process"
    /\ ~Accepted(inputCommand)
    /\ pc' = "prompt"
    /\ UNCHANGED <<command, lines, eof, inputCommand, n, children, waited, fs, before>>

\* Mutant: the loop counter of waitChildren is not set to 0.
AcceptCommandNoReset ==
    /\ pc = "process"
    /\ Accepted(inputCommand)
    /\ n' = Number[inputCommand.argv[2]]
    /\ fs' = Remove(inputCommand)
    /\ before' = TextBefore(inputCommand)
    /\ children' = << >>
    /\ pc' = "fork"
    /\ UNCHANGED <<command, lines, eof, inputCommand, waited>>

AcceptCommand ==
    /\ pc = "process"
    /\ Accepted(inputCommand)
    /\ n' = Number[inputCommand.argv[2]]
    /\ fs' = Remove(inputCommand)
    /\ before' = TextBefore(inputCommand)
    /\ children' = << >>            \* nobody is left: NoneLeftAtPrompt
    /\ waited' = 0
    /\ pc' = "fork"
    /\ UNCHANGED <<command, lines, eof, inputCommand>>

(***************************************************************************)
(* execCmd: fork n times, stop at the first failure, wait for the rest.    *)
(***************************************************************************)
forkCount == Len(children)

\* The vector the child is started with: program, n, index, the other words.
formatChildArgV(cmd, i) ==
    <<cmd.argv[1], cmd.argv[2], Decimal[i]>> \o SubSeq(cmd.argv, 3, Len(cmd.argv))

Child(i) == [argv |-> formatChildArgV(inputCommand, i), state |-> "forked",
             outcome |-> "none"]

Fork ==
    /\ pc = "fork" /\ forkCount < n
    /\ children' = Append(children, Child(forkCount))
    /\ UNCHANGED <<pc, command, lines, eof, inputCommand, n, waited, fs, before>>

ForkEnds ==
    /\ pc = "fork"          \* all n are forked, or fork fails
    /\ pc' = "wait"
    /\ UNCHANGED <<command, lines, eof, inputCommand, n, children, waited, fs, before>>

\* wait takes any child that has ended.  There always is a child to wait for:
\* as many are waited for as were forked.
Wait ==
    /\ pc = "wait" /\ waited < forkCount
    /\ waited' = waited + 1
    /\ \E k \in DOMAIN children :
          /\ children[k].state = "zombie"
          /\ children' = [children EXCEPT ![k].state = "reaped"]
    /\ UNCHANGED <<pc, command, lines, eof, inputCommand, n, fs, before>>

\* Mutant: one child too few is waited for.
WaitReturnsEarly ==
    /\ pc = "wait" /\ waited + 1 >= forkCount
    /\ pc' = "prompt"
    /\ UNCHANGED <<command, lines, eof, inputCommand, n, children, waited, fs, before>>

WaitReturns ==
    /\ pc = "wait" /\ waited = forkCount
    /\ pc' = "prompt"
    /\ UNCHANGED <<command, lines, eof, inputCommand, n, children, waited, fs, before>>

(***************************************************************************)
(* A child between fork and execv, and the program it becomes.             *)
(***************************************************************************)
shellVars == <<pc, command, lines, eof, inputCommand, n, waited, before>>

Moves(k, from, to) ==
    /\ k \in DOMAIN children /\ children[k].state = from
    /\ children' = [children EXCEPT ![k].state = to]
    /\ UNCHANGED shellVars

Ends(k, from, outcome) ==
    /\ k \in DOMAIN children /\ children[k].state = from
    /\ children' = [children EXCEPT ![k].state = "zombie", ![k].outcome = outcome]
    /\ UNCHANGED shellVars

\* formatChildArgV allocates for argumentCount pointers and two bytes, and
\* stores two pointers more.  What malloc rounds up to has room for an odd
\* argumentCount only: else the child may die of a broken heap.
Overruns(cmd) == Len(cmd.argv) % 2 = 0

ChildCrashes(k) ==
    /\ Overruns(inputCommand)
    /\ \E from \in {"forked", "input", "output"} : Ends(k, from, "crashed")
    /\ UNCHANGED fs

RedirectInput(k) ==
    /\ inputCommand.in # NULL => Exists(inputCommand.in)
    /\ Moves(k, "forked", "input")
    /\ UNCHANGED fs

NoInput(k) ==
    /\ inputCommand.in # NULL /\ ~Exists(inputCommand.in)
    /\ Ends(k, "forked", "failed")
    /\ UNCHANGED fs

\* Mutant: every child opens the file to write.
OpenedToWrite(out) == [fs EXCEPT ![FileOf[out]] = << >>]

\* Opened to append: the file is created if need be, never truncated.
Opened(out) == IF fs[FileOf[out]] = NULL THEN [fs EXCEPT ![FileOf[out]] = << >>] ELSE fs

RedirectOutput(k) ==
    /\ Moves(k, "input", "output")
    /\ \/ inputCommand.out = NULL /\ UNCHANGED fs
       \/ /\ inputCommand.out # NULL
          /\ FileOf[inputCommand.out] \notin Protected
          /\ fs' = Opened(inputCommand.out)

NoOutput(k) ==
    /\ inputCommand.out # NULL /\ FileOf[inputCommand.out] \in Protected
    /\ Ends(k, "input", "failed")
    /\ UNCHANGED fs

Printed(text) ==
    IF inputCommand.out = NULL THEN fs
    ELSE [fs EXCEPT ![FileOf[inputCommand.out]] = Append(@, text)]

Execute(k) ==
    /\ Moves(k, "output", "program")
    /\ inputCommand.argv[1] \in Programs
    /\ UNCHANGED fs

\* Mutant: the child does not exit and waits in a loop of its own.
ExecuteFailsStays(k) ==
    /\ k \in DOMAIN children /\ children[k].state = "output"
    /\ inputCommand.argv[1] \notin Programs
    /\ UNCHANGED vars

\* execv fails: the message goes where the program's output would have gone.
ExecuteFails(k) ==
    /\ Ends(k, "output", "failed")
    /\ inputCommand.argv[1] \notin Programs
    /\ fs' = Printed(ExecFailed)

RunProgram(k) ==
    /\ Ends(k, "program", "ran")
    /\ fs' = Printed(children[k].argv)

ChildStep(k) ==
    \/ ChildCrashes(k)
    \/ RedirectInput(k) \/ NoInput(k)
    \/ RedirectOutput(k) \/ NoOutput(k)
    \/ Execute(k) \/ ExecuteFails(k)
    \/ RunProgram(k)

main ==
    \/ ReadCommand \/ ReadExit \/ ReadAtEnd
    \/ RejectCommand \/ AcceptCommand
    \/ Fork \/ ForkEnds
    \/ Wait \/ WaitReturns

Next == main \/ \E k \in DOMAIN children : ChildStep(k)

Spec == Init /\ [][Next]_vars

\* The system schedules the shell and every child, and the programs end.
Indices == UNION {1..Number[w] : w \in DOMAIN Number}
FairSpec == Spec /\ WF_vars(main) /\ \A k \in Indices : WF_vars(ChildStep(k))

(***************************************************************************)
(* Properties.                                                             *)
(***************************************************************************)
ChildrenOf(argvs) ==
    [argv : argvs,
     state : {"forked", "input", "output", "program", "zombie", "reaped"},
     outcome : {"none", "crashed", "failed", "ran"}]

\* The variables keep their types.  Of lines with at most MAXARGS arguments
\* the buffer and the argument vector never hold more, whatever strtok and the
\* end of the input leave to be read again (parse.h:16-31, parse.c:53-74).
TypeOK ==
    /\ pc \in {"prompt", "process", "fork", "wait", "ended"}
    /\ command \in Line
    /\ lines \in 0..MaxLines
    /\ eof \in BOOLEAN
    /\ inputCommand \in [argv : Seq(Words), in : Words \cup {NULL}, out : Words \cup {NULL}]
    /\ Len(inputCommand.argv) <= MAXARGS
    /\ n \in Nat
    /\ children \in Seq(ChildrenOf(Text))
    /\ waited \in 0..forkCount
    /\ fs \in [Files -> Seq(Text) \cup {NULL}]
    /\ before \in Seq(Text)

\* No child is left, running or as a zombie, when the shell takes the next
\* command or ends: whatever fails or crashes, as many children are waited for
\* as were forked (myshell.c:52, 192-244).
NoneLeftAtPrompt ==
    pc \in {"prompt", "process", "ended"} =>
        \A k \in DOMAIN children : children[k].state = "reaped"

\* Once the input has ended the shell never leaves its loop, but it starts
\* nothing any more: the old command it keeps reading was cut to one word by
\* strtok (myshell.c:106-125, parse.c:54).
EndOfInputStartsNothing == eof /\ lines > 0 => pc \in {"prompt", "process"}

\* What the children of one command wrote, one line each, in any order.
LineOf(k) == IF children[k].outcome = "ran"
             THEN <<inputCommand.argv[1], inputCommand.argv[2], Decimal[k - 1]>>
                  \o SubSeq(inputCommand.argv, 3, Len(inputCommand.argv))
             ELSE ExecFailed
Writers == {k \in DOMAIN children : children[k].outcome \in {"ran", "failed"}}

\* The text is the old one and, behind it, one line of every writer.
Whole(old, text) ==
    LET new == DOMAIN text \ DOMAIN old IN
    /\ Len(text) = Len(old) + Cardinality(Writers)
    /\ \A j \in DOMAIN old : text[j] = old[j]
    /\ \E order \in [new -> Writers] :
          /\ \A k \in Writers : \E j \in new : order[j] = k
          /\ \A j \in new : text[j] = LineOf(order[j])

\* What remove leaves of the output file.
Earlier(f) == IF f \in Undeletable THEN before ELSE << >>

\* When the prompt comes back, the output file holds one line of every child
\* that did not crash, with the index it was started under, none overwritten
\* by another child, and of what it held before all or nothing: all where
\* remove fails and the file is appended to, though processCmd means to delete
\* it, and nothing elsewhere.  If the output is the input under another name,
\* which processCmd does not see, and can be removed, the input is gone and no
\* program has run (myshell.c:56-58, 172-190, 213-216, 246-262).
OutputIsWhole ==
    [][pc = "wait" /\ pc' = "prompt" /\ inputCommand.out # NULL =>
        LET f == FileOf[inputCommand.out]
        IN  IF f \in Protected
            THEN \A k \in DOMAIN children : children[k].outcome # "ran"
            ELSE IF /\ inputCommand.in # NULL /\ FileOf[inputCommand.in] = f
                    /\ f \notin Undeletable
                 THEN fs[f] = NULL
                 ELSE Whole(Earlier(f), TextOf(f))]_vars

\* The prompt comes back after every command, if the programs end.
PromptReturns == pc \in {"process", "fork", "wait"} ~> pc = "prompt"

=============================================================================
