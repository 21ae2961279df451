------------------------------- MODULE BbPeer --------------------------------
(***************************************************************************)
(* A peer: the network thread of bbpeer.c, which passes the token on, and  *)
(* the terminal thread of terminal.c, which carries out the user's         *)
(* commands on the message file.  They share terminalLock, userCmd and,    *)
(* unprotected, the position that strtok keeps between two calls.          *)
(***************************************************************************)
EXTENDS RingSocket, MessageLog

CONSTANTS
    Typed,          \* Typed[p]: what the user of p may type at the prompt
    MaxCommands,    \* bound: how often each user types
    PromptServer    \* bound: the server has told everybody before the token starts

\* A command with its argument: the lines of a message, or a number to read.
Command(op, id, lines) == [op |-> op, id |-> id, lines |-> lines]
NONE == Command("NONE", 0, << >>)

Ops      == {"NONE", "WRITE", "READ", "LIST", "EXIT"}
Commands == [op : Ops, id : Int, lines : Seq(Line)]

ASSUME PeerAssumption ==
    /\ MaxCommands \in Nat /\ PromptServer \in BOOLEAN
    /\ \A p \in Peers : \A c \in Typed[p] :
          /\ c \in Commands
          /\ c.op = "READ" => c.id >= FIRST_MESSAGE_INDEX

VARIABLES
    netPc,          \* of each peer's network thread
    told,           \* the datagrams taken before the ring loop
    buffer,         \* the datagram to pass on
    terminalLock,   \* is the mutex locked?
    userCmd,
    strtokBy,       \* the thread whose text the next strtok(NULL) continues
    termPc, tempUserCmd, typedSoFar,    \* of each peer's terminal thread
    msgCount,       \* the local variable of appendMsg
    shown,          \* the last answer on the terminal
    log             \* the message file that all peers share

networkVars  == <<netPc, told, buffer>>
terminalVars == <<termPc, tempUserCmd, typedSoFar, msgCount, shown>>
sharedVars   == <<terminalLock, userCmd, strtokBy>>
peerVars     == <<networkVars, terminalVars, sharedVars, log>>

NetPcs  == {"enter", "setup", "pair", "lock", "recv", "pass", "unlock", "gone",
            "crashed"}
TermPcs == {"off", "prompt", "secondWord", "lock", "handle", "check", "append",
            "unlock", "gone"}
\* What the terminal shows: a message or that there is none, or the range of
\* the numbers.
Answers == [kind : {"nothing", "missing", "message", "range"}, count : Int,
            body : Seq(Line)]

PeerTypeOK ==
    /\ netPc \in [Peers -> NetPcs]
    /\ told \in [Peers -> Seq(Datagram)] /\ \A p \in Peers : Len(told[p]) <= 3
    /\ buffer \in [Peers -> Datagram]
    /\ terminalLock \in [Peers -> BOOLEAN]
    /\ strtokBy \in [Peers -> {"network", "terminal"}]
    /\ termPc \in [Peers -> TermPcs]
    /\ userCmd \in [Peers -> Commands] /\ tempUserCmd \in [Peers -> Commands]
    /\ typedSoFar \in [Peers -> 0..MaxCommands]
    /\ msgCount \in [Peers -> Int]
    /\ shown \in [Peers -> Answers]
    /\ log \in Seq(Line)

PeerInit ==
    /\ netPc = [p \in Peers |-> "enter"]
    /\ told = [p \in Peers |-> << >>]
    /\ buffer = [p \in Peers |-> TOKEN]
    /\ terminalLock = [p \in Peers |-> FALSE]
    /\ userCmd = [p \in Peers |-> NONE]
    /\ strtokBy = [p \in Peers |-> "network"]
    /\ termPc = [p \in Peers |-> "off"]
    /\ tempUserCmd = [p \in Peers |-> NONE]
    /\ typedSoFar = [p \in Peers |-> 0]
    /\ msgCount = [p \in Peers |-> 0]
    /\ shown = [p \in Peers |-> [kind |-> "nothing", count |-> 0, body |-> << >>]]
    /\ log = << >>

NetGoto(p, from, to) == netPc[p] = from /\ netPc' = [netPc EXCEPT ![p] = to]

-----------------------------------------------------------------------------
(* The network thread. *)

\* The user presses ENTER; the peer calls in at the server.
Contact(p) ==
    /\ NetGoto(p, "enter", "setup")
    /\ sock' = Sent(sock, Server, Hello(p))
    /\ UNCHANGED <<bound, told, buffer, terminalVars, sharedVars, log>>

\* Mutant of ReceiveSetup: no end after the third datagram.
ReceiveSetupNoEnd(p) ==
    /\ netPc[p] \in {"setup", "pair"}
    /\ sock[p] # << >>
    /\ told' = [told EXCEPT ![p] = Append(@, Head(sock[p]))]
    /\ sock' = Received(sock, p)
    /\ netPc' = [netPc EXCEPT ![p] = IF Len(told[p]) >= 2 THEN "pair" ELSE @]
    /\ UNCHANGED <<bound, buffer, terminalVars, sharedVars, log>>

\* Three recvfrom calls take whatever comes: host name, port, token flag.
ReceiveSetup(p) ==
    /\ netPc[p] = "setup"
    /\ sock[p] # << >>
    /\ told' = [told EXCEPT ![p] = Append(@, Head(sock[p]))]
    /\ sock' = Received(sock, p)
    /\ netPc' = [netPc EXCEPT ![p] = IF Len(told[p]) = 2 THEN "pair" ELSE @]
    /\ UNCHANGED <<bound, buffer, terminalVars, sharedVars, log>>

\* destClientAddr: a port that is none gives the address of no process.
Dest(p) == IF told[p][2] = Port(told[p][1].val) THEN told[p][1].val ELSE Nowhere

\* gethostbyname finds the host; the initiator's token leaves, the terminal
\* thread starts.
Pair(p) ==
    /\ NetGoto(p, "pair", "lock")
    /\ PromptServer => Server \notin bound
    /\ told[p][1].kind = "host"
    /\ sock' = IF told[p][3] = TokenFlag(TRUE) THEN Sent(sock, Dest(p), TOKEN)
                                               ELSE sock
    /\ termPc' = [termPc EXCEPT ![p] = "prompt"]
    /\ UNCHANGED <<bound, told, buffer, tempUserCmd, typedSoFar, msgCount, shown,
                   sharedVars, log>>

\* gethostbyname knows no host of the name received and returns NULL, which
\* is dereferenced.
PairFails(p) ==
    /\ NetGoto(p, "pair", "crashed")
    /\ told[p][1].kind # "host"
    /\ bound' = bound \ {p}
    /\ sock' = [sock EXCEPT ![p] = << >>]
    /\ UNCHANGED <<told, buffer, terminalVars, sharedVars, log>>

LockTerminal(p) ==
    /\ NetGoto(p, "lock", "recv")
    /\ ~terminalLock[p]
    /\ terminalLock' = [terminalLock EXCEPT ![p] = TRUE]
    /\ UNCHANGED <<sockVars, told, buffer, terminalVars, userCmd, strtokBy, log>>

\* recvfrom and the strtok calls on what it got; nothing depends on the words.
ReceiveToken(p) ==
    /\ NetGoto(p, "recv", "pass")
    /\ sock[p] # << >>
    /\ buffer' = [buffer EXCEPT ![p] = Head(sock[p])]
    /\ sock' = Received(sock, p)
    /\ strtokBy' = [strtokBy EXCEPT ![p] = "network"]
    /\ UNCHANGED <<bound, told, terminalVars, terminalLock, userCmd, log>>

\* The token goes on to the next peer while terminalLock is still locked.
PassToken(p) ==
    /\ NetGoto(p, "pass", "unlock")
    /\ userCmd[p].op # "EXIT"
    /\ sock' = Sent(sock, Dest(p), buffer[p])
    /\ UNCHANGED <<bound, told, buffer, terminalVars, sharedVars, log>>

\* exitPending: the loop is left with the token, and the process ends.
Leave(p) ==
    /\ NetGoto(p, "pass", "gone")
    /\ userCmd[p].op = "EXIT"
    /\ bound' = bound \ {p}
    /\ sock' = [sock EXCEPT ![p] = << >>]
    /\ UNCHANGED <<told, buffer, terminalVars, sharedVars, log>>

\* Mutant of UnlockTerminal: the mutex is unlocked again on the next turn.
UnlockTerminalTwice(p) ==
    /\ netPc[p] \in {"unlock", "lock"}
    /\ netPc' = [netPc EXCEPT ![p] = "lock"]
    /\ terminalLock' = [terminalLock EXCEPT ![p] = FALSE]
    /\ UNCHANGED <<sockVars, told, buffer, terminalVars, userCmd, strtokBy, log>>

UnlockTerminal(p) ==
    /\ NetGoto(p, "unlock", "lock")
    /\ terminalLock' = [terminalLock EXCEPT ![p] = FALSE]
    /\ UNCHANGED <<sockVars, told, buffer, terminalVars, userCmd, strtokBy, log>>

NetworkThread(p) ==
    \/ Contact(p) \/ ReceiveSetup(p) \/ Pair(p) \/ PairFails(p)
    \/ LockTerminal(p) \/ ReceiveToken(p) \/ PassToken(p) \/ Leave(p)
    \/ UnlockTerminal(p)

-----------------------------------------------------------------------------
(* The terminal thread, as long as the process lives. *)

TermGoto(p, from, to) ==
    /\ netPc[p] # "gone"
    /\ termPc[p] = from /\ termPc' = [termPc EXCEPT ![p] = to]

\* parseCmdString of a line of one word, or of one that no word taken from it
\* makes a command (NONE).  "write" reads the message as well.
TypeOneWord(p) ==
    /\ TermGoto(p, "prompt", "lock")
    /\ typedSoFar[p] < MaxCommands
    /\ \E c \in {t \in Typed[p] : t.op # "READ"} :
          tempUserCmd' = [tempUserCmd EXCEPT ![p] =
                             [c EXCEPT !.lines = MessageInput(@)]]
    /\ typedSoFar' = [typedSoFar EXCEPT ![p] = @ + 1]
    /\ strtokBy' = [strtokBy EXCEPT ![p] = "terminal"]
    /\ UNCHANGED <<sockVars, networkVars, msgCount, shown, terminalLock, userCmd,
                   log>>

\* The first strtok on a line of two words: "read n", or another command with a
\* word too many.  (What a third word does, a second one does as well.)
TypeTwoWords(p) ==
    /\ TermGoto(p, "prompt", "secondWord")
    /\ typedSoFar[p] < MaxCommands
    /\ \E c \in {t \in Typed[p] : t.op # "NONE"} :
          tempUserCmd' = [tempUserCmd EXCEPT ![p] =
                             [c EXCEPT !.lines = MessageInput(@)]]
    /\ typedSoFar' = [typedSoFar EXCEPT ![p] = @ + 1]
    /\ strtokBy' = [strtokBy EXCEPT ![p] = "terminal"]
    /\ UNCHANGED <<sockVars, networkVars, msgCount, shown, terminalLock, userCmd,
                   log>>

\* The second strtok finds none when the network thread has used strtok in
\* between: "read" has lost its number, the others what made them faulty.
SecondWord(p) ==
    /\ TermGoto(p, "secondWord", "lock")
    /\ tempUserCmd' =
          IF (strtokBy[p] = "terminal") = (tempUserCmd[p].op = "READ")
          THEN tempUserCmd ELSE [tempUserCmd EXCEPT ![p] = NONE]
    /\ UNCHANGED <<sockVars, networkVars, typedSoFar, msgCount, shown, sharedVars,
                   log>>

\* Mutant of LockForCommand: userCmd is set, but the mutex not locked.
LockForCommandNoLock(p) ==
    /\ TermGoto(p, "lock", "handle")
    /\ userCmd' = [userCmd EXCEPT ![p] = tempUserCmd[p]]
    /\ UNCHANGED <<sockVars, networkVars, tempUserCmd, typedSoFar, msgCount, shown,
                   terminalLock, strtokBy, log>>

LockForCommand(p) ==
    /\ TermGoto(p, "lock", "handle")
    /\ ~terminalLock[p]
    /\ terminalLock' = [terminalLock EXCEPT ![p] = TRUE]
    /\ userCmd' = [userCmd EXCEPT ![p] = tempUserCmd[p]]
    /\ UNCHANGED <<sockVars, networkVars, tempUserCmd, typedSoFar, msgCount, shown,
                   strtokBy, log>>

\* handleCommandsWithToken, case WRITE: appendMsg looks for the last number...
StartAppend(p) ==
    /\ userCmd[p].op = "WRITE"
    /\ TermGoto(p, "handle", "check")
    /\ msgCount' = [msgCount EXCEPT ![p] = LastId(log)]
    /\ UNCHANGED <<sockVars, networkVars, tempUserCmd, typedSoFar, shown,
                   sharedVars, log>>

\* ...finds the file corrupt if it has no messages but is not empty by now...
CheckAppend(p) ==
    /\ TermGoto(p, "check", IF NotCorrupt(log, msgCount[p]) THEN "append"
                                                           ELSE "unlock")
    /\ UNCHANGED <<sockVars, networkVars, tempUserCmd, typedSoFar, msgCount, shown,
                   sharedVars, log>>

\* ...and writes the message behind what the file then holds.
FinishAppend(p) ==
    /\ TermGoto(p, "append", "unlock")
    /\ log' = Appended(log, msgCount[p], userCmd[p].lines)
    /\ UNCHANGED <<sockVars, networkVars, tempUserCmd, typedSoFar, msgCount, shown,
                   sharedVars>>

\* The other cases only read the file; "list" shows nothing for an empty one.
Answer(p) ==
    CASE userCmd[p].op = "READ" -> MessageByID(log, userCmd[p].id)
      [] userCmd[p].op = "LIST" /\ LastId(log) # FIRST_MESSAGE_INDEX - 1 ->
            [kind |-> "range", count |-> LastId(log), body |-> << >>]
      [] OTHER -> shown[p]

AnswerCommand(p) ==
    /\ userCmd[p].op # "WRITE"
    /\ TermGoto(p, "handle", "unlock")
    /\ shown' = [shown EXCEPT ![p] = Answer(p)]
    /\ UNCHANGED <<sockVars, networkVars, tempUserCmd, typedSoFar, msgCount,
                   sharedVars, log>>

UnlockAfterCommand(p) ==
    /\ TermGoto(p, "unlock", IF userCmd[p].op = "EXIT" THEN "gone" ELSE "prompt")
    /\ terminalLock' = [terminalLock EXCEPT ![p] = FALSE]
    /\ UNCHANGED <<sockVars, networkVars, tempUserCmd, typedSoFar, msgCount, shown,
                   userCmd, strtokBy, log>>

TerminalThread(p) ==
    \/ TypeOneWord(p) \/ TypeTwoWords(p) \/ SecondWord(p) \/ LockForCommand(p)
    \/ StartAppend(p) \/ CheckAppend(p) \/ FinishAppend(p) \/ AnswerCommand(p)
    \/ UnlockAfterCommand(p)

=============================================================================
