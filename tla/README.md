# TLA+ models of MyCodeProfile

The repository collects the course projects of two students: C programs that
talk over sockets, share memory between threads or start processes, and two
small functional programs. Each project is a system of its own. The modules
here model them one by one; TLC checks small instances, TLAPS proves what
holds for every value of the constants.

Paths are relative to `src/`. `PROJECT.json` lists components, runs, mutants,
the source lines of every definition, findings, hazards and theorems.

## 1. Inventory

| System | Parts | State | How they interact | What is hard |
|---|---|---|---|---|
| Reliable transfer, `SysNet2/P2/new` | sender `rdtSender.c`, receiver `rdtReceiver.c`, network simulator `rdtNetwork.c`, packets and sockets `rdtIPConverter.c` | protocol state and text pointers of the sender, expected bit and text of the receiver, delay threads of the network, datagrams in three UDP sockets | both ends send every packet through the simulator, which loses, corrupts, delays or forwards it | lost, corrupted, overtaken packets; timeouts racing answers; socket errors; full buffers |
| First version of it, `SysNet2/P2` | `sender.c`, `receiver.c`, `network.c` | as above, with a `last` flag | as above | retransmission that stops, corrupt packets taken as good |
| Token ring bulletin board, `SysNet2/P1` | `bbserver.c`, peers `bbpeer.c`, terminal thread `terminal.c`, shared message file `msgparser.c` | ring addresses, `terminalLock`, pending command, the file | the server tells each peer its successor, a token circulates in UDP datagrams, only its holder is meant to touch the file | mutual exclusion on the file, leaving, token loss, numbers of messages |
| Link-state routing, `SysNet2/P3` | `node.c`, `dijkstra.c` | the router's own row of the adjacency matrix, the address table, its link-state packet, the one packet it received | each router sends its packet to the neighbours of its file over UDP; received packets are printed and not used, and `dijkstra` is not called yet | everybody listens first; faulty files; edges counted twice; lost packets |
| Shell, `SysNet1/Project1` | `myshell.c`, `parse.c` | the command buffer, the children of the command, the redirected files | fork, exec, wait; the children share the output file | failures between steps, reaping, one file under two names, end of input |
| Collatz histogram, `SysNet1/Project2` | `mtCollatz.c` | shared counter and histogram | threads without locks | lost updates, range of the histogram |
| Lizards and cats, `SysNet1/Project3` | `lizards.c`: main, lizard threads, cat threads | two counters, mutexes `liz_lock` and `cat_lock`, semaphore `driveway` | shared memory | lost updates, one lizard too many, shutdown |
| Matrix benchmark, `SysNet1/Project4` | `matrix.c` | matrices | none | nothing a model could say |
| `ProgLang` | `Picross.scala`, `Clojure.clj` | a puzzle | none | search |

What makes each correct:

* **Reliable transfer**: the text at the receiver is always a beginning of the
  message; the sender counts as acknowledged only what is stored; `sendMessage`
  returns 0 only for a delivered message and does return; `receiveMessage`
  returns the complete text or NULL.
* **Token ring**: there is one token and it visits every peer; what a user posts
  is found again, whole, under a number of its own; a process does not end in the
  middle of a command.
* **Link state**: a packet says what its source's file says; every router comes to
  an end although all of them listen first; whom the file names is told unless a
  call fails; the distances and first hops are those of cheapest paths.
* **Shell**: every child is waited for, whatever fails; each copy's line reaches
  the output file once; the prompt returns.
* **Collatz**: each number is counted once.
* **Lizards**: counters are exact; no more lizards on the driveway than allowed;
  every lizard gets across, main joins every thread.

## 2. Plan

1. *(done)* `RdtSocket`, `RdtSender`, `RdtReceiver`, `RdtNetwork`, composed by
   `RdtSystem`; abstract specification `ReliableTransfer`; invariant
   `RdtInvariant`; proofs `RdtProofs`.
2. *(done)* `Lizards` with abstract specification `Driveway`, invariant
   `LizardsInvariant`, proofs `LizardsProofs`.
3. *(done)* Token ring: `RingSocket`, `BbServer`, `BbPeer` and `MessageLog`,
   composed by `TokenRing`; abstract specification `BulletinBoard`, invariant
   `RingInvariant`, proofs `RingProofs` and, for the file, `MessageLogProofs`.
4. *(done)* Link state: `LinkState`, abstract specification `LinkStateExchange`,
   invariant `LinkStateInvariant`, proofs `LinkStateProofs`; `Dijkstra` against a
   reference cost, proofs `DijkstraProofs`.
5. *(done)* `Shell`: parent, children, redirection, waiting; invariant
   `ShellInvariant`, proofs `ShellProofs`.
6. `Collatz` (threads on a shared counter, as load and store), with the
   histogram against a reference function over bounded inputs.
7. The first version of the reliable transfer, against `ReliableTransfer`.
8. `Picross`, if time allows.

Order of what is left: 6 to 8.

`Ordered` and `OrderedProofs` serve the last three: finite sets of numbers in
their order, as the entries of a table or the places of a sequence that a loop
comes upon one after the other.

### How recursion is proved about

The library's induction theorems take an operator as a parameter, which none of
the provers can instantiate. `OrderedProofs` does without: `LeastExists` shows
that every non-empty set of natural numbers has a least element, from the
theorem that strict inclusion is well-founded on finite sets, which has no such
parameter. Every induction here is then about the least counterexample. With it
`StepsExist` shows that a function defined step by step exists (TLA+ leaves a
recursive function undefined until some function is shown to satisfy its
equation) and `StepsKeep` that what each step keeps holds at every step.
`HeadersIs` in `MessageLogProofs` does the same downwards, from the end of a file.

## 3. Reliable transfer

### Modules and code

| Module | Models |
|---|---|
| `RdtSocket` | `rdtIPConverter.{h,c}`: the packet, `sendFragment`, `sendPacket`, `getNextRDPPacket`; the kernel's UDP queues are external |
| `RdtSender` | `sendMessage`: one action for each branch of its loop |
| `RdtReceiver` | `receiveMessage` |
| `RdtNetwork` | `processLoop`, `sendPacketDelayed`, `pktDelayThread` |
| `RdtSystem` | the three processes and the clock; fairness; properties |
| `ReliableTransfer` | what the user is promised |
| `RdtInvariant` | the inductive invariant and the assumptions it needs |
| `MCRdt` | the module TLC runs |

A process name stands for its address and for its port, but a packet header
carries the two apart, as in the code: the network overwrites the source
address and leaves the source port. The characters of the message are their
positions, so a fragment is a pair (position, length) and any mix-up of
fragments shows in the text. The empty fragment is the terminating packet.
`sState` is `rSocket.state` with the code's four numbers, and the bit of a
packet is `sState \div SEND_1` or `sState \div ACK_1` as the code computes it.
`message` of the receiver is what `strlen` sees: it starts with whatever malloc
left (`MallocLeftovers`).

One step of a process is one turn of its loop. This is enough because a process
shares nothing with the others but datagrams, and each turn receives or sends at
most once. The random draws of the network are choices over the outcomes their
percentages allow. `timer` counts the ticks of the sender's `select`; it starts
anew with each call of `getNextRDPPacket`, also after a corrupt or unexpected
acknowledgement, as in the code. `Prompt = FALSE` lets time pass at any moment
(processes and packets arbitrarily slow); `Prompt = TRUE` lets it pass only when
nothing else can happen.

### Bounds

`MsgLen` 5 and `FRAG_SIZE` 2 give three fragments, the last one short, and the
terminating packet, so both bits are used twice. `SOCK_BUF` bounds a socket's
queue at 2 or 3 datagrams; a datagram that finds it full is dropped, as the
kernel does, so the bound adds behaviour. `MaxDelayed` bounds the delay threads
alive at once and is the only bound that removes behaviour: a packet is not
chosen for delay while that many wait. `SENDER_TIMEOUT` and `TIMEOUT_INTERVAL`
are in ticks; 2 and 3 have the proportion of the code's 2000 ms and 3000 ms, and
`rdt_live` takes 7, one more than two delays.

### Runs

| Run | Shows |
|---|---|
| `rdt_lossy` | loss, corruption, timeouts and socket errors at any moment: type invariant, inductive invariant, safety properties, refinement |
| `rdt_live` | with loss, corruption and delays, but a timeout that exceeds what a delayed packet and a delayed acknowledgement need together: delays are harmless, the message is delivered, `sendMessage` returns, and `receiveMessage` does unless the sender gave up |
| `rdt_delayed` | violation: a delayed packet is taken for a new one |
| `rdt_full_buffer` | violation: the end of a long message is dropped and reported as sent |

`CHECK_DEADLOCK FALSE` everywhere: all three processes may have come to an end,
or the receiver waits for ever for a sender that has given up.

### Fairness

`FairSpec` assumes that each process that can take a step does (the operating
system schedules them; none of them blocks on another except in `select` and
`recvfrom`) and that time passes. `LossyFairSpec` adds that a packet gets through
when packets of that direction keep arriving at the network: each packet draws
its fate independently, so with percentages below 100 losing all of them has
probability zero. `SenderReturns` needs it because timeouts before the last
packet are not counted. `ReceiverReturns` leaves out the case that the sender
gave up after three timeouts: the receiver, which has no timeout, then waits for
ever.

### Proofs

* `RdtProofs!TypeCorrect`: `Spec => []TypeOK`, with no assumption beyond the
  types of the constants.
* `RdtProofs!TransferIsSafe`: under `InOrderNetwork` (nothing delayed), `RoomForMessage`
  (the buffer has room for a fragment more than the message) and `ClearedMemory`,
  `InductiveInv` holds, and with it `TextIsPrefix`, `AckedIsStored`,
  `ReportedMeansDelivered` and `ReturnedTextComplete`. That the first two are
  needed is what `rdt_delayed` and `rdt_full_buffer` show. The third is needed
  because `rdtReceiver.c:59` never clears what malloc returns: with
  `MallocLeftovers = {0, 1}` the text begins with a character nobody sent.
* `RdtProofs!Implements` and `RdtProofs!StoresOnlyOutstanding`, under the same
  assumptions: `Spec => ImplementsTransfer` and `StoresOutstandingFragment`.

The argument. The safety properties are not inductive: they say nothing of the
packets under way. `InductiveInv` calls a packet current when its bit is that of
the fragment the sender is at, and says that in each queue and across the two
queues of a direction stale packets are ahead of current ones; that current data
carries the fragment after the acknowledged characters; that the receiver's bit
differs from the sender's exactly when it has taken the current fragment, and
that no stale data is left then; and that no current acknowledgement exists
before. The lemmas on queues (what taking, appending and forwarding a packet does
to `Channels`) carry the weight; one lemma for each action applies them.

Only model-checked: liveness, the runs with delays.

## 4. Lizards and cats

### Modules and code

`Lizards` models `lizards.c` thread by thread, `pc[l]` being the step lizard `l`
takes next. Every operation on a mutex or the semaphore is a step of its own; an
increment of a counter is a load into `reg` and a store, so that a missing lock
would show. The functions of the two directions are the same code with the
counters swapped: `side[l]` says which one runs. Sleeping is an arbitrary wait.
A store is joined with the unlock after it, and a new thread's read of its
number with its unlock of `liz_lock`: nobody can look in between. main's `i++`
is a step of its own, because the new thread reads `i` through a pointer.
`exited` stands for `exit(-1)`, after which no thread moves. The one assumption
on real time is that the 30 seconds main sleeps are enough for a new thread to
read its number.

`Driveway` is the abstract specification: a set of lizards, never more than
`MAX_LIZARD_CROSSING`. The mapping takes a lizard to be on it from `sem_wait` to
`sem_post`.

### Runs

| Run | Shows |
|---|---|
| `lizards_safe` | three lizards, two slots, with `UNIDIRECTIONAL` set, so that two lizards that meet end the program: types, the inductive invariant, exact counters, the cats' sum, no meeting missed, a clean end, refinement of `Driveway` |
| `lizards_live` | two lizards and a cat on one slot: lizards cross, main joins everybody |
| `lizards_names` | violation: two lizards with one number |

Three lizards on two slots is the smallest instance in which two lizards contend
for a counter while a third waits for a slot. The code comes with `UNIDIRECTIONAL`
0; `lizards_live` takes that value, and the theorems below hold for both. Deadlock is not checked because the
program ends.

### Fairness

Weak fairness of each thread (the scheduler), and strong fairness for whoever
waits for `liz_lock` or the semaphore. The critical sections are a few
instructions long while every thread sleeps for at least a second in each round,
so a waiter finds the lock free when it is scheduled; POSIX itself promises no
more, and without this assumption a lizard may starve.

### Proofs

`LizardsProofs` proves for any number of lizards, cats and slots that
`InductiveInv` and `TypeOK` hold, that the cats find no toys (`CatsFindNoToys`),
that the counters are exact, that in a unidirectional world no two lizards cross
on in opposite directions and the program exits only when two of them meet
(`PileUpsAreNoticed`), that it ends with every slot and lock free
(`EndsBalanced`), and that `Lizards` implements `Driveway`. These are all the
properties `lizards_safe` checks. A lizard is counted in one critical section and
looks for others in the next; `NoPileUpMissed` holds because it stays counted in
between and for as long as it crosses on, so whoever looks second finds the other.
`CatsFindNoToys` needs both counters to be exact and to count slot holders only;
exact counters need that what a lizard loaded is still current when it stores,
which needs that `liz_lock` has one holder. That last part includes the
hand-over from main to the new thread, who unlocks what main locked.
`EndsBalanced` needs the converse as well, in `EndInv`: a locked mutex has a
holder, and for that threads must be created and joined in the order of their
numbers. Liveness is only model-checked.

## 5. Token ring bulletin board

### Modules and code

| Module | Models |
|---|---|
| `RingSocket` | the datagrams of `bbserver.c` and `bbpeer.c`; the kernel's UDP queues are external |
| `BbServer` | `bbserver.c`: collecting the clients, telling each its successor in three datagrams |
| `BbPeer` | `bbpeer.c` (network thread) and `terminal.c` (terminal thread) of each peer |
| `MessageLog` | `msgparser.c`, as operators on the lines of the file |
| `TokenRing` | server and peers together; fairness; properties |
| `BulletinBoard` | what the users are promised: numbered messages, read and listed |
| `RingInvariant` | the inductive invariants behind `OnePasser` and `ImplementsBoard` |
| `MCRing` | what the users type in TLC's instances |

A datagram says what it was sent as (`kind`) and the peer it is about; a peer
takes whatever comes first for what it is waiting for, as `recvfrom` does, so
`told[p]` may hold the token where a host name should be. A token flag or a
port taken for the other gives an address of no process (`Nowhere`). A line of
the message file is an opening tag, a closing tag, or text with or without a
`>`, which is all the scanner looks at. `strtokBy` is the position `strtok` keeps
for the process: it says whose text the next `strtok(NULL)` continues. When the
network thread has split a datagram between the terminal's first and second word,
"read n" has lost its number and is refused, and a command with a word too many
is carried out as if the word were not there (`SecondWord`).

Every datagram arrives, in the order it was sent to a socket from one process: no
loss is modelled, though UDP may lose one and nothing here sends it again. A lost
token would never come back, so `TokenVisitsAll` needs this; the other properties
are not checked with losses either.

Appending is three steps, because other processes may write the file in between:
the scan for the last number, the test whether the file is empty, and the write,
which happens when the file is closed. A message longer than a stdio buffer
would be written in two parts; the model takes it to fit. Reading a line of input
is one step: the terminal thread shares nothing while it reads it.

### Runs and bounds

| Run | Shows |
|---|---|
| `ring_safe` | three peers join, write and leave in any order, and the first token may overtake the server's datagrams to others: one token, one holder of each lock, safe ends |
| `ring_board` | one peer writes messages, the other reads and lists: `BulletinBoard` is implemented; the token visits everyone for ever |
| `ring_ids` | violation: two peers write at the same time and two messages get one number |

Three peers are the fewest for which a peer is neither the initiator nor its
successor. `MaxCommands` bounds what each user types: once in `ring_safe` and
`ring_ids`, twice in `ring_board`, so that a message is appended behind another.
The bodies in `ring_board` contain a header, a closing tag and a `>`.
`PromptServer = TRUE` makes peers wait until the server has told everybody;
without it a peer may crash on the token (`PairFails`), and the ring is broken.
Deadlock is not checked in `ring_safe` and `ring_ids`: a peer that leaves takes
the token with it, and the others wait for ever. `ring_board` does check it.

The condition of `ring_board`, one writing peer, is what `ring_ids` shows to be
needed. It does not matter whether that peer has the token: the terminal thread
waits for `terminalLock` of its own process, which the network thread holds while
it *waits* for the token and releases when it has passed it on.

### Fairness

Weak fairness of the server and of every thread, except that nobody has to type;
`TokenVisitsAll` needs no fairness of `terminalLock`, because users type finitely
often. Nothing is claimed of when a command is carried out: the network thread
unlocks the mutex and locks it again at once, and a waiting terminal thread may
never get it.

### Proofs

`RingProofs` proves for any number of peers and any commands that `terminalLock`
has one holder (`LockDiscipline`) and that a process ends only when its terminal
thread is done (`ExitIsSafe`). `DestroyIsSafe` says nothing of the time before
`main` looks at `userCmd`. `LockInv` adds what is needed: the lock is taken exactly
while one of the two threads is in its critical section, and EXIT is pending only
in the critical section of that command or after it; so when the network thread,
which holds the lock, sees EXIT, the terminal thread can only be at its end.

It proves `OnePasser` (`OneTokenOnly`) from `RingAssumption` alone: one
to twelve peers, as the server's table allows, none of them the server. It is not
enough to follow the token, because a peer takes the first three datagrams it
gets for its set-up: where the token overtakes them, the token is used up and a
datagram of the server goes round in its place. `TokenInv` counts instead. A
peer's surplus is what waits in its socket, plus what it took for the set-up,
plus what it has in hand, less what the server has sent it so far (at most
three). Receiving moves datagrams within this sum, and each `sendto` of the
server adds one to both sides of it. So only the first client's token raises a
surplus, and passing on moves it to another peer (or drops it). The
invariant says: at most one peer has a surplus, it is one datagram, there is
none before the first client has started, and by then the server has sent three
datagrams. The rest of `TokenInv` makes this inductive: every peer is a client
at most once (`CalledOnce`), a peer past its set-up took exactly three datagrams
(`SetUp`), and the flag that makes a peer start a token is the third datagram of
the first client and no other's (`OneStarter`), so the token is started once.

`RingIsTyped` adds the terminals and the file to `TokenInv`'s types and proves
`TypeOK`. Its part about sockets and set-ups needs `TokenInv` (a peer takes three
datagrams and no more), the part about answers and numbers that the scan of the
file returns what it should, whatever the file holds.

`MessageLogProofs` is about that scan. `HeadersIs` shows that it is a function of
the lines behind the place it has reached; so what it finds in whole messages does
not depend on what is written behind them (`AfterBracketKept`), and in the last
message it finds the header and nothing in the text (`NoneInLastMessage`).
`AppendedEntries` says what this comes to: behind a file of whole messages, a text
in which no line that the scan tries is a header is read back as one more message,
as it was written, and the others stay.

`BoardImplemented` proves `ImplementsBoard` from `TypeOK` and two conditions on what
the users type, which the instance `ring_board` satisfies. `OneWriter`: one user
writes; with two, `ring_ids` shows two messages of one number. `CleanInput`: in no
message a line behind one with a `>` is an opening tag; `handleMessageInput` drops
closing tags only, so the scan would take that line for a message of its own. A
message may have an opening tag as its first line, as those of `ring_board` do.
The invariant is `BoardInv`: the commands are ones that were typed, the file holds
whole messages numbered 1, 2, 3 and on, and a thread between the two halves of
`appendMsg` knows the last number of the file. The last is kept because nobody
else writes, and not because of the token. The write is when the message is
posted; a READ or LIST answers as the board does because in a numbered file there
is one message of each number, and as many as the last number says; every other
step leaves the board as it is.

Left to TLC: `TokenVisitsAll`, and the violation `ring_ids`.

## 6. Link state

### Modules and code

| Module | Models |
|---|---|
| `LinkState` | `node.c`: command line, neighbour file, own packet, socket, listening, sending |
| `LinkStateExchange` | what the routers promise each other |
| `Ordered` | the entries of a table, in order |
| `LinkStateInvariant` | the inductive invariants |
| `Dijkstra` | `dijkstra.c` as a function of the matrix, and the cost of cheapest paths to compare it with |
| `PathTrials` | the matrices to compare them on |
| `MCLinkState` | the neighbour files of TLC's instance |

Each router is a process; one action stands for one function that `main` calls,
but `listenPacket` has an action for each of its results and `floodNeighbors` one
for each datagram. A router is known by the index of its label. A line of a
neighbour file is what `sscanf` and the checks make of it; the lines before a
faulty one have changed the tables already. `Garbage` is an edge that nobody wrote
into the packet but that its length, taken from the header, includes.

The comment in `node.h:10-13` says that all routers build the same graph. The code
is not there yet: one packet is received and printed, `handleLinkStatePacket` is
declared and not written, and `dijkstra` is never called. So the model has no
graph to compare; the properties are about the packets, and about `dijkstra` as a
function.

### The run

`link_state` checks three routers. `Starts` gives each the files that make a
difference: one line for each neighbour, two lines for one neighbour, a weight of
`INF`, of more than 16 bits and below 0, an unknown host and a faulty line after
good ones, a label out of range, the address of another router, no file; and
command lines with one word too many and a port too large. Any datagram may be
lost, `select`, `recvfrom` and `sendto` may fail, a process may start and end at
any time. It shows that a packet says what its source's file says (`HeardIsTrue`),
that the sender printed is the right one if the receiver's file is
(`SenderIsNamed`), that no routers hear each other in a circle, and that
`LinkStateExchange` is implemented: a flood reports success only when every
neighbour was told.

The same run compares `dijkstra` with the cost of cheapest paths on every matrix
of four routers with weights 1, 3, 998 and 999 and way back costing the same or 3
more. With four routers there are two rounds, so the second can find nobody left;
998 and 999 are on the two sides of `INF`. A router without any link is left out:
`nextnode` is then read uninitialised.

Every router returns (`RoutersReturn`), although all of them listen before they
send. The fairness is `RouterWorks`: each process is scheduled and the timeout of
`select` expires; errors are never due. Deadlock is not checked because the
routers end.

### Proofs

`LinkStateProofs` proves for any number of routers, any files and any losses that
no routers hear each other in a circle (`NobodyHearsInACircle`). `HearingInv` adds
why: a packet under way, or received, is from a router that is past listening, and
who has heard somebody is past listening too. So when a router hears its first
packet, nobody can have heard that router yet, and it closes no circle.

It also proves `TypeOK` (`LinkTypes`), `HeardIsTrue` (`WhatIsHeardIsTrue`),
`SenderIsNamed` (`SendersAreNamed`) and `ImplementsExchange` (`ExchangeImplemented`),
all from one invariant, `ExchangeInv`. It follows a line of a file on its way. A
router's row and addresses are what the last line for each neighbour says, from
the moment the file is read and for ever (`Reading`: nothing is read twice, because
the sequence number is raised when the packet is built, and never again); the
packet is that of the row, cut or filled with `Garbage` to the number of lines
(`Building`); nobody sends before it is through with listening (`Flooding`); what
waits in an inbox is the packet of a router that has come past the receiver's
entry in its table (`Sending`), and so is what was received (`Receiving`). The edges
of a packet are the linked entries in order, which is why the lemmas about `NthOf`
carry the weight. The refinement maps a router's turn of `floodNeighbors` to telling
the address of one entry, or to nothing where the entry has no address.

These theorems assume what `LinkState` assumes of its constants: `INF` is a number;
`Garbage` is no edge, so that one can tell it; and no file has more lines than
the packet has room for edges, `MAX_EDGES`, beyond which `node.c` writes behind its
buffer.

### Shortest paths

`DijkstraProofs` proves for any number of routers, weights of at least 0 and every
start with a link that the distances are those of cheapest paths
(`DistancesAreRight`) and that the table names the first router of one
(`ForwardsAreRight`). Each round keeps four things.
`Closing`: visited routers are no farther than the others, and no link from one of
them is a shorter way to anywhere. `Progress`: a round visits one more router, as
long as there is one in reach. `Sound`: a distance is the cost of some path.
`Tree`: `previous` leads to a visited router one level up, at the start in the end.
The code makes one round less than there are routers to visit. `NoShortcut` shows
why this does no harm: the one that is left is no closer than any other, so a way
through it is not shorter. And when no router in reach is left, a round repeats
the last one, which changes nothing. `Cost` is computed by adding links one at a
time; the walk that finds the first router goes up `Tree`, so it ends.

`DistancesAreThoseOfCheapestPaths` and `TableIsRight` of `LinkStateProofs` state the
two properties of the run itself, for every matrix size and every set of weights:
the matrices of `PathTrials` are among those above.

Left to TLC: `RoutersReturn`.

## 7. Shell

### Modules and code

`Shell` models `myshell.c` and `parse.c`: one action for each way a command is
read, for the checks of `processCmd`, for each `fork` and `wait`, and for each
step of a child between `fork` and `execv`. A command is a sequence of words, each an argument,
an input or an output; `FileOf` tells files from names, so one file may have two.
`tokenize` cuts the buffer after its first word, as `strtok` does, and that
matters at the end of the input, when the buffer is read again. `formatChildArgV`
allocates too few bytes (`parse.c:114`); with an even number of words the child
may die of it (`ChildCrashes`). `RejectCommand` is any failed check. The
programs the shell starts are external: each writes one line and ends.

An old output file is removed before the first child starts, but the result of
`remove` is not looked at (`myshell.c:185`). So a file may stay there in two ways:
a file of `Protected` can be written neither, and no program of the command runs;
one of `Undeletable` (in a directory without write permission, say) is opened by
the children to append, behind what it held before. The history variable `before`
keeps those lines for `OutputIsWhole`. Files of both kinds stay so; a name is a
path to a plain file.

Assumed of the input: a line has at most `MAXARGS` (32) arguments (`Line`).
`parse.c:71` does not look at that, and writes those of a longer line behind the
vector; what this does to the shell is not modelled.

### The run

`shell` lets a user type three of the commands of `MCShell`, one for each check
and several that start one to three copies: with output, with input and output on
one file under two names, with an output file that is protected or cannot be
removed, also as the input under another name, with a word `execv` cannot start. `fork` may fail at any time. Three lines are enough for a command to find
what two earlier ones left. It shows that no child is left at the prompt, that the
output file holds exactly one line of each child that did not crash and, of what
an earlier command wrote, nothing where the file could be removed and everything
where not (`OutputIsWhole`), that nothing is started after the end of
the input, and that the prompt returns. When the output is the input under
another name and can be removed, the shell removes its own input before the
children open it; then no program runs, and `OutputIsWhole` says so.

Fairness is that of the scheduler, for the shell and each child, and that the
programs end. Deadlock is not checked: `exit` ends the shell, and the number of
lines is bounded.

### Proofs

`ShellProofs` proves for any commands, files and numbers of copies that no child
is left at the prompt (`NobodyLeft`). The invariant `WaitingInv` says that the loop
counter of `waitChildren` is the number of children reaped; when it has reached
the number of children forked, all of them are.

`ShellInv` adds the types and three parts, and with them `ShellProofs` proves
`TypeOK` (`ShellTypes`), `EndOfInputStartsNothing` (`NothingAfterTheEnd`) and
`OutputIsWhole` (`OutputArrives`). `CommandInv`: while children run, the command is
the one that was accepted, each child has its own index, and one that writes has
opened its file. `OutputInv` says what the file holds meanwhile: what `remove`
left, and behind it one line of each child that has run; where it is the input
under another name and was removed, no child gets past opening its input; where it
is protected nobody runs. It needs that the lines of different children do not overwrite each other,
which opening it with `freopen` in mode `"a"` gives. `BufferInv`: after the first
line the buffer ends behind its first word, which is why the command that is read
again at the end of the input has one word, and one word starts nothing.

The assumptions are that no typed line has more than `MAXARGS` arguments (that the
buffer and the vector then never hold more is a part of `TypeOK`; what `strtok`
leaves of a line is one word at most, `ShortLine`), that files of `Undeletable` exist and
can be written, and that `NULL`, the missing file or result, is neither a word nor
the contents of a file. Left to TLC: `PromptReturns`.

## 8. Findings

The four violating runs of sections 3 to 5 are real disagreements between the
code and what its comments promise; `PROJECT.json` quotes each. Two more need no
run: `rdtReceiver.c:59` (uninitialised memory read as a string) and
`rdtReceiver.c:126-131` (a freed pointer returned under the comment "Return null
if an error occurred"). Both are modelled.

## 9. Not modelled

* **First version of the transfer** (`SysNet2/P2/*.c`): superseded by `new/`; next
  but one in the plan.
* **Collatz** (`SysNet1/Project2`): threads that race on a counter with no lock at
  all; next in the plan.
* **Picross** and `Clojure.clj`: a sequential search and unrelated list functions.
* `SysNet1/Project4/matrix.c` (a benchmark of loop orders) and `argtest.c` (prints
  its arguments): nothing a property could be about.
* **Graph of the link-state network**: not written yet, see section 6.
* **Undefined behaviour** beyond what is named above: more than twelve clients in
  `bbserver.c`, a host name longer than its 18 bytes in `bbpeer.c:71`, a router
  whose own label is outside the number of routers, more than 32 arguments of a
  command of the shell (the theorems of section 7 assume that there are none). The instances and the assumptions on the constants keep to what the
  arrays hold.
* Output a shell's child inherits unflushed; the shell's `-Debug` output.
* Command-line parsing except the router's, host name resolution beyond its
  failure, printing.
