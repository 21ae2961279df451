----------------------------- MODULE ShellProofs -----------------------------
(***************************************************************************)
(* Whatever is typed, and however many children fail or crash: none is     *)
(* left when the prompt comes back, the output file holds the lines of     *)
(* this command's children and no others, and after the end of the input   *)
(* nothing is started any more.  WaitingInv is inductive by itself, and so *)
(* is ShellInv, of which it is a part.                                     *)
(***************************************************************************)
EXTENDS ShellInvariant, OrderedProofs

States == {"forked", "input", "output", "program", "zombie", "reaped"}
Outcomes == {"none", "crashed", "failed", "ran"}

\* What a child of a sequence of children is.
LEMMA ChildKind ==
    ASSUME NEW argvs, NEW c \in Seq(ChildrenOf(argvs)), NEW k \in DOMAIN c
    PROVE  /\ c[k] \in ChildrenOf(argvs)
           /\ c[k].argv \in argvs /\ c[k].state \in States /\ c[k].outcome \in Outcomes
<1>1. c[k] \in ChildrenOf(argvs)
  OBVIOUS
<1> QED
  BY <1>1 DEF ChildrenOf, States, Outcomes

\* A sequence of children is one over the argument vectors it holds.
LEMMA OwnVectors ==
    ASSUME NEW argvs, NEW c \in Seq(ChildrenOf(argvs))
    PROVE  c \in Seq(ChildrenOf(Vectors(c)))
<1>1. ASSUME NEW k \in DOMAIN c PROVE c[k] \in ChildrenOf(Vectors(c))
  <2>1. c[k] \in ChildrenOf(argvs)
    OBVIOUS
  <2>2. c[k].argv \in Vectors(c)
    BY DEF Vectors
  <2> QED
    BY <2>1, <2>2 DEF ChildrenOf
<1> QED
  BY <1>1

\* A sequence over a set is one over every larger set.
LEMMA SeqWider ==
    ASSUME NEW S, NEW T, S \subseteq T, NEW c \in Seq(S)
    PROVE  c \in Seq(T)
OBVIOUS

\* Changing the state of a child, or its state and its outcome.
Changed(c, k, to, outcome) ==
    [c EXCEPT ![k] = [argv |-> c[k].argv, state |-> to, outcome |-> outcome]]

LEMMA ChangedIs ==
    ASSUME NEW argvs, NEW c \in Seq(ChildrenOf(argvs)), NEW k \in DOMAIN c,
           NEW to \in States, NEW outcome \in Outcomes
    PROVE  /\ [c EXCEPT ![k].state = to] = Changed(c, k, to, c[k].outcome)
           /\ [c EXCEPT ![k].state = to, ![k].outcome = outcome] = Changed(c, k, to, outcome)
<1>1. c[k] \in ChildrenOf(argvs)
  BY ChildKind
<1>2. /\ [c[k] EXCEPT !.state = to]
            = [argv |-> c[k].argv, state |-> to, outcome |-> c[k].outcome]
      /\ [c[k] EXCEPT !.state = to, !.outcome = outcome]
            = [argv |-> c[k].argv, state |-> to, outcome |-> outcome]
  <2> SUFFICES ASSUME NEW r \in ChildrenOf(argvs)
               PROVE  /\ [r EXCEPT !.state = to]
                            = [argv |-> r.argv, state |-> to, outcome |-> r.outcome]
                      /\ [r EXCEPT !.state = to, !.outcome = outcome]
                            = [argv |-> r.argv, state |-> to, outcome |-> outcome]
    BY <1>1
  <2>1. [r EXCEPT !.state = to] = [argv |-> r.argv, state |-> to, outcome |-> r.outcome]
    BY DEF ChildrenOf
  <2>2. [r EXCEPT !.state = to, !.outcome = outcome]
           = [argv |-> r.argv, state |-> to, outcome |-> outcome]
    <3> DEFINE e == [r EXCEPT !.state = to, !.outcome = outcome]
    <3>1. e \in ChildrenOf(argvs) /\ e.argv = r.argv /\ e.state = to /\ e.outcome = outcome
      BY DEF ChildrenOf, States, Outcomes
    <3> HIDE DEF e
    <3>2. e = [argv |-> r.argv, state |-> to, outcome |-> outcome]
      BY <3>1 DEF ChildrenOf
    <3> QED
      BY <3>2 DEF e
  <2> QED
    BY <2>1, <2>2
<1>3. [c EXCEPT ![k].state = to] = [c EXCEPT ![k] = [c[k] EXCEPT !.state = to]]
  OBVIOUS
<1>4. [c EXCEPT ![k].state = to, ![k].outcome = outcome]
         = [c EXCEPT ![k] = [c[k] EXCEPT !.state = to, !.outcome = outcome]]
  OBVIOUS
<1> QED
  BY <1>2, <1>3, <1>4 DEF Changed

LEMMA ChildChanges ==
    ASSUME NEW argvs, NEW c \in Seq(ChildrenOf(argvs)), NEW k \in DOMAIN c,
           NEW to \in States, NEW outcome \in Outcomes
    PROVE  LET d == Changed(c, k, to, outcome) IN
           /\ d \in Seq(ChildrenOf(argvs)) /\ d \in Seq(ChildrenOf(Vectors(d)))
           /\ DOMAIN d = DOMAIN c /\ Len(d) = Len(c)
           /\ d[k].state = to /\ d[k].outcome = outcome /\ d[k].argv = c[k].argv
           /\ \A j \in DOMAIN c \ {k} : d[j] = c[j]
<1> DEFINE e == [argv |-> c[k].argv, state |-> to, outcome |-> outcome]
           d == Changed(c, k, to, outcome)
<1>1. e \in ChildrenOf(argvs)
  BY ChildKind DEF ChildrenOf, States, Outcomes
<1>2. e.state = to /\ e.outcome = outcome /\ e.argv = c[k].argv
  OBVIOUS
<1>3. d = [c EXCEPT ![k] = e]
  BY DEF Changed
<1> HIDE DEF e, d
<1>4. /\ d \in Seq(ChildrenOf(argvs)) /\ DOMAIN d = DOMAIN c /\ Len(d) = Len(c)
      /\ d[k] = e
      /\ \A j \in DOMAIN c \ {k} : d[j] = c[j]
  BY <1>1, <1>3
<1>5. d \in Seq(ChildrenOf(Vectors(d)))
  BY <1>4, OwnVectors
<1> QED
  BY <1>2, <1>4, <1>5 DEF d

LEMMA InitWaiting == Init => WaitingInv
BY DEF Init, WaitingInv, NoneLeftAtPrompt

\* The reaped children are finitely many.
LEMMA ReapedFinite ==
    ASSUME WaitingInv
    PROVE  /\ IsFiniteSet(Reaped) /\ Reaped \subseteq 1..Len(children)
           /\ Cardinality(Reaped) \in Nat
           /\ Cardinality(Reaped) = Len(children) => Reaped = 1..Len(children)
<1>1. Len(children) \in Nat /\ DOMAIN children = 1..Len(children)
  BY DEF WaitingInv
<1>2. Reaped \subseteq 1..Len(children)
  BY <1>1 DEF Reaped
<1>3. /\ IsFiniteSet(1..Len(children))
      /\ Cardinality(1..Len(children)) = Len(children)
  <2>1. 1 \in Int /\ Len(children) \in Int
    BY <1>1
  <2>2. /\ IsFiniteSet(1..Len(children))
        /\ Cardinality(1..Len(children)) =
              IF 1 > Len(children) THEN 0 ELSE Len(children) - 1 + 1
    BY <2>1, FS_Interval, Zenon
  <2> QED
    BY <1>1, <2>2
<1>4. /\ IsFiniteSet(Reaped)
      /\ Cardinality(1..Len(children)) = Cardinality(Reaped) => 1..Len(children) = Reaped
  BY <1>2, <1>3, FS_Subset
<1> QED
  BY <1>2, <1>3, <1>4, FS_CardinalityType

\* A step of a child changes its state, never to or from "reaped", and its
\* outcome only when it ends.
LEMMA ChildMoves ==
    ASSUME WaitingInv, NEW k \in DOMAIN children, ChildStep(k)
    PROVE  \E to \in States \ {"reaped"}, outcome \in Outcomes :
              /\ children[k].state \notin {"zombie", "reaped"}
              /\ children' = Changed(children, k, to, outcome)
              /\ to # "zombie" => outcome = children[k].outcome
              /\ UNCHANGED shellVars
<1>1. children \in Seq(ChildrenOf(Vectors(children)))
  BY DEF WaitingInv
<1>2. children[k].outcome \in Outcomes
  BY <1>1, ChildKind
<1>3. ASSUME NEW from \in States \ {"zombie", "reaped"}, NEW to \in States \ {"reaped"},
             Moves(k, from, to)
      PROVE  \E outcome \in Outcomes :
                /\ children[k].state \notin {"zombie", "reaped"}
                /\ children' = Changed(children, k, to, outcome)
                /\ outcome = children[k].outcome
                /\ UNCHANGED shellVars
  BY <1>1, <1>2, <1>3, ChangedIs DEF Moves
<1>4. ASSUME NEW from \in States \ {"zombie", "reaped"}, NEW outcome \in Outcomes,
             Ends(k, from, outcome)
      PROVE  /\ children[k].state \notin {"zombie", "reaped"}
             /\ children' = Changed(children, k, "zombie", outcome)
             /\ UNCHANGED shellVars
  <2>1. "zombie" \in States
    BY DEF States
  <2> QED
    BY <1>1, <1>4, <2>1, ChangedIs DEF Ends
<1>5. CASE RedirectInput(k) \/ RedirectOutput(k) \/ Execute(k)
  <2>1. PICK from \in States \ {"zombie", "reaped"}, to \in States \ {"reaped", "zombie"} :
          Moves(k, from, to)
    BY <1>5 DEF RedirectInput, RedirectOutput, Execute, States
  <2> QED
    BY <1>3, <2>1
<1>6. CASE ChildCrashes(k) \/ NoInput(k) \/ NoOutput(k) \/ ExecuteFails(k) \/ RunProgram(k)
  <2>1. PICK from \in States \ {"zombie", "reaped"}, outcome \in Outcomes :
          Ends(k, from, outcome)
    BY <1>6 DEF ChildCrashes, NoInput, NoOutput, ExecuteFails, RunProgram, States, Outcomes
  <2>2. "zombie" \in States \ {"reaped"}
    BY DEF States
  <2> QED
    BY <1>4, <2>1, <2>2
<1> QED
  BY <1>5, <1>6 DEF ChildStep

LEMMA ChildWaiting ==
    ASSUME WaitingInv, NEW k \in DOMAIN children, ChildStep(k)
    PROVE  WaitingInv'
<1>1. PICK to \in States \ {"reaped"}, outcome \in Outcomes :
        /\ children[k].state \notin {"zombie", "reaped"}
        /\ children' = Changed(children, k, to, outcome)
        /\ UNCHANGED <<pc, waited>>
  BY ChildMoves DEF shellVars
<1>2. /\ children' \in Seq(ChildrenOf(Vectors(children')))
      /\ DOMAIN children' = DOMAIN children
      /\ children'[k].state # "reaped"
      /\ \A j \in DOMAIN children \ {k} : children'[j] = children[j]
  <2> DEFINE argvs == Vectors(children)
  <2>1. children \in Seq(ChildrenOf(argvs))
    BY DEF WaitingInv
  <2> HIDE DEF argvs
  <2> QED
    BY <1>1, <2>1, ChildChanges
<1>3. Reaped' = Reaped
  BY <1>1, <1>2 DEF Reaped
<1>4. pc \in {"fork", "wait"}
  BY <1>1 DEF WaitingInv, NoneLeftAtPrompt
<1> QED
  BY <1>1, <1>2, <1>3, <1>4 DEF WaitingInv, NoneLeftAtPrompt

LEMMA ForkWaiting == WaitingInv /\ Fork => WaitingInv'
<1> SUFFICES ASSUME WaitingInv, Fork PROVE WaitingInv'
  OBVIOUS
<1> DEFINE child  == Child(forkCount)
           argvs  == Vectors(children) \cup {child.argv}
<1>1. /\ children' = Append(children, child)
      /\ UNCHANGED <<pc, waited>> /\ pc = "fork"
  BY DEF Fork
<1>2. child \in ChildrenOf(argvs) /\ child.state # "reaped"
  BY DEF Child, ChildrenOf
<1>3. children \in Seq(ChildrenOf(argvs))
  <2>1. ChildrenOf(Vectors(children)) \subseteq ChildrenOf(argvs)
    BY DEF ChildrenOf
  <2>2. children \in Seq(ChildrenOf(Vectors(children)))
    BY DEF WaitingInv
  <2> QED
    BY <2>1, <2>2, SeqWider
<1> HIDE DEF child, argvs
<1>4. /\ children' \in Seq(ChildrenOf(argvs))
      /\ Len(children') = Len(children) + 1
      /\ children'[Len(children) + 1] = child
      /\ \A k \in DOMAIN children : children'[k] = children[k]
      /\ DOMAIN children' = DOMAIN children \cup {Len(children) + 1}
  BY <1>1, <1>2, <1>3
<1>5. children' \in Seq(ChildrenOf(Vectors(children')))
  BY <1>4, OwnVectors
<1>6. Reaped' = Reaped
  BY <1>2, <1>3, <1>4 DEF Reaped
<1> QED
  BY <1>1, <1>5, <1>6 DEF WaitingInv, NoneLeftAtPrompt

LEMMA WaitWaiting == WaitingInv /\ Wait => WaitingInv'
<1> SUFFICES ASSUME WaitingInv, Wait PROVE WaitingInv'
  OBVIOUS
<1>1. PICK k \in DOMAIN children :
        /\ children[k].state = "zombie"
        /\ children' = [children EXCEPT ![k].state = "reaped"]
  BY DEF Wait
<1>2. pc = "wait" /\ pc' = pc /\ waited' = waited + 1
  BY DEF Wait
<1>3. /\ children' \in Seq(ChildrenOf(Vectors(children')))
      /\ DOMAIN children' = DOMAIN children
      /\ children'[k].state = "reaped"
      /\ \A j \in DOMAIN children \ {k} : children'[j] = children[j]
  <2> DEFINE argvs == Vectors(children)
  <2>1. children \in Seq(ChildrenOf(argvs)) /\ "reaped" \in States
    BY DEF WaitingInv, States
  <2> HIDE DEF argvs
  <2>2. children[k].outcome \in Outcomes
    BY <1>1, <2>1, ChildKind
  <2>3. k \in DOMAIN children
    BY <1>1
  <2>4. children' = Changed(children, k, "reaped", children[k].outcome)
    BY <1>1, <2>1, <2>2, <2>3, ChangedIs
  <2> QED
    BY <2>1, <2>2, <2>3, <2>4, ChildChanges
<1>4. Reaped' = Reaped \cup {k} /\ k \notin Reaped
  BY <1>1, <1>3 DEF Reaped
<1>5. Cardinality(Reaped') = Cardinality(Reaped) + 1
  BY <1>4, ReapedFinite, FS_AddElement
<1> QED
  BY <1>2, <1>3, <1>5 DEF WaitingInv, NoneLeftAtPrompt

LEMMA StepWaiting == WaitingInv /\ [Next]_vars => WaitingInv'
<1> SUFFICES ASSUME WaitingInv, [Next]_vars PROVE WaitingInv'
  OBVIOUS
<1>1. CASE ReadCommand \/ ReadExit \/ ReadAtEnd \/ RejectCommand
  <2>1. /\ pc \in {"prompt", "process"} /\ pc' \in {"prompt", "process", "ended"}
        /\ UNCHANGED <<children, waited>>
    BY <1>1 DEF ReadCommand, ReadExit, ReadAtEnd, RejectCommand, Tokenized
  <2> QED
    BY <2>1 DEF WaitingInv, NoneLeftAtPrompt
<1>2. CASE AcceptCommand
  <2>1. pc' = "fork" /\ children' = << >> /\ waited' = 0
    BY <1>2 DEF AcceptCommand
  <2>2. Reaped' = {}
    BY <2>1 DEF Reaped
  <2> QED
    BY <2>1, <2>2, FS_EmptySet DEF WaitingInv, NoneLeftAtPrompt
<1>3. CASE Fork
  BY <1>3, ForkWaiting
<1>4. CASE ForkEnds
  <2>1. pc = "fork" /\ pc' = "wait" /\ UNCHANGED <<children, waited>>
    BY <1>4 DEF ForkEnds
  <2> QED
    BY <2>1 DEF WaitingInv, NoneLeftAtPrompt, Reaped
<1>5. CASE Wait
  BY <1>5, WaitWaiting
<1>6. CASE WaitReturns
  <2>1. pc = "wait" /\ pc' = "prompt" /\ UNCHANGED <<children, waited>>
        /\ waited = Len(children)
    BY <1>6 DEF WaitReturns, forkCount
  <2>2. Reaped = 1..Len(children)
    BY <2>1, ReapedFinite DEF WaitingInv
  <2>3. DOMAIN children = 1..Len(children)
    BY DEF WaitingInv
  <2> QED
    BY <2>1, <2>2, <2>3 DEF WaitingInv, NoneLeftAtPrompt, Reaped
<1>7. CASE \E k \in DOMAIN children : ChildStep(k)
  BY <1>7, ChildWaiting
<1>8. CASE UNCHANGED vars
  BY <1>8 DEF vars, WaitingInv, NoneLeftAtPrompt, Reaped
<1> QED
  BY <1>1, <1>2, <1>3, <1>4, <1>5, <1>6, <1>7, <1>8 DEF Next, main

\* However many copies are started and whatever becomes of them, none is left
\* when the shell reads on or ends (myshell.c:233-244).
THEOREM NobodyLeft == Spec => []NoneLeftAtPrompt
<1>1. WaitingInv => NoneLeftAtPrompt
  BY DEF WaitingInv
<1> QED
  BY <1>1, InitWaiting, StepWaiting, PTL DEF Spec

(***************************************************************************)
(* What the operators of the shell make of lines, files and texts.         *)
(***************************************************************************)
\* What the checks on the constants say of the words and files.
LEMMA ShellConstants ==
    /\ Typed \subseteq Line /\ Leftovers \subseteq Line /\ MaxLines \in Nat
    /\ NULL \notin Words /\ NULL \notin Seq(Text) /\ << >> # NULL
    /\ Seq(Words) \subseteq Text /\ ExecFailed \in Text /\ <<Old>> \in Seq(Text)
    /\ FileOf \in [Words -> Files]
<1>1. /\ Typed \subseteq Line /\ Leftovers \subseteq Line /\ MaxLines \in Nat
      /\ NULL \notin Words /\ NULL \notin Seq(Text) /\ FileOf \in [Words -> Files]
  BY ShellAssumption
<1>2. << >> \in Seq(Text)
  OBVIOUS
<1>3. Seq(Words) \subseteq Text
  <2> DEFINE T == Words \cup {Old[1], ExecFailed[1]}
  <2>1. Words \subseteq T
    OBVIOUS
  <2> HIDE DEF T
  <2>2. Seq(Words) \subseteq Seq(T)
    BY <2>1, SeqWider
  <2> QED
    BY <2>2 DEF Text, T
<1>4. ExecFailed \in Text /\ Old \in Text
  BY DEF ExecFailed, Old, Text
<1>5. <<Old>> \in Seq(Text)
  BY <1>4
<1> QED
  BY <1>1, <1>2, <1>3, <1>4, <1>5

LEMMA IndexWords ==
    ASSUME NEW w \in DOMAIN Number
    PROVE  /\ Number[w] \in Int
           /\ \A i \in 0..(Number[w] - 1) : Decimal[i] \in Words
BY ShellAssumption

\* What tokenize and strtok make of a line.
LEMMA OneArgFewer ==
    ASSUME NEW line \in Seq(Token), NEW kind
    PROVE  /\ OfKind(line, kind) \in SUBSET (DOMAIN line)
           /\ LastOfKind(line, kind) \in Words \cup {NULL}
<1>1. OfKind(line, kind) \in SUBSET (DOMAIN line)
  BY DEF OfKind
<1>2. LastOfKind(line, kind) \in Words \cup {NULL}
  <2>1. CASE OfKind(line, kind) = {}
    BY <2>1 DEF LastOfKind
  <2>2. CASE OfKind(line, kind) # {}
    <3>1. /\ OfKind(line, kind) \in SUBSET Nat /\ Len(line) \in Nat
          /\ \A k \in OfKind(line, kind) : k <= Len(line)
      BY <1>1
    <3>2. LastOf(OfKind(line, kind)) \in OfKind(line, kind)
      BY <2>2, <3>1, LastOfGreatest
    <3>3. LastOf(OfKind(line, kind)) \in DOMAIN line
      BY <1>1, <3>2
    <3>4. line[LastOf(OfKind(line, kind))] \in Token
      BY <3>3
    <3>5. line[LastOf(OfKind(line, kind))].word \in Words
      BY <3>4 DEF Token
    <3> QED
      BY <2>2, <3>5 DEF LastOfKind
  <2> QED
    BY <2>1, <2>2
<1> QED
  BY <1>1, <1>2

Param == [argv : Seq(Words), in : Words \cup {NULL}, out : Words \cup {NULL}]

\* A line of one word has room in the vector.
LEMMA ShortLine ==
    ASSUME NEW line \in Seq(Token), Len(line) <= 1
    PROVE  line \in Line
<1> DEFINE args == OfKind(line, "arg")
<1>1. args \in SUBSET (DOMAIN line)
  BY OneArgFewer
<1> HIDE DEF args
<1>2. Cardinality(args) \in Nat /\ Cardinality(args) <= Len(line)
  BY <1>1, PickedIsSequence
<1>3. Cardinality(args) <= MAXARGS
  BY <1>2 DEF MAXARGS
<1> QED
  BY <1>3 DEF Line, args

LEMMA TokenizeTypes ==
    ASSUME NEW line \in Line
    PROVE  /\ tokenize(line) \in Param
           /\ Len(tokenize(line).argv) \in Nat /\ Len(tokenize(line).argv) <= Len(line)
           /\ Len(tokenize(line).argv) <= MAXARGS
           /\ CutByStrtok(line) \in Line /\ Len(CutByStrtok(line)) <= 1
<1> DEFINE picks == Args(line)
           argv == [k \in DOMAIN picks |-> picks[k].word]
<1>0. line \in Seq(Token) /\ Cardinality(OfKind(line, "arg")) <= MAXARGS
  BY DEF Line
<1>1. /\ picks \in Seq(Token) /\ Len(picks) \in Nat /\ Len(picks) <= Len(line)
      /\ Len(picks) <= MAXARGS
  <2>1. OfKind(line, "arg") \in SUBSET (DOMAIN line)
    BY <1>0, OneArgFewer
  <2>2. /\ PickedFrom(line, OfKind(line, "arg")) \in Seq(Token)
        /\ Cardinality(OfKind(line, "arg")) \in Nat
        /\ Cardinality(OfKind(line, "arg")) <= Len(line)
        /\ Len(PickedFrom(line, OfKind(line, "arg"))) = Cardinality(OfKind(line, "arg"))
    BY <1>0, <2>1, PickedIsSequence
  <2> QED
    BY <1>0, <2>2 DEF Args
<1> HIDE DEF picks
<1>2. argv \in Seq(Words) /\ Len(argv) = Len(picks)
  <2>1. ASSUME NEW k \in DOMAIN picks PROVE picks[k].word \in Words
    <3>1. picks[k] \in Token
      BY <1>1
    <3> QED
      BY <3>1 DEF Token
  <2>2. argv \in [1..Len(picks) -> Words]
    BY <1>1, <2>1
  <2> HIDE DEF argv
  <2> QED
    BY <1>1, <2>2
<1>3. tokenize(line) = [argv |-> argv, in |-> LastOfKind(line, "in"),
                        out |-> LastOfKind(line, "out")]
  BY DEF tokenize, picks
<1>4. LastOfKind(line, "in") \in Words \cup {NULL} /\ LastOfKind(line, "out") \in Words \cup {NULL}
  BY <1>0, OneArgFewer
<1> HIDE DEF argv
<1>5. tokenize(line) \in Param /\ tokenize(line).argv = argv
  BY <1>2, <1>3, <1>4 DEF Param
<1>6. CutByStrtok(line) \in Line /\ Len(CutByStrtok(line)) <= 1
  <2>1. CutByStrtok(line) \in Seq(Token) /\ Len(CutByStrtok(line)) <= 1
    <3>1. CASE line = << >>
      BY <3>1 DEF CutByStrtok
    <3>2. CASE line # << >>
      <4>1. line[1] \in Token
        BY <1>0, <3>2
      <4> QED
        BY <1>0, <3>2, <4>1 DEF CutByStrtok
    <3> QED
      BY <3>1, <3>2
  <2> QED
    BY <2>1, ShortLine
<1> QED
  BY <1>1, <1>2, <1>5, <1>6

\* The vector of a child.
LEMMA ChildVector ==
    ASSUME NEW cmd \in Param, Len(cmd.argv) >= 2, NEW i, Decimal[i] \in Words
    PROVE  formatChildArgV(cmd, i) \in Text
<1> DEFINE argv == cmd.argv
<1>1. argv \in Seq(Words) /\ Len(argv) \in Nat /\ Len(argv) >= 2
  BY DEF Param
<1> HIDE DEF argv
<1>2. argv[1] \in Words /\ argv[2] \in Words
  BY <1>1
<1>3. <<argv[1], argv[2], Decimal[i]>> \in Seq(Words)
  BY <1>2
<1>4. SubSeq(argv, 3, Len(argv)) \in Seq(Words)
  BY <1>1
<1>5. <<argv[1], argv[2], Decimal[i]>> \o SubSeq(argv, 3, Len(argv)) \in Seq(Words)
  BY <1>3, <1>4
<1> QED
  BY <1>5, ShellConstants DEF formatChildArgV, argv

LEMMA InitShell == Init => ShellInv
<1> SUFFICES ASSUME Init PROVE ShellInv
  OBVIOUS
<1>1. TypeOK
  <2>1. inputCommand \in Param
    BY DEF Init, NoParam, Param
  <2>2. fs \in [Files -> Seq(Text) \cup {NULL}]
    BY ShellConstants DEF Init
  <2>3. children \in Seq(ChildrenOf(Text)) /\ Len(children) = 0
    BY DEF Init
  <2>4. command \in Line /\ lines \in 0..MaxLines
    BY ShellConstants DEF Init
  <2>5. pc = "prompt" /\ eof = FALSE /\ n = 0 /\ waited \in 0..forkCount
    BY <2>3 DEF Init, forkCount
  <2>6. Len(inputCommand.argv) <= MAXARGS /\ before \in Seq(Text)
    BY DEF Init, NoParam, MAXARGS
  <2> QED
    BY <2>1, <2>2, <2>3, <2>4, <2>5, <2>6 DEF TypeOK, Param
<1>2. CommandInv /\ OutputInv /\ BufferInv
  BY DEF Init, CommandInv, OutputInv, BufferInv, Starting
<1> QED
  BY <1>1, <1>2, InitWaiting DEF ShellInv

\* Steps that read a line.
LEMMA ReadingShell ==
    ASSUME ShellInv, ReadCommand \/ ReadExit \/ ReadAtEnd
    PROVE  TypeOK' /\ CommandInv' /\ OutputInv' /\ BufferInv'
<1>1. /\ pc = "prompt" /\ pc' \in {"process", "ended"}
      /\ UNCHANGED <<n, children, waited, fs, before>>
  BY DEF ReadCommand, ReadExit, ReadAtEnd, Tokenized
<1>2. CommandInv' /\ OutputInv'
  BY <1>1 DEF CommandInv, OutputInv, Starting
<1>3. CASE ReadExit
  <2>1. /\ lines' \in 0..MaxLines /\ pc' = "ended" /\ ~eof
        /\ UNCHANGED <<command, eof, inputCommand>>
    BY <1>3, ShellConstants DEF ReadExit, ShellInv, TypeOK
  <2>2. TypeOK'
    BY <1>1, <2>1 DEF ShellInv, TypeOK, forkCount
  <2>3. BufferInv'
    BY <2>1 DEF BufferInv
  <2> QED
    BY <1>2, <2>2, <2>3
<1>4. ASSUME NEW line \in Line, Tokenized(line), eof' \in BOOLEAN,
             lines' \in 0..MaxLines, eof' /\ lines' > 0 => Len(line) <= 1
      PROVE  TypeOK' /\ BufferInv'
  <2>1. /\ inputCommand' = tokenize(line) /\ command' = CutByStrtok(line)
        /\ pc' = "process"
    BY <1>4 DEF Tokenized
  <2>2. /\ inputCommand' \in Param /\ Len(inputCommand'.argv) \in Nat
        /\ Len(inputCommand'.argv) <= Len(line) /\ Len(inputCommand'.argv) <= MAXARGS
        /\ command' \in Line /\ Len(command') <= 1
    BY <2>1, TokenizeTypes
  <2>3. TypeOK'
    BY <1>1, <1>4, <2>1, <2>2 DEF ShellInv, TypeOK, Param, forkCount
  <2>4. eof' /\ lines' > 0 => Len(inputCommand'.argv) <= 1
    <3>1. Len(line) \in Nat
      BY DEF Line
    <3> QED
      BY <1>4, <2>2, <3>1
  <2>5. BufferInv'
    BY <2>1, <2>2, <2>4 DEF BufferInv
  <2> QED
    BY <2>3, <2>5
<1>5. CASE ReadCommand
  <2>1. PICK line \in Typed : Tokenized(line)
    BY <1>5 DEF ReadCommand
  <2>2. line \in Line /\ ~eof /\ eof' = eof /\ lines' \in 0..MaxLines
    BY <1>5, ShellConstants DEF ReadCommand, ShellInv, TypeOK
  <2>3. eof' = FALSE
    BY <2>2 DEF ShellInv, TypeOK
  <2> QED
    BY <1>2, <1>4, <2>1, <2>2, <2>3
<1>6. CASE ReadAtEnd
  <2>1. Tokenized(command) /\ eof' = TRUE /\ lines' = lines
    BY <1>6 DEF ReadAtEnd
  <2>2. command \in Line /\ lines \in 0..MaxLines
    BY DEF ShellInv, TypeOK
  <2>3. lines > 0 => Len(command) <= 1
    BY <1>1 DEF ShellInv, BufferInv
  <2> QED
    BY <1>2, <1>4, <2>1, <2>2, <2>3
<1> QED
  BY <1>2, <1>3, <1>5, <1>6

\* What the shell knows of the files of its command.
LEMMA CommandFiles ==
    ASSUME TypeOK
    PROVE  /\ inputCommand \in Param
           /\ inputCommand.out # NULL => inputCommand.out \in Words /\ OutFile \in Files
           /\ inputCommand.in # NULL => inputCommand.in \in Words /\ InFile \in Files
<1>1. inputCommand \in Param
  BY DEF TypeOK, Param
<1> QED
  BY <1>1, ShellConstants DEF Param, OutFile, InFile

\* Lines written in any order behind old ones: none, and one line more.
Written(old, text, W, line) ==
    LET new == DOMAIN text \ DOMAIN old IN
    /\ Len(text) = Len(old) + Cardinality(W)
    /\ \A j \in DOMAIN old : text[j] = old[j]
    /\ \E order \in [new -> W] :
          /\ \A k \in W : \E j \in new : order[j] = k
          /\ \A j \in new : text[j] = line[order[j]]

LEMMA WholeIsWritten ==
    ASSUME NEW old, NEW text
    PROVE  Whole(old, text) <=> Written(old, text, Writers, [k \in Writers |-> LineOf(k)])
BY DEF Whole, Written

\* What is written after a step.
LEMMA WholeNext ==
    ASSUME NEW old, NEW text, NEW W, NEW line, Written(old, text, W, line),
           Earlier(OutFile)' = old, TextOf(OutFile)' = text, Writers' = W,
           \A k \in W : line[k] = LineOf(k)'
    PROVE  Whole(Earlier(OutFile), TextOf(OutFile))'
<1> DEFINE new == DOMAIN text \ DOMAIN old
<1>1. PICK order \in [new -> W] :
        /\ \A k \in W : \E j \in new : order[j] = k
        /\ \A j \in new : text[j] = line[order[j]]
  BY DEF Written
<1>2. ASSUME NEW j \in new PROVE text[j] = LineOf(order[j])'
  <2>1. order[j] \in W
    BY <1>1
  <2> QED
    BY <1>1, <2>1
<1>3. /\ Len(text) = Len(old) + Cardinality(W)
      /\ \A j \in DOMAIN old : text[j] = old[j]
  BY DEF Written
<1>4. /\ Len(text) = Len(old) + Cardinality(Writers')
      /\ \E o \in [new -> Writers'] :
            /\ \A k \in Writers' : \E j \in new : o[j] = k
            /\ \A j \in new : text[j] = LineOf(o[j])'
  BY <1>1, <1>2, <1>3
<1> QED
  BY <1>3, <1>4 DEF Whole

\* A step that adds no line leaves the output whole.
LEMMA WholeStays ==
    ASSUME Whole(Earlier(OutFile), TextOf(OutFile)), UNCHANGED <<inputCommand, before>>,
           TextOf(OutFile)' = TextOf(OutFile), Writers' = Writers,
           \A k \in Writers : LineOf(k)' = LineOf(k)
    PROVE  Whole(Earlier(OutFile), TextOf(OutFile))'
<1> DEFINE old  == Earlier(OutFile)
           text == TextOf(OutFile)
           line == [k \in Writers |-> LineOf(k)]
<1>1. Written(old, text, Writers, line)
  BY WholeIsWritten
<1>2. Earlier(OutFile)' = old /\ TextOf(OutFile)' = text
  BY DEF Earlier, OutFile
<1>3. \A k \in Writers : line[k] = LineOf(k)'
  OBVIOUS
<1> HIDE DEF old, text, line
<1> QED
  BY <1>1, <1>2, <1>3, WholeNext

LEMMA NothingWritten ==
    ASSUME NEW T, NEW old \in Seq(T), NEW line
    PROVE  Written(old, old, {}, line)
<1> DEFINE new   == DOMAIN old \ DOMAIN old
           order == [j \in new |-> j]
<1>1. new = {}
  OBVIOUS
<1>2. order \in [new -> {}]
  BY <1>1
<1>3. Cardinality({}) = 0
  BY FS_EmptySet
<1>4. Len(old) = Len(old) + Cardinality({})
  BY <1>3
<1> QED
  BY <1>1, <1>2, <1>4 DEF Written

LEMMA OneMoreWritten ==
    ASSUME NEW T, NEW old \in Seq(T), NEW text \in Seq(T), NEW W, IsFiniteSet(W),
           NEW k, k \notin W, NEW line, NEW longer, Written(old, text, W, line),
           \A j \in W : longer[j] = line[j], longer[k] \in T
    PROVE  Written(old, Append(text, longer[k]), W \cup {k}, longer)
<1> DEFINE more == Append(text, longer[k])
           last == Len(text) + 1
           new  == DOMAIN text \ DOMAIN old
<1>1. PICK order \in [new -> W] :
        /\ \A i \in W : \E j \in new : order[j] = i
        /\ \A j \in new : text[j] = line[order[j]]
  BY DEF Written
<1>2. /\ more \in Seq(T) /\ Len(more) = last /\ DOMAIN more = DOMAIN text \cup {last}
      /\ more[last] = longer[k] /\ last \notin DOMAIN text
      /\ \A j \in DOMAIN text : more[j] = text[j]
  OBVIOUS
<1>3. /\ Cardinality(W) \in Nat
      /\ Cardinality(W \cup {k}) = Cardinality(W) + 1
  BY FS_AddElement, FS_CardinalityType
<1>4. Len(text) = Len(old) + Cardinality(W) /\ \A j \in DOMAIN old : text[j] = old[j]
  BY DEF Written
<1>5. /\ DOMAIN old \subseteq DOMAIN text /\ last \notin DOMAIN old
      /\ last = Len(old) + Cardinality(W \cup {k})
  BY <1>3, <1>4
<1> DEFINE new2 == DOMAIN more \ DOMAIN old
<1>6. new2 = new \cup {last} /\ last \notin new
  BY <1>2, <1>5
<1>7. /\ Len(more) = Len(old) + Cardinality(W \cup {k})
      /\ \A j \in DOMAIN old : more[j] = old[j]
      /\ \A j \in new : more[j] = text[j]
  BY <1>2, <1>4, <1>5
<1> HIDE DEF more, last, new, new2
<1> DEFINE order2 == [j \in new2 |-> IF j = last THEN k ELSE order[j]]
<1>8. order2 \in [new2 -> W \cup {k}]
  BY <1>6
<1>9. order2[last] = k /\ \A j \in new : order2[j] = order[j]
  BY <1>6
<1> HIDE DEF order2
<1>10. \A i \in W \cup {k} : \E j \in new2 : order2[j] = i
  BY <1>1, <1>6, <1>9
<1>11. ASSUME NEW j \in new2 PROVE more[j] = longer[order2[j]]
  <2>1. CASE j = last
    BY <1>2, <1>9, <2>1
  <2>2. CASE j \in new
    <3>1. order[j] \in W
      BY <1>1, <2>2
    <3> QED
      BY <1>1, <1>7, <1>9, <2>2, <3>1
  <2> QED
    BY <1>6, <2>1, <2>2
<1> QED
  BY <1>7, <1>8, <1>10, <1>11 DEF Written, more, new2

LEMMA WritersFinite ==
    ASSUME TypeOK
    PROVE  IsFiniteSet(Writers) /\ Writers \subseteq DOMAIN children
<1>1. Len(children) \in Nat /\ DOMAIN children = 1..Len(children)
  BY DEF TypeOK
<1>2. IsFiniteSet(1..Len(children))
  BY <1>1, FS_Interval
<1> QED
  BY <1>1, <1>2, FS_Subset DEF Writers

(***************************************************************************)
(* The steps of the shell itself.                                          *)
(***************************************************************************)
\* Steps that touch neither a file nor a child leave the output as it is.
LEMMA SameOutput ==
    ASSUME OutputInv, UNCHANGED <<inputCommand, children, fs, before>>, Starting' => Starting
    PROVE  OutputInv'
<1>1. Writers' = Writers /\ \A k \in Writers : LineOf(k)' = LineOf(k)
  BY DEF Writers, LineOf
<1>2. TextOf(OutFile)' = TextOf(OutFile)
  BY DEF TextOf, OutFile
<1>3. Whole(Earlier(OutFile), TextOf(OutFile)) => Whole(Earlier(OutFile), TextOf(OutFile))'
  BY <1>1, <1>2, WholeStays
<1> QED
  BY <1>3 DEF OutputInv, Ended, OutFile, InFile, Overwritten, Exists

\* Steps that neither read a line nor touch a file or a child.
LEMMA QuietShell ==
    ASSUME ShellInv, RejectCommand \/ ForkEnds \/ WaitReturns
    PROVE  TypeOK' /\ CommandInv' /\ OutputInv' /\ BufferInv'
<1>1. /\ UNCHANGED <<command, lines, eof, inputCommand, n, children, waited, fs, before>>
      /\ pc \in {"process", "fork", "wait"} /\ pc' \in {"prompt", "wait"}
      /\ pc' = "wait" => pc = "fork"
  BY DEF RejectCommand, ForkEnds, WaitReturns
<1>2. TypeOK'
  BY <1>1 DEF ShellInv, TypeOK, forkCount
<1>3. CommandInv'
  BY <1>1 DEF ShellInv, CommandInv, Starting, Ended, Writes, OutFile, formatChildArgV
<1>4. OutputInv'
  BY <1>1, SameOutput DEF ShellInv, OutputInv, Starting
<1>5. BufferInv'
  BY <1>1 DEF ShellInv, BufferInv
<1> QED
  BY <1>2, <1>3, <1>4, <1>5

LEMMA AcceptShell ==
    ASSUME ShellInv, AcceptCommand
    PROVE  TypeOK' /\ CommandInv' /\ OutputInv' /\ BufferInv'
<1>1. /\ pc = "process" /\ pc' = "fork" /\ Accepted(inputCommand)
      /\ n' = Number[inputCommand.argv[2]] /\ fs' = Remove(inputCommand)
      /\ before' = TextBefore(inputCommand)
      /\ children' = << >> /\ waited' = 0
      /\ UNCHANGED <<command, lines, eof, inputCommand>>
  BY DEF AcceptCommand
<1>2. /\ inputCommand \in Param
      /\ inputCommand.out # NULL => inputCommand.out \in Words /\ OutFile \in Files
      /\ inputCommand.in # NULL => inputCommand.in \in Words /\ InFile \in Files
      /\ fs \in [Files -> Seq(Text) \cup {NULL}]
  BY CommandFiles DEF ShellInv, TypeOK
<1>3. /\ Len(inputCommand.argv) >= 2 /\ inputCommand.argv[2] \in DOMAIN Number
      /\ n' \in Nat
      /\ inputCommand.in # NULL => fs[InFile] # NULL
  <2>1. Number[inputCommand.argv[2]] >= 1 /\ inputCommand.argv[2] \in DOMAIN Number
    BY <1>1 DEF Accepted
  <2>2. Number[inputCommand.argv[2]] \in Nat
    BY <2>1, IndexWords
  <2> QED
    BY <1>1, <2>2 DEF Accepted, Exists, InFile
<1>4. /\ fs' \in [Files -> Seq(Text) \cup {NULL}]
      /\ \A f \in Files : inputCommand.out # NULL /\ f # OutFile => fs'[f] = fs[f]
      /\ inputCommand.out # NULL /\ OutFile \in Undeletable => fs'[OutFile] = fs[OutFile]
      /\ inputCommand.out # NULL /\ OutFile \notin Protected \cup Undeletable =>
            fs'[OutFile] = NULL
  <2> DEFINE removed == /\ inputCommand.out # NULL /\ fs[OutFile] # NULL
                        /\ OutFile \notin Protected \cup Undeletable
  <2>1. fs' = IF removed THEN [fs EXCEPT ![OutFile] = NULL] ELSE fs
    BY <1>1 DEF Remove, Exists, OutFile
  <2>2. CASE removed
    BY <1>2, <2>1, <2>2
  <2>3. CASE ~removed
    BY <1>2, <2>1, <2>3
  <2> QED
    BY <2>2, <2>3
<1>5. /\ before' \in Seq(Text)
      /\ inputCommand.out # NULL => before' = TextOf(OutFile)
  <2>1. CASE inputCommand.out = NULL
    BY <1>1, <2>1 DEF TextBefore
  <2>2. CASE inputCommand.out # NULL
    <3>1. before' = IF fs[OutFile] = NULL THEN << >> ELSE fs[OutFile]
      BY <1>1, <2>2 DEF TextBefore, TextOf, OutFile
    <3>2. << >> \in Seq(Text)
      OBVIOUS
    <3>3. before' \in Seq(Text)
      BY <1>2, <2>2, <3>1, <3>2
    <3> QED
      BY <3>1, <3>3 DEF TextOf
  <2> QED
    BY <2>1, <2>2
<1>6. TypeOK'
  <2>1. children' \in Seq(ChildrenOf(Text)) /\ waited' \in 0..forkCount'
    BY <1>1 DEF forkCount
  <2> QED
    BY <1>1, <1>3, <1>4, <1>5, <2>1 DEF ShellInv, TypeOK
<1>7. CommandInv'
  <2>1. DOMAIN children' = {}
    BY <1>1
  <2> QED
    BY <1>1, <1>3, <2>1 DEF CommandInv
<1>8. OutputInv'
  <2> SUFFICES ASSUME inputCommand.out # NULL
               PROVE  /\ OutFile \notin Protected /\ Overwritten => fs'[OutFile] = NULL
                      /\ OutFile \notin Protected /\ ~Overwritten =>
                            /\ inputCommand.in # NULL => Exists(inputCommand.in)'
                            /\ Whole(Earlier(OutFile), TextOf(OutFile))'
    <3>1. DOMAIN children' = {}
      BY <1>1
    <3>2. OutFile' = OutFile /\ (Overwritten' <=> Overwritten)
      BY <1>1 DEF OutFile, InFile, Overwritten
    <3> QED
      BY <1>1, <3>1, <3>2 DEF OutputInv
  <2>1. OutFile \notin Protected /\ Overwritten => fs'[OutFile] = NULL
    BY <1>4 DEF Overwritten
  <2>2. ASSUME OutFile \notin Protected, ~Overwritten, inputCommand.in # NULL
        PROVE  Exists(inputCommand.in)'
    <3>1. InFile # OutFile \/ OutFile \in Undeletable
      BY <2>2 DEF Overwritten
    <3>2. fs'[InFile] = fs[InFile]
      BY <1>2, <1>4, <2>2, <3>1
    <3> QED
      BY <1>1, <1>3, <2>2, <3>2 DEF Exists, InFile
  <2>3. ASSUME OutFile \notin Protected
        PROVE  Whole(Earlier(OutFile), TextOf(OutFile))'
    <3> DEFINE old == Earlier(OutFile)'
    <3>1. OutFile' = OutFile
      BY <1>1 DEF OutFile
    <3>2. TextOf(OutFile)' = old
      <4>1. CASE OutFile \in Undeletable
        BY <1>4, <1>5, <3>1, <4>1 DEF TextOf, Earlier
      <4>2. CASE OutFile \notin Undeletable
        BY <1>4, <2>3, <3>1, <4>2 DEF TextOf, Earlier
      <4> QED
        BY <4>1, <4>2
    <3>3. old \in Seq(Text)
      BY <1>5, ShellConstants DEF Earlier
    <3>4. Writers' = {}
      BY <1>1 DEF Writers
    <3> HIDE DEF old
    <3>5. Written(old, old, {}, [k \in {} |-> LineOf(k)'])
      BY <3>3, NothingWritten
    <3>6. Earlier(OutFile)' = old
      BY DEF old
    <3> QED
      BY <3>2, <3>4, <3>5, <3>6, WholeNext
  <2> QED
    BY <2>1, <2>2, <2>3
<1>9. BufferInv'
  <2>1. Len(inputCommand.argv) \in Nat
    BY <1>2 DEF Param
  <2> QED
    BY <1>1, <1>3, <2>1 DEF ShellInv, BufferInv
<1> QED
  BY <1>6, <1>7, <1>8, <1>9

LEMMA ForkShell ==
    ASSUME ShellInv, Fork
    PROVE  TypeOK' /\ CommandInv' /\ OutputInv' /\ BufferInv'
<1> DEFINE child == Child(forkCount)
           last == Len(children) + 1
<1>1. /\ pc = "fork" /\ forkCount < n /\ children' = Append(children, child)
      /\ UNCHANGED <<pc, command, lines, eof, inputCommand, n, waited, fs, before>>
  BY DEF Fork
<1>2. /\ Len(inputCommand.argv) >= 2 /\ inputCommand.argv[2] \in DOMAIN Number
      /\ n = Number[inputCommand.argv[2]]
      /\ \A k \in DOMAIN children :
            /\ children[k].argv = formatChildArgV(inputCommand, k - 1)
            /\ ~Ended(k) => children[k].outcome = "none"
            /\ Writes(k) /\ inputCommand.out # NULL =>
                  OutFile \notin Protected /\ fs[OutFile] # NULL
  BY <1>1 DEF ShellInv, CommandInv, Starting
<1>3. children \in Seq(ChildrenOf(Text)) /\ Len(children) \in Nat
  BY DEF ShellInv, TypeOK
<1>4. /\ child \in ChildrenOf(Text) /\ child.argv = formatChildArgV(inputCommand, last - 1)
      /\ child.state = "forked" /\ child.outcome = "none"
  <2>1. forkCount \in 0..(Number[inputCommand.argv[2]] - 1)
    BY <1>1, <1>2, <1>3, IndexWords DEF forkCount
  <2>2. inputCommand \in Param
    BY DEF ShellInv, TypeOK, Param
  <2>3. formatChildArgV(inputCommand, forkCount) \in Text
    BY <1>2, <2>1, <2>2, IndexWords, ChildVector
  <2>4. forkCount = last - 1
    BY <1>3 DEF forkCount
  <2> QED
    BY <2>3, <2>4 DEF Child, ChildrenOf
<1> HIDE DEF child
<1>5. /\ children' \in Seq(ChildrenOf(Text)) /\ Len(children') = last
      /\ DOMAIN children' = DOMAIN children \cup {last} /\ last \notin DOMAIN children
      /\ children'[last] = child
      /\ \A k \in DOMAIN children : children'[k] = children[k]
  BY <1>1, <1>3, <1>4
<1> HIDE DEF last
<1>6. TypeOK'
  <2>1. waited' \in 0..forkCount'
    BY <1>1, <1>3, <1>5 DEF ShellInv, TypeOK, forkCount, last
  <2> QED
    BY <1>1, <1>5, <2>1 DEF ShellInv, TypeOK
<1>7. CommandInv'
  <2> SUFFICES ASSUME NEW k \in DOMAIN children'
               PROVE  /\ children'[k].argv = formatChildArgV(inputCommand, k - 1)
                      /\ ~Ended(k)' => children'[k].outcome = "none"
                      /\ Writes(k)' /\ inputCommand.out # NULL =>
                            OutFile \notin Protected /\ fs[OutFile] # NULL
    BY <1>1, <1>2 DEF CommandInv, OutFile, formatChildArgV
  <2>1. CASE k = last
    BY <1>4, <1>5, <2>1 DEF Writes
  <2>2. CASE k \in DOMAIN children
    BY <1>2, <1>5, <2>2 DEF Ended, Writes
  <2> QED
    BY <1>5, <2>1, <2>2
<1>8. Writers' = Writers
  BY <1>4, <1>5 DEF Writers
<1>9. OutputInv'
  <2> SUFFICES ASSUME inputCommand.out # NULL
               PROVE  /\ OutFile \in Protected =>
                            \A k \in DOMAIN children' : children'[k].outcome # "ran"
                      /\ OutFile \notin Protected /\ Overwritten =>
                            /\ fs[OutFile] = NULL
                            /\ \A k \in DOMAIN children' :
                                  Ended(k)' \/ children'[k].state = "forked"
                      /\ OutFile \notin Protected /\ ~Overwritten =>
                            /\ inputCommand.in # NULL => Exists(inputCommand.in)
                            /\ Whole(Earlier(OutFile), TextOf(OutFile))'
    BY <1>1 DEF OutputInv, OutFile, InFile, Overwritten, Exists
  <2>1. /\ OutFile \in Protected => \A k \in DOMAIN children : children[k].outcome # "ran"
        /\ OutFile \notin Protected /\ Overwritten =>
              /\ fs[OutFile] = NULL
              /\ \A k \in DOMAIN children : Ended(k) \/ children[k].state = "forked"
        /\ OutFile \notin Protected /\ ~Overwritten =>
              /\ inputCommand.in # NULL => Exists(inputCommand.in)
              /\ Whole(Earlier(OutFile), TextOf(OutFile))
    BY <1>1 DEF ShellInv, OutputInv, Starting
  <2>2. ASSUME NEW k \in DOMAIN children'
        PROVE  k = last \/ (k \in DOMAIN children /\ (Ended(k)' <=> Ended(k)))
    <3>1. CASE k \in DOMAIN children
      BY <1>5, <3>1 DEF Ended
    <3> QED
      BY <1>5, <3>1
  <2>3. TextOf(OutFile)' = TextOf(OutFile)
    BY <1>1 DEF TextOf, OutFile
  <2>4. \A k \in Writers : LineOf(k)' = LineOf(k)
    BY <1>1, <1>5 DEF Writers, LineOf
  <2>5. Whole(Earlier(OutFile), TextOf(OutFile)) => Whole(Earlier(OutFile), TextOf(OutFile))'
    BY <1>1, <1>8, <2>3, <2>4, WholeStays
  <2> QED
    BY <1>4, <1>5, <2>1, <2>2, <2>5
<1>10. BufferInv'
  BY <1>1 DEF ShellInv, BufferInv
<1> QED
  BY <1>6, <1>7, <1>9, <1>10

LEMMA WaitShell ==
    ASSUME ShellInv, Wait
    PROVE  TypeOK' /\ CommandInv' /\ OutputInv' /\ BufferInv'
<1>1. PICK k \in DOMAIN children :
        /\ children[k].state = "zombie"
        /\ children' = [children EXCEPT ![k].state = "reaped"]
  BY DEF Wait
<1>2. /\ pc = "wait" /\ waited < forkCount /\ waited' = waited + 1
      /\ UNCHANGED <<pc, command, lines, eof, inputCommand, n, fs, before>>
  BY DEF Wait
<1>3. children \in Seq(ChildrenOf(Text)) /\ Len(children) \in Nat
  BY DEF ShellInv, TypeOK
<1>4. /\ children' \in Seq(ChildrenOf(Text))
      /\ DOMAIN children' = DOMAIN children /\ Len(children') = Len(children)
      /\ children'[k].state = "reaped" /\ children'[k].outcome = children[k].outcome
      /\ children'[k].argv = children[k].argv
      /\ \A j \in DOMAIN children \ {k} : children'[j] = children[j]
  <2>1. children[k].outcome \in Outcomes /\ "reaped" \in States
    BY <1>3, ChildKind DEF States
  <2>2. children' = Changed(children, k, "reaped", children[k].outcome)
    BY <1>1, <1>3, <2>1, ChangedIs
  <2> QED
    BY <1>3, <2>1, <2>2, ChildChanges
<1>5. \A j \in DOMAIN children :
         /\ Ended(j) <=> Ended(j)'
         /\ Writes(j) <=> Writes(j)'
         /\ children'[j].outcome = children[j].outcome
         /\ children'[j].argv = children[j].argv
         /\ children'[j].state = "forked" <=> children[j].state = "forked"
  BY <1>1, <1>4 DEF Ended, Writes
<1>6. TypeOK'
  <2>1. waited' \in 0..forkCount'
    BY <1>2, <1>3, <1>4 DEF ShellInv, TypeOK, forkCount
  <2> QED
    BY <1>2, <1>4, <2>1 DEF ShellInv, TypeOK
<1>7. CommandInv'
  BY <1>2, <1>4, <1>5 DEF ShellInv, CommandInv, Starting, OutFile, formatChildArgV
<1>8. OutputInv'
  <2>1. Writers' = Writers /\ \A j \in Writers : LineOf(j)' = LineOf(j)
    BY <1>2, <1>4, <1>5 DEF Writers, LineOf
  <2>2. Whole(Earlier(OutFile), TextOf(OutFile)) => Whole(Earlier(OutFile), TextOf(OutFile))'
    BY <1>2, <2>1, WholeStays DEF TextOf, OutFile
  <2> QED
    BY <1>2, <1>4, <1>5, <2>2
       DEF ShellInv, OutputInv, Starting, OutFile, InFile, Overwritten, Exists
<1>9. BufferInv'
  BY <1>2 DEF ShellInv, BufferInv
<1> QED
  BY <1>6, <1>7, <1>8, <1>9

(***************************************************************************)
(* What every step of a child leaves as it should be.                      *)
(***************************************************************************)
\* The files while a child moves: only the output file changes, it is never
\* taken away, and a line is added to it only by a child that ends.
LEMMA FileWritten ==
    ASSUME TypeOK, NEW text \in Text, fs' = Printed(text),
           inputCommand.out # NULL => fs[OutFile] # NULL
    PROVE  /\ fs' \in [Files -> Seq(Text) \cup {NULL}]
           /\ \A f \in Files : fs[f] # NULL => fs'[f] # NULL
           /\ \A f \in Files : inputCommand.out = NULL \/ f # OutFile => fs'[f] = fs[f]
           /\ inputCommand.out # NULL =>
                 /\ fs[OutFile] \in Seq(Text)
                 /\ fs'[OutFile] = Append(fs[OutFile], text)
<1>1. fs \in [Files -> Seq(Text) \cup {NULL}] /\ NULL \notin Seq(Text)
  BY ShellConstants DEF TypeOK
<1>2. CASE inputCommand.out = NULL
  BY <1>1, <1>2 DEF Printed
<1>3. CASE inputCommand.out # NULL
  <2>1. OutFile \in Files
    BY <1>3, CommandFiles
  <2>2. fs[OutFile] \in Seq(Text)
    BY <1>1, <1>3, <2>1
  <2>3. Append(fs[OutFile], text) \in Seq(Text)
    BY <2>2
  <2>4. fs' = [fs EXCEPT ![OutFile] = Append(fs[OutFile], text)]
    BY <1>3 DEF Printed, OutFile
  <2> DEFINE longer == Append(fs[OutFile], text)
  <2> HIDE DEF longer
  <2>5. longer \in Seq(Text) /\ fs' = [fs EXCEPT ![OutFile] = longer]
    BY <2>3, <2>4 DEF longer
  <2>6. fs'[OutFile] = longer /\ \A f \in Files : f # OutFile => fs'[f] = fs[f]
    BY <1>1, <2>1, <2>5
  <2>7. fs' \in [Files -> Seq(Text) \cup {NULL}]
    BY <1>1, <2>1, <2>5
  <2> QED
    BY <1>1, <1>3, <2>2, <2>5, <2>6, <2>7 DEF longer
<1> QED
  BY <1>2, <1>3

\* Opening the file to append.
LEMMA FileOpened ==
    ASSUME TypeOK, inputCommand.out # NULL, fs' = Opened(inputCommand.out)
    PROVE  /\ fs' \in [Files -> Seq(Text) \cup {NULL}]
           /\ \A f \in Files : fs[f] # NULL => fs'[f] # NULL
           /\ \A f \in Files : f # OutFile => fs'[f] = fs[f]
           /\ fs'[OutFile] # NULL /\ fs'[OutFile] = TextOf(OutFile)
<1>1. fs \in [Files -> Seq(Text) \cup {NULL}] /\ << >> # NULL /\ OutFile \in Files
  BY ShellConstants, CommandFiles DEF TypeOK
<1>2. fs' = IF fs[OutFile] = NULL THEN [fs EXCEPT ![OutFile] = << >>] ELSE fs
  BY DEF Opened, OutFile
<1>3. << >> \in Seq(Text)
  OBVIOUS
<1>4. CASE fs[OutFile] = NULL
  BY <1>1, <1>2, <1>3, <1>4 DEF TextOf
<1>5. CASE fs[OutFile] # NULL
  BY <1>1, <1>2, <1>5 DEF TextOf
<1> QED
  BY <1>4, <1>5

\* What a step of a child does to its command: facts for all of them.
LEMMA ChildEffect ==
    ASSUME ShellInv, NEW k \in DOMAIN children, NEW to \in States, NEW outcome \in Outcomes,
           children[k].state \notin {"zombie", "reaped"},
           children' = Changed(children, k, to, outcome),
           to # "zombie" => outcome = children[k].outcome, to # "reaped",
           UNCHANGED shellVars,
           fs' \in [Files -> Seq(Text) \cup {NULL}],
           \A f \in Files : fs[f] # NULL => fs'[f] # NULL,
           to \in {"output", "program"} /\ inputCommand.out # NULL =>
              OutFile \notin Protected /\ fs'[OutFile] # NULL
    PROVE  /\ TypeOK' /\ CommandInv' /\ BufferInv'
           /\ pc \in {"fork", "wait"} /\ children[k].outcome = "none" /\ k \notin Writers
           /\ DOMAIN children' = DOMAIN children
           /\ children'[k].state = to /\ children'[k].outcome = outcome
           /\ \A j \in DOMAIN children \ {k} : children'[j] = children[j]
           /\ \A j \in Writers : LineOf(j)' = LineOf(j)
           /\ Writers' = IF outcome \in {"ran", "failed"} THEN Writers \cup {k} ELSE Writers
<1>1. /\ children \in Seq(ChildrenOf(Text)) /\ inputCommand \in Param
      /\ pc \in {"fork", "wait"}
  BY DEF ShellInv, TypeOK, Param, WaitingInv, NoneLeftAtPrompt
<1>2. /\ children' \in Seq(ChildrenOf(Text))
      /\ DOMAIN children' = DOMAIN children /\ Len(children') = Len(children)
      /\ children'[k].state = to /\ children'[k].outcome = outcome
      /\ children'[k].argv = children[k].argv
      /\ \A j \in DOMAIN children \ {k} : children'[j] = children[j]
  BY <1>1, ChildChanges
<1>3. UNCHANGED <<pc, command, lines, eof, inputCommand, n, waited, before>>
  BY DEF shellVars
<1>4. TypeOK'
  BY <1>2, <1>3 DEF ShellInv, TypeOK, forkCount
<1>5. /\ Len(inputCommand.argv) >= 2 /\ inputCommand.argv[2] \in DOMAIN Number
      /\ n = Number[inputCommand.argv[2]]
      /\ \A j \in DOMAIN children :
            /\ children[j].argv = formatChildArgV(inputCommand, j - 1)
            /\ ~Ended(j) => children[j].outcome = "none"
            /\ Writes(j) /\ inputCommand.out # NULL =>
                  OutFile \notin Protected /\ fs[OutFile] # NULL
  BY <1>1 DEF ShellInv, CommandInv, Starting
<1>6. children[k].outcome = "none" /\ k \notin Writers
  BY <1>5 DEF Ended, Writers
<1>7. CommandInv'
  <2> SUFFICES ASSUME NEW j \in DOMAIN children
               PROVE  /\ children'[j].argv = formatChildArgV(inputCommand, j - 1)
                      /\ ~Ended(j)' => children'[j].outcome = "none"
                      /\ Writes(j)' /\ inputCommand.out # NULL =>
                            OutFile \notin Protected /\ fs'[OutFile] # NULL
    BY <1>2, <1>3, <1>5 DEF CommandInv, OutFile, formatChildArgV
  <2>1. CASE j = k
    BY <1>2, <1>5, <1>6, <2>1 DEF Ended, Writes
  <2>2. CASE j # k
    <3>1. inputCommand.out # NULL => OutFile \in Files
      BY CommandFiles DEF ShellInv
    <3> QED
      BY <1>2, <1>5, <2>2, <3>1 DEF Ended, Writes
  <2> QED
    BY <2>1, <2>2
<1>8. BufferInv'
  BY <1>3 DEF ShellInv, BufferInv
<1>9. Writers' = IF outcome \in {"ran", "failed"} THEN Writers \cup {k} ELSE Writers
  BY <1>2, <1>6 DEF Writers
<1>10. \A j \in Writers : LineOf(j)' = LineOf(j)
  BY <1>2, <1>3, <1>6 DEF Writers, LineOf
<1> QED
  BY <1>1, <1>2, <1>4, <1>6, <1>7, <1>8, <1>9, <1>10

\* What OutputInv says of the files of a command that is carried out.
LEMMA OutputNow ==
    ASSUME ShellInv, pc \in {"fork", "wait"}, inputCommand.out # NULL
    PROVE  /\ OutFile \in Protected => \A k \in DOMAIN children : children[k].outcome # "ran"
           /\ OutFile \notin Protected /\ Overwritten =>
                 /\ fs[OutFile] = NULL
                 /\ \A k \in DOMAIN children : Ended(k) \/ children[k].state = "forked"
           /\ OutFile \notin Protected /\ ~Overwritten =>
                 /\ inputCommand.in # NULL => Exists(inputCommand.in)
                 /\ Whole(Earlier(OutFile), TextOf(OutFile))
           /\ \A k \in DOMAIN children : Writes(k) => OutFile \notin Protected /\ fs[OutFile] # NULL
BY DEF ShellInv, OutputInv, CommandInv, Starting

\* A step of a child that adds no line.
LEMMA SilentOutput ==
    ASSUME ShellInv, NEW k \in DOMAIN children, NEW to \in States,
           pc \in {"fork", "wait"}, UNCHANGED shellVars,
           \A f \in Files : fs[f] # NULL => fs'[f] # NULL,
           inputCommand.out # NULL => fs'[OutFile] = fs[OutFile]
                                      \/ (fs'[OutFile] = TextOf(OutFile) /\ ~Overwritten),
           DOMAIN children' = DOMAIN children,
           children'[k].state = to, children'[k].outcome # "ran",
           \A j \in DOMAIN children \ {k} : children'[j] = children[j],
           \A j \in Writers : LineOf(j)' = LineOf(j),
           inputCommand.out # NULL =>
              /\ OutFile \notin Protected /\ ~Overwritten => Writers' = Writers
              /\ OutFile \notin Protected /\ Overwritten => to = "zombie"
    PROVE  OutputInv'
<1>1. UNCHANGED <<pc, inputCommand, before>>
  BY DEF shellVars
<1> SUFFICES ASSUME inputCommand.out # NULL
             PROVE  /\ OutFile \in Protected =>
                          \A j \in DOMAIN children : children'[j].outcome # "ran"
                    /\ OutFile \notin Protected /\ Overwritten =>
                          /\ fs'[OutFile] = NULL
                          /\ \A j \in DOMAIN children :
                                Ended(j)' \/ children'[j].state = "forked"
                    /\ OutFile \notin Protected /\ ~Overwritten =>
                          /\ inputCommand.in # NULL => Exists(inputCommand.in)'
                          /\ Whole(Earlier(OutFile), TextOf(OutFile))'
  BY <1>1 DEF OutputInv, OutFile, InFile, Overwritten
<1>2. CASE OutFile \in Protected
  BY <1>2, OutputNow
<1>3. CASE OutFile \notin Protected /\ Overwritten
  <2>1. fs'[OutFile] = NULL
    BY <1>3, OutputNow
  <2>2. \A j \in DOMAIN children : Ended(j)' \/ children'[j].state = "forked"
    BY <1>3, OutputNow DEF Ended
  <2> QED
    BY <1>3, <2>1, <2>2
<1>4. CASE OutFile \notin Protected /\ ~Overwritten
  <2>1. /\ inputCommand.in # NULL => Exists(inputCommand.in)
        /\ Whole(Earlier(OutFile), TextOf(OutFile))
    BY <1>4, OutputNow
  <2>2. inputCommand.in # NULL => Exists(inputCommand.in)'
    BY <1>1, <2>1, CommandFiles DEF Exists, InFile, ShellInv
  <2>3. TextOf(OutFile)' = TextOf(OutFile)
    BY <1>1 DEF TextOf, OutFile
  <2>4. Whole(Earlier(OutFile), TextOf(OutFile))'
    BY <1>1, <1>4, <2>1, <2>3, WholeStays
  <2> QED
    BY <1>4, <2>2, <2>4
<1> QED
  BY <1>2, <1>3, <1>4

\* A step of a child that adds the line of its outcome.
LEMMA PrintingOutput ==
    ASSUME ShellInv, NEW k \in DOMAIN children, Writes(k),
           pc \in {"fork", "wait"}, UNCHANGED shellVars,
           NEW text \in Text,
           \A f \in Files : fs[f] # NULL => fs'[f] # NULL,
           inputCommand.out # NULL => /\ fs[OutFile] \in Seq(Text)
                                      /\ fs'[OutFile] = Append(fs[OutFile], text),
           DOMAIN children' = DOMAIN children, k \notin Writers,
           \A j \in Writers : LineOf(j)' = LineOf(j), LineOf(k)' = text,
           Writers' = Writers \cup {k}
    PROVE  OutputInv'
<1>1. UNCHANGED <<pc, inputCommand>>
  BY DEF shellVars
<1> SUFFICES ASSUME inputCommand.out # NULL
             PROVE  /\ OutFile \notin Protected /\ ~Overwritten
                    /\ inputCommand.in # NULL => Exists(inputCommand.in)'
                    /\ Whole(Earlier(OutFile), TextOf(OutFile))'
  BY <1>1 DEF OutputInv, OutFile, InFile, Overwritten
<1>2. OutFile \notin Protected /\ fs[OutFile] # NULL
  BY OutputNow
<1>3. ~Overwritten
  BY <1>2, OutputNow
<1>4. /\ inputCommand.in # NULL => Exists(inputCommand.in)
      /\ Whole(Earlier(OutFile), TextOf(OutFile))
  BY <1>2, <1>3, OutputNow
<1>5. inputCommand.in # NULL => Exists(inputCommand.in)'
  BY <1>1, <1>4, CommandFiles DEF Exists, InFile, ShellInv
<1> DEFINE old    == Earlier(OutFile)
           sofar  == fs[OutFile]
           line   == [j \in Writers |-> LineOf(j)]
           longer == [j \in Writers \cup {k} |-> LineOf(j)']
<1>6. Written(old, sofar, Writers, line) /\ sofar \in Seq(Text)
  BY <1>2, <1>4, WholeIsWritten DEF TextOf
<1>7. old \in Seq(Text) /\ Earlier(OutFile)' = old
  BY <1>1, ShellConstants DEF Earlier, ShellInv, TypeOK, shellVars, OutFile
<1>8. longer[k] = text /\ \A j \in Writers : longer[j] = line[j]
  OBVIOUS
<1>9. IsFiniteSet(Writers)
  BY WritersFinite DEF ShellInv
<1> HIDE DEF old, sofar, line, longer
<1>10. Written(old, Append(sofar, text), Writers \cup {k}, longer)
  <2>1. Written(old, Append(sofar, longer[k]), Writers \cup {k}, longer)
    <3>1. longer[k] \in Text
      BY <1>8
    <3> QED
      BY <1>6, <1>7, <1>8, <1>9, <3>1, OneMoreWritten
  <2> QED
    BY <1>8, <2>1
<1>11. TextOf(OutFile)' = Append(sofar, text)
  <2>1. fs'[OutFile] # NULL /\ OutFile' = OutFile
    BY <1>1, <1>2, CommandFiles DEF ShellInv, OutFile
  <2> QED
    BY <2>1 DEF TextOf, sofar
<1>12. Whole(Earlier(OutFile), TextOf(OutFile))'
  <2>1. \A i \in Writers \cup {k} : longer[i] = LineOf(i)'
    BY DEF longer
  <2> QED
    BY <1>7, <1>10, <1>11, <2>1, WholeNext
<1> QED
  BY <1>2, <1>3, <1>5, <1>12

(***************************************************************************)
(* The steps of a child, one by one.                                       *)
(***************************************************************************)
Kept == TypeOK' /\ CommandInv' /\ OutputInv' /\ BufferInv'

\* The two forms of a child's step.
LEMMA MovesIs ==
    ASSUME TypeOK, NEW k \in DOMAIN children, NEW from, NEW to \in States, Moves(k, from, to)
    PROVE  /\ children[k].state = from /\ UNCHANGED shellVars
           /\ children[k].outcome \in Outcomes
           /\ children' = Changed(children, k, to, children[k].outcome)
<1>1. children \in Seq(ChildrenOf(Text))
  BY DEF TypeOK
<1>2. children[k].outcome \in Outcomes
  BY <1>1, ChildKind
<1> QED
  BY <1>1, <1>2, ChangedIs DEF Moves

LEMMA EndsIs ==
    ASSUME TypeOK, NEW k \in DOMAIN children, NEW from, NEW outcome \in Outcomes,
           Ends(k, from, outcome)
    PROVE  /\ children[k].state = from /\ UNCHANGED shellVars
           /\ children' = Changed(children, k, "zombie", outcome)
<1>1. children \in Seq(ChildrenOf(Text)) /\ "zombie" \in States
  BY DEF TypeOK, States
<1> QED
  BY <1>1, ChangedIs DEF Ends

\* A child that has not ended runs while its command is carried out.
LEMMA ChildRuns ==
    ASSUME ShellInv, NEW k \in DOMAIN children, children[k].state # "reaped"
    PROVE  pc \in {"fork", "wait"}
BY DEF ShellInv, WaitingInv, NoneLeftAtPrompt

\* Steps of a child that leave the files alone.
LEMMA FilesLeftAlone ==
    ASSUME ShellInv, NEW k \in DOMAIN children, UNCHANGED fs
    PROVE  /\ fs' \in [Files -> Seq(Text) \cup {NULL}]
           /\ \A f \in Files : fs[f] # NULL => fs'[f] # NULL
           /\ inputCommand.out # NULL => fs'[OutFile] = fs[OutFile]
BY DEF ShellInv, TypeOK

LEMMA CrashShell ==
    ASSUME ShellInv, NEW k \in DOMAIN children, ChildCrashes(k)
    PROVE  Kept
<1>1. PICK from \in {"forked", "input", "output"} : Ends(k, from, "crashed")
  BY DEF ChildCrashes
<1>2. "crashed" \in Outcomes /\ "zombie" \in States
  BY DEF Outcomes, States
<1>3. /\ children[k].state \in {"forked", "input", "output"} /\ UNCHANGED shellVars
      /\ children' = Changed(children, k, "zombie", "crashed")
  BY <1>1, <1>2, EndsIs DEF ShellInv
<1>4. UNCHANGED fs
  BY DEF ChildCrashes
<1>5. /\ TypeOK' /\ CommandInv' /\ BufferInv' /\ pc \in {"fork", "wait"}
      /\ DOMAIN children' = DOMAIN children
      /\ children'[k].state = "zombie" /\ children'[k].outcome = "crashed"
      /\ \A j \in DOMAIN children \ {k} : children'[j] = children[j]
      /\ \A j \in Writers : LineOf(j)' = LineOf(j)
      /\ Writers' = Writers
  BY <1>2, <1>3, <1>4, FilesLeftAlone, ChildEffect
<1>6. OutputInv'
  BY <1>2, <1>3, <1>4, <1>5, FilesLeftAlone, SilentOutput
<1> QED
  BY <1>5, <1>6 DEF Kept

LEMMA RedirectInputShell ==
    ASSUME ShellInv, NEW k \in DOMAIN children, RedirectInput(k)
    PROVE  Kept
<1>1. /\ inputCommand.in # NULL => fs[InFile] # NULL
      /\ Moves(k, "forked", "input") /\ UNCHANGED fs
  BY DEF RedirectInput, Exists, InFile
<1>2. "input" \in States
  BY DEF States
<1>3. /\ children[k].state = "forked" /\ UNCHANGED shellVars
      /\ children[k].outcome \in Outcomes
      /\ children' = Changed(children, k, "input", children[k].outcome)
  BY <1>1, <1>2, MovesIs DEF ShellInv
<1>4. /\ TypeOK' /\ CommandInv' /\ BufferInv' /\ pc \in {"fork", "wait"}
      /\ children[k].outcome = "none"
      /\ DOMAIN children' = DOMAIN children
      /\ children'[k].state = "input" /\ children'[k].outcome = "none"
      /\ \A j \in DOMAIN children \ {k} : children'[j] = children[j]
      /\ \A j \in Writers : LineOf(j)' = LineOf(j)
      /\ Writers' = Writers
  BY <1>1, <1>2, <1>3, FilesLeftAlone, ChildEffect
<1>5. inputCommand.out # NULL => ~(OutFile \notin Protected /\ Overwritten)
  BY <1>1, <1>4, OutputNow DEF Overwritten
<1>6. OutputInv'
  BY <1>1, <1>2, <1>3, <1>4, <1>5, FilesLeftAlone, SilentOutput
<1> QED
  BY <1>4, <1>6 DEF Kept

LEMMA NoInputShell ==
    ASSUME ShellInv, NEW k \in DOMAIN children, NoInput(k)
    PROVE  Kept
<1>1. /\ inputCommand.in # NULL /\ ~Exists(inputCommand.in)
      /\ Ends(k, "forked", "failed") /\ UNCHANGED fs
  BY DEF NoInput
<1>2. "failed" \in Outcomes /\ "zombie" \in States
  BY DEF Outcomes, States
<1>3. /\ children[k].state = "forked" /\ UNCHANGED shellVars
      /\ children' = Changed(children, k, "zombie", "failed")
  BY <1>1, <1>2, EndsIs DEF ShellInv
<1>4. /\ TypeOK' /\ CommandInv' /\ BufferInv' /\ pc \in {"fork", "wait"}
      /\ DOMAIN children' = DOMAIN children
      /\ children'[k].state = "zombie" /\ children'[k].outcome = "failed"
      /\ \A j \in DOMAIN children \ {k} : children'[j] = children[j]
      /\ \A j \in Writers : LineOf(j)' = LineOf(j)
  BY <1>1, <1>2, <1>3, FilesLeftAlone, ChildEffect
<1>5. inputCommand.out # NULL => OutFile \in Protected \/ Overwritten
  BY <1>1, <1>4, OutputNow
<1>6. OutputInv'
  BY <1>1, <1>2, <1>3, <1>4, <1>5, FilesLeftAlone, SilentOutput
<1> QED
  BY <1>4, <1>6 DEF Kept

LEMMA RedirectOutputShell ==
    ASSUME ShellInv, NEW k \in DOMAIN children, RedirectOutput(k)
    PROVE  Kept
<1>1. /\ Moves(k, "input", "output")
      /\ \/ inputCommand.out = NULL /\ UNCHANGED fs
         \/ /\ inputCommand.out # NULL /\ OutFile \notin Protected
            /\ fs' = Opened(inputCommand.out)
  BY DEF RedirectOutput, OutFile
<1>2. "output" \in States
  BY DEF States
<1>3. /\ children[k].state = "input" /\ UNCHANGED shellVars
      /\ children[k].outcome \in Outcomes
      /\ children' = Changed(children, k, "output", children[k].outcome)
  BY <1>1, <1>2, MovesIs DEF ShellInv
<1>4. /\ fs' \in [Files -> Seq(Text) \cup {NULL}]
      /\ \A f \in Files : fs[f] # NULL => fs'[f] # NULL
      /\ inputCommand.out # NULL =>
            OutFile \notin Protected /\ fs'[OutFile] # NULL /\ fs'[OutFile] = TextOf(OutFile)
  <2>1. CASE inputCommand.out = NULL
    BY <1>1, <2>1, FilesLeftAlone
  <2>2. CASE inputCommand.out # NULL
    BY <1>1, <2>2, FileOpened DEF ShellInv
  <2> QED
    BY <2>1, <2>2
<1>5. /\ TypeOK' /\ CommandInv' /\ BufferInv' /\ pc \in {"fork", "wait"}
      /\ children[k].outcome = "none"
      /\ DOMAIN children' = DOMAIN children
      /\ children'[k].state = "output" /\ children'[k].outcome = "none"
      /\ \A j \in DOMAIN children \ {k} : children'[j] = children[j]
      /\ \A j \in Writers : LineOf(j)' = LineOf(j)
      /\ Writers' = Writers
  BY <1>2, <1>3, <1>4, ChildEffect
<1>6. inputCommand.out # NULL => ~Overwritten
  BY <1>3, <1>4, <1>5, OutputNow DEF Ended
<1>7. OutputInv'
  BY <1>2, <1>3, <1>4, <1>5, <1>6, SilentOutput
<1> QED
  BY <1>5, <1>7 DEF Kept

LEMMA NoOutputShell ==
    ASSUME ShellInv, NEW k \in DOMAIN children, NoOutput(k)
    PROVE  Kept
<1>1. /\ inputCommand.out # NULL /\ OutFile \in Protected
      /\ Ends(k, "input", "failed") /\ UNCHANGED fs
  BY DEF NoOutput, OutFile
<1>2. "failed" \in Outcomes /\ "zombie" \in States
  BY DEF Outcomes, States
<1>3. /\ children[k].state = "input" /\ UNCHANGED shellVars
      /\ children' = Changed(children, k, "zombie", "failed")
  BY <1>1, <1>2, EndsIs DEF ShellInv
<1>4. /\ TypeOK' /\ CommandInv' /\ BufferInv' /\ pc \in {"fork", "wait"}
      /\ DOMAIN children' = DOMAIN children
      /\ children'[k].state = "zombie" /\ children'[k].outcome = "failed"
      /\ \A j \in DOMAIN children \ {k} : children'[j] = children[j]
      /\ \A j \in Writers : LineOf(j)' = LineOf(j)
  BY <1>1, <1>2, <1>3, FilesLeftAlone, ChildEffect
<1>5. OutputInv'
  BY <1>1, <1>2, <1>3, <1>4, FilesLeftAlone, SilentOutput
<1> QED
  BY <1>4, <1>5 DEF Kept

\* A child that writes has its file open, and no other name for its input.
LEMMA WriterFiles ==
    ASSUME ShellInv, NEW k \in DOMAIN children, children[k].state \in {"output", "program"}
    PROVE  /\ pc \in {"fork", "wait"} /\ Writes(k)
           /\ inputCommand.out # NULL =>
                 OutFile \notin Protected /\ ~Overwritten /\ fs[OutFile] # NULL
<1>1. pc \in {"fork", "wait"} /\ Writes(k)
  BY ChildRuns DEF Writes
<1> QED
  BY <1>1, OutputNow

LEMMA ExecuteShell ==
    ASSUME ShellInv, NEW k \in DOMAIN children, Execute(k)
    PROVE  Kept
<1>1. Moves(k, "output", "program") /\ UNCHANGED fs
  BY DEF Execute
<1>2. "program" \in States
  BY DEF States
<1>3. /\ children[k].state = "output" /\ UNCHANGED shellVars
      /\ children[k].outcome \in Outcomes
      /\ children' = Changed(children, k, "program", children[k].outcome)
  BY <1>1, <1>2, MovesIs DEF ShellInv
<1>4. inputCommand.out # NULL =>
         OutFile \notin Protected /\ ~Overwritten /\ fs[OutFile] # NULL
  BY <1>3, WriterFiles
<1>5. /\ TypeOK' /\ CommandInv' /\ BufferInv' /\ pc \in {"fork", "wait"}
      /\ children[k].outcome = "none"
      /\ DOMAIN children' = DOMAIN children
      /\ children'[k].state = "program" /\ children'[k].outcome = "none"
      /\ \A j \in DOMAIN children \ {k} : children'[j] = children[j]
      /\ \A j \in Writers : LineOf(j)' = LineOf(j)
      /\ Writers' = Writers
  BY <1>1, <1>2, <1>3, <1>4, FilesLeftAlone, ChildEffect
<1>6. OutputInv'
  BY <1>1, <1>2, <1>3, <1>4, <1>5, FilesLeftAlone, SilentOutput
<1> QED
  BY <1>5, <1>6 DEF Kept

\* A step in which a child writes its line and ends.
LEMMA WritingShell ==
    ASSUME ShellInv, NEW k \in DOMAIN children, NEW from \in {"output", "program"},
           NEW outcome \in {"ran", "failed"}, Ends(k, from, outcome),
           NEW text \in Text, fs' = Printed(text),
           outcome = "ran" => text = formatChildArgV(inputCommand, k - 1),
           outcome = "failed" => text = ExecFailed
    PROVE  Kept
<1>1. outcome \in Outcomes /\ "zombie" \in States
  BY DEF Outcomes, States
<1>2. /\ children[k].state = from /\ UNCHANGED shellVars
      /\ children' = Changed(children, k, "zombie", outcome)
  BY <1>1, EndsIs DEF ShellInv
<1>3. /\ Writes(k)
      /\ inputCommand.out # NULL => fs[OutFile] # NULL
  BY <1>2, WriterFiles
<1>4. /\ fs' \in [Files -> Seq(Text) \cup {NULL}]
      /\ \A f \in Files : fs[f] # NULL => fs'[f] # NULL
      /\ inputCommand.out # NULL => /\ fs[OutFile] \in Seq(Text)
                                    /\ fs'[OutFile] = Append(fs[OutFile], text)
  BY <1>3, FileWritten DEF ShellInv
<1>5. /\ TypeOK' /\ CommandInv' /\ BufferInv' /\ pc \in {"fork", "wait"} /\ k \notin Writers
      /\ DOMAIN children' = DOMAIN children
      /\ children'[k].outcome = outcome
      /\ \A j \in Writers : LineOf(j)' = LineOf(j)
      /\ Writers' = Writers \cup {k}
  BY <1>1, <1>2, <1>4, ChildEffect
<1>6. LineOf(k)' = text
  <2>1. inputCommand' = inputCommand
    BY <1>2 DEF shellVars
  <2> QED
    BY <1>5, <2>1 DEF LineOf, formatChildArgV
<1>7. OutputInv'
  BY <1>2, <1>3, <1>4, <1>5, <1>6, PrintingOutput
<1> QED
  BY <1>5, <1>7 DEF Kept

LEMMA ExecuteFailsShell ==
    ASSUME ShellInv, NEW k \in DOMAIN children, ExecuteFails(k)
    PROVE  Kept
<1>1. Ends(k, "output", "failed") /\ fs' = Printed(ExecFailed)
  BY DEF ExecuteFails
<1>2. ExecFailed \in Text
  BY ShellConstants
<1> QED
  BY <1>1, <1>2, WritingShell

LEMMA RunProgramShell ==
    ASSUME ShellInv, NEW k \in DOMAIN children, RunProgram(k)
    PROVE  Kept
<1>1. Ends(k, "program", "ran") /\ fs' = Printed(children[k].argv)
  BY DEF RunProgram
<1>2. children[k].argv \in Text
  BY ChildKind DEF ShellInv, TypeOK
<1>3. children[k].argv = formatChildArgV(inputCommand, k - 1)
  <2>1. children[k].state = "program"
    BY <1>1 DEF Ends
  <2>2. pc \in {"fork", "wait"}
    BY <2>1, WriterFiles
  <2> QED
    BY <2>2 DEF ShellInv, CommandInv, Starting
<1> QED
  BY <1>1, <1>2, <1>3, WritingShell

LEMMA StepShell == ShellInv /\ [Next]_vars => ShellInv'
<1> SUFFICES ASSUME ShellInv, [Next]_vars PROVE Kept
  BY StepWaiting DEF ShellInv, Kept
<1>1. CASE ReadCommand \/ ReadExit \/ ReadAtEnd
  BY <1>1, ReadingShell DEF Kept
<1>2. CASE RejectCommand \/ ForkEnds \/ WaitReturns
  BY <1>2, QuietShell DEF Kept
<1>3. CASE AcceptCommand
  BY <1>3, AcceptShell DEF Kept
<1>4. CASE Fork
  BY <1>4, ForkShell DEF Kept
<1>5. CASE Wait
  BY <1>5, WaitShell DEF Kept
<1>6. CASE \E k \in DOMAIN children : ChildStep(k)
  <2>1. PICK k \in DOMAIN children : ChildStep(k)
    BY <1>6
  <2> QED
    BY <2>1, CrashShell, RedirectInputShell, NoInputShell, RedirectOutputShell,
       NoOutputShell, ExecuteShell, ExecuteFailsShell, RunProgramShell DEF ChildStep
<1>7. CASE UNCHANGED vars
  <2>1. UNCHANGED <<pc, command, lines, eof, inputCommand, n, children, waited, fs, before>>
    BY <1>7 DEF vars
  <2>2. TypeOK'
    BY <2>1 DEF ShellInv, TypeOK, forkCount
  <2>3. CommandInv'
    BY <2>1 DEF ShellInv, CommandInv, Starting, Ended, Writes, OutFile, formatChildArgV
  <2>4. OutputInv'
    BY <2>1, SameOutput DEF ShellInv, OutputInv, Starting
  <2>5. BufferInv'
    BY <2>1 DEF ShellInv, BufferInv
  <2> QED
    BY <2>2, <2>3, <2>4, <2>5 DEF Kept
<1> QED
  BY <1>1, <1>2, <1>3, <1>4, <1>5, <1>6, <1>7 DEF Next, main

\* The variables keep their types: in particular no more children are waited
\* for than were forked.  If no line that is typed has more than MAXARGS
\* arguments, which the assumption says and the code does not look at, the
\* argument vector never holds more (parse.h:16-31, parse.c:53-74,
\* myshell.c:233-244).
THEOREM ShellTypes == Spec => []TypeOK
<1>1. ShellInv => TypeOK
  BY DEF ShellInv
<1> QED
  BY <1>1, InitShell, StepShell, PTL DEF Spec

\* The shell whose input has ended reads its old command for ever, cut to one
\* word, and starts nothing (myshell.c:106-125, parse.c:54).
THEOREM NothingAfterTheEnd == Spec => []EndOfInputStartsNothing
<1>1. ShellInv => EndOfInputStartsNothing
  BY DEF ShellInv, BufferInv, EndOfInputStartsNothing
<1> QED
  BY <1>1, InitShell, StepShell, PTL DEF Spec

\* Whatever fails or crashes and in whatever order the children write: when
\* the prompt comes back an output file that can be written holds one line of
\* every child that did not crash; of what it held before it holds nothing, or
\* all of it if remove failed.  The case of an output that is the input too is
\* OutputIsWhole's (myshell.c:56-58, 172-190, 213-216, 246-262).
THEOREM OutputArrives == Spec => OutputIsWhole
<1> DEFINE Promised ==
        pc = "wait" /\ pc' = "prompt" /\ inputCommand.out # NULL =>
            LET f == FileOf[inputCommand.out]
            IN  IF f \in Protected
                THEN \A k \in DOMAIN children : children[k].outcome # "ran"
                ELSE IF /\ inputCommand.in # NULL /\ FileOf[inputCommand.in] = f
                        /\ f \notin Undeletable
                     THEN fs[f] = NULL
                     ELSE Whole(Earlier(f), TextOf(f))
<1>1. ShellInv /\ [Next]_vars => [Promised]_vars
  <2> SUFFICES ASSUME ShellInv, pc = "wait", inputCommand.out # NULL
               PROVE  IF OutFile \in Protected
                      THEN \A k \in DOMAIN children : children[k].outcome # "ran"
                      ELSE IF Overwritten THEN fs[OutFile] = NULL
                           ELSE Whole(Earlier(OutFile), TextOf(OutFile))
    BY DEF OutFile, InFile, Overwritten
  <2> QED
    BY OutputNow
<1> QED
  BY <1>1, InitShell, StepShell, PTL DEF Spec, OutputIsWhole

==============================================================================
