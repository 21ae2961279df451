------------------------------- MODULE Lizards -------------------------------
(***************************************************************************)
(* lizards.c of SysNet1/Project3: lizard threads cross a driveway, cat     *)
(* threads look at it now and then, and main creates, stops and joins them *)
(* all.  The semaphore driveway admits MAX_LIZARD_CROSSING lizards; the    *)
(* mutex liz_lock guards the two counters of crossing lizards, and is also *)
(* what main uses to hold back the creation of the next lizard until the   *)
(* last one has read its number; cat_lock does that for the cats.          *)
(*                                                                         *)
(* Thread t is at pc[t], the step it takes next.  An increment is a load   *)
(* and a store, so a missing lock would lose one.                          *)
(***************************************************************************)
EXTENDS Integers, FiniteSets

CONSTANTS
    NUM_LIZARDS, NUM_CATS, MAX_LIZARD_CROSSING,
    UNIDIRECTIONAL      \* check for lizards travelling in both directions?

ASSUME LizardsAssumption ==
    /\ NUM_LIZARDS \in Nat /\ NUM_CATS \in Nat
    /\ MAX_LIZARD_CROSSING \in Nat
    /\ UNIDIRECTIONAL \in BOOLEAN

LizardIds == 0 .. (NUM_LIZARDS - 1)       \* indices of lizard[]
CatIds    == 0 .. (NUM_CATS - 1)          \* indices of cat[]

S2M == "sago -> monkey grass"
M2S == "monkey grass -> sago"

VARIABLES
    mainPc, i, j,       \* main and its loop counters
    running,            \* cleared at the end of the world
    exited,             \* exit(-1) was called: the process is gone
    liz_lock, cat_lock, \* is the mutex locked?
    driveway,           \* value of the semaphore
    crossing,           \* numCrossingSago2MonkeyGrass, ...MonkeyGrass2Sago
    pc,                 \* of each lizard
    side,               \* the direction a lizard goes in next
    reg,                \* what a lizard loaded from the counter
    num,                \* the number a lizard goes by, -1 before it has one
    catPc, catNum

mainVars   == <<mainPc, i, j, running>>
shared     == <<liz_lock, cat_lock, driveway, crossing, exited>>
lizardVars == <<pc, side, reg, num>>
catVars    == <<catPc, catNum>>
vars       == <<mainVars, shared, lizardVars, catVars>>

LizardPcs == {"unborn", "born", "loop", "sleep", "wait",
              "lockInc", "loadInc", "storeInc", "lockCheck", "check",
              "lockDec", "loadDec", "storeDec", "post", "eat", "done"}
CatPcs    == {"unborn", "born", "loop", "sleep", "lock", "check", "done"}
MainPcs   == {"lockLizard", "createLizard", "lockCat", "createCat", "sleep",
              "joinLizard", "joinCat", "done"}

TypeOK ==
    /\ mainPc \in MainPcs
    /\ i \in 0..NUM_LIZARDS /\ j \in 0..NUM_CATS
    /\ running \in BOOLEAN /\ exited \in BOOLEAN
    /\ liz_lock \in BOOLEAN /\ cat_lock \in BOOLEAN
    /\ driveway \in 0..MAX_LIZARD_CROSSING
    /\ crossing \in [{S2M, M2S} -> Int]
    /\ pc \in [LizardIds -> LizardPcs]
    /\ side \in [LizardIds -> {S2M, M2S}]
    /\ reg \in [LizardIds -> Int]
    /\ num \in [LizardIds -> -1 .. NUM_LIZARDS]
    /\ catPc \in [CatIds -> CatPcs]
    /\ catNum \in [CatIds -> -1 .. NUM_CATS]

Init ==
    /\ mainPc = "lockLizard" /\ i = 0 /\ j = 0
    /\ running = TRUE /\ exited = FALSE
    /\ liz_lock = FALSE /\ cat_lock = FALSE
    /\ driveway = MAX_LIZARD_CROSSING
    /\ crossing = [d \in {S2M, M2S} |-> 0]
    /\ pc = [l \in LizardIds |-> "unborn"]
    /\ side = [l \in LizardIds |-> S2M]
    /\ reg = [l \in LizardIds |-> 0]
    /\ num = [l \in LizardIds |-> -1]
    /\ catPc = [c \in CatIds |-> "unborn"]
    /\ catNum = [c \in CatIds |-> -1]

-----------------------------------------------------------------------------
(* main *)

\* The head of a creation loop: lock, or go on when all are created.
LockLizard ==
    /\ mainPc = "lockLizard" /\ i < NUM_LIZARDS
    /\ ~liz_lock
    /\ liz_lock' = TRUE
    /\ mainPc' = "createLizard"
    /\ UNCHANGED <<i, j, running, cat_lock, driveway, crossing, exited,
                   lizardVars, catVars>>

LizardsCreated ==
    /\ mainPc = "lockLizard" /\ i = NUM_LIZARDS
    /\ mainPc' = "lockCat"
    /\ UNCHANGED <<i, j, running, shared, lizardVars, catVars>>

\* pthread_create starts a thread with the address of i, which is still i in
\* this step and one more after it (IncrementI).
CreateLizard ==
    /\ mainPc = "createLizard" /\ pc[i] = "unborn"
    /\ pc' = [pc EXCEPT ![i] = "born"]
    /\ UNCHANGED <<mainVars, shared, side, reg, num, catVars>>

\* The i++ of the for statement, which nothing orders after the new thread's
\* read of i.
IncrementI ==
    /\ mainPc = "createLizard" /\ pc[i] # "unborn"
    /\ i' = i + 1
    /\ mainPc' = "lockLizard"
    /\ UNCHANGED <<j, running, shared, lizardVars, catVars>>

LockCat ==
    /\ mainPc = "lockCat" /\ j < NUM_CATS
    /\ ~cat_lock
    /\ cat_lock' = TRUE
    /\ mainPc' = "createCat"
    /\ UNCHANGED <<i, j, running, liz_lock, driveway, crossing, exited,
                   lizardVars, catVars>>

CatsCreated ==
    /\ mainPc = "lockCat" /\ j = NUM_CATS
    /\ mainPc' = "sleep"
    /\ UNCHANGED <<i, j, running, shared, lizardVars, catVars>>

CreateCat ==
    /\ mainPc = "createCat" /\ catPc[j] = "unborn"
    /\ catPc' = [catPc EXCEPT ![j] = "born"]
    /\ UNCHANGED <<mainVars, shared, lizardVars, catNum>>

IncrementJ ==
    /\ mainPc = "createCat" /\ catPc[j] # "unborn"
    /\ j' = j + 1
    /\ mainPc' = "lockCat"
    /\ UNCHANGED <<i, running, shared, lizardVars, catVars>>

\* sleep(WORLDEND), running = 0 and the i = 0 of the first join loop.  The
\* sleep lasts 30 seconds, far longer than a new thread takes to read its
\* number.
EndOfWorld ==
    /\ mainPc = "sleep"
    /\ \A l \in LizardIds : pc[l] # "born"
    /\ \A c \in CatIds : catPc[c] # "born"
    /\ running' = FALSE
    /\ i' = 0
    /\ mainPc' = "joinLizard"
    /\ UNCHANGED <<j, shared, lizardVars, catVars>>

JoinLizard ==
    /\ mainPc = "joinLizard"
    /\ IF i < NUM_LIZARDS
       THEN /\ pc[i] = "done"
            /\ i' = i + 1
            /\ UNCHANGED <<mainPc, j>>
       ELSE mainPc' = "joinCat" /\ j' = 0 /\ UNCHANGED i
    /\ UNCHANGED <<running, shared, lizardVars, catVars>>

JoinCat ==
    /\ mainPc = "joinCat"
    /\ IF j < NUM_CATS
       THEN catPc[j] = "done" /\ j' = j + 1 /\ UNCHANGED mainPc
       ELSE mainPc' = "done" /\ UNCHANGED j
    /\ UNCHANGED <<i, running, shared, lizardVars, catVars>>

MainNext ==
    \/ LockLizard \/ LizardsCreated \/ CreateLizard \/ IncrementI
    \/ LockCat \/ CatsCreated \/ CreateCat \/ IncrementJ
    \/ EndOfWorld \/ JoinLizard \/ JoinCat

-----------------------------------------------------------------------------
(* lizardThread *)

Goto(l, from, to) == pc[l] = from /\ pc' = [pc EXCEPT ![l] = to]

\* int num = *(int*)param is what main's i holds now; the unlock lets main
\* create the next lizard.
Alive(l) ==
    /\ Goto(l, "born", "loop")
    /\ num' = [num EXCEPT ![l] = i]
    /\ liz_lock' = FALSE
    /\ UNCHANGED <<mainVars, cat_lock, driveway, crossing, exited,
                   side, reg, catVars>>

\* while(running)
Loop(l) ==
    /\ Goto(l, "loop", IF running THEN "sleep" ELSE "done")
    /\ UNCHANGED <<mainVars, shared, side, reg, num, catVars>>

lizard_sleep(l) ==
    /\ Goto(l, "sleep", "wait")
    /\ side' = [side EXCEPT ![l] = S2M]
    /\ UNCHANGED <<mainVars, shared, reg, num, catVars>>

\* A mutant: sem_trywait, its result not looked at.
is_safeTryWait(l) ==
    /\ Goto(l, "wait", "lockInc")
    /\ driveway' = IF driveway > 0 THEN driveway - 1 ELSE 0
    /\ UNCHANGED <<mainVars, liz_lock, cat_lock, crossing, exited,
                   side, reg, num, catVars>>

\* A mutant: no sem_wait on the way back.
is_safeOneWay(l) ==
    /\ Goto(l, "wait", "lockInc")
    /\ IF side[l] = S2M THEN driveway > 0 /\ driveway' = driveway - 1
                        ELSE UNCHANGED driveway
    /\ UNCHANGED <<mainVars, liz_lock, cat_lock, crossing, exited,
                   side, reg, num, catVars>>

\* sem_wait of sago_2_monkeyGrass_is_safe and monkeyGrass_2_sago_is_safe.
is_safe(l) ==
    /\ Goto(l, "wait", "lockInc")
    /\ driveway > 0
    /\ driveway' = driveway - 1
    /\ UNCHANGED <<mainVars, liz_lock, cat_lock, crossing, exited,
                   side, reg, num, catVars>>

\* A mutant: no lock.
LockNothing(l, from, to) ==
    /\ Goto(l, from, to)
    /\ UNCHANGED <<mainVars, shared, side, reg, num, catVars>>

\* cross_...: pthread_mutex_lock, the same at three places.
Lock(l, from, to) ==
    /\ Goto(l, from, to)
    /\ ~liz_lock
    /\ liz_lock' = TRUE
    /\ UNCHANGED <<mainVars, cat_lock, driveway, crossing, exited,
                   side, reg, num, catVars>>

Load(l, from, to) ==
    /\ Goto(l, from, to)
    /\ reg' = [reg EXCEPT ![l] = crossing[side[l]]]
    /\ UNCHANGED <<mainVars, shared, side, num, catVars>>

\* A mutant: the way back decrements the counter of the way there.
StoreOneCounter(l, from, to, by) ==
    /\ Goto(l, from, to)
    /\ crossing' = [crossing EXCEPT ![IF by = 1 THEN side[l] ELSE S2M] =
                        reg[l] + by]
    /\ liz_lock' = FALSE
    /\ UNCHANGED <<mainVars, cat_lock, driveway, exited, side, reg, num,
                   catVars>>

\* The counter is written back and liz_lock unlocked.
Store(l, from, to, by) ==
    /\ Goto(l, from, to)
    /\ crossing' = [crossing EXCEPT ![side[l]] = reg[l] + by]
    /\ liz_lock' = FALSE
    /\ UNCHANGED <<mainVars, cat_lock, driveway, exited, side, reg, num,
                   catVars>>

Other(d) == IF d = S2M THEN M2S ELSE S2M

\* A mutant of CheckPasses: one lizard coming the other way is overlooked.
CheckPassesOne(l) ==
    /\ Goto(l, "check", "lockDec")
    /\ ~(crossing[Other(side[l])] > 1 /\ UNIDIRECTIONAL)
    /\ liz_lock' = FALSE
    /\ UNCHANGED <<mainVars, cat_lock, driveway, crossing, exited,
                   side, reg, num, catVars>>

\* The second critical section: a lizard coming the other way is a crash, if
\* the world is unidirectional, and the program exits with liz_lock locked.
\* Otherwise the lizard sleeps CROSS_SECONDS before it wants the lock again.
CheckPasses(l) ==
    /\ Goto(l, "check", "lockDec")
    /\ ~(crossing[Other(side[l])] # 0 /\ UNIDIRECTIONAL)
    /\ liz_lock' = FALSE
    /\ UNCHANGED <<mainVars, cat_lock, driveway, crossing, exited,
                   side, reg, num, catVars>>

PileUp(l) ==
    /\ pc[l] = "check"
    /\ crossing[Other(side[l])] # 0 /\ UNIDIRECTIONAL
    /\ exited' = TRUE
    /\ UNCHANGED <<mainVars, liz_lock, cat_lock, driveway, crossing,
                   lizardVars, catVars>>

\* A mutant: made_it_2_sago does not post.
made_itOneWay(l) ==
    /\ Goto(l, "post", IF side[l] = S2M THEN "eat" ELSE "loop")
    /\ driveway' = driveway + (IF side[l] = S2M THEN 1 ELSE 0)
    /\ UNCHANGED <<mainVars, liz_lock, cat_lock, crossing, exited,
                   side, reg, num, catVars>>

\* sem_post of made_it_2_monkeyGrass, then eat; of made_it_2_sago, then loop.
made_it(l) ==
    /\ Goto(l, "post", IF side[l] = S2M THEN "eat" ELSE "loop")
    /\ driveway' = driveway + 1
    /\ UNCHANGED <<mainVars, liz_lock, cat_lock, crossing, exited,
                   side, reg, num, catVars>>

lizard_eat(l) ==
    /\ Goto(l, "eat", "wait")
    /\ side' = [side EXCEPT ![l] = M2S]
    /\ UNCHANGED <<mainVars, shared, reg, num, catVars>>

TakeLizLock(l) ==
    \/ Lock(l, "lockInc", "loadInc")
    \/ Lock(l, "lockCheck", "check")
    \/ Lock(l, "lockDec", "loadDec")

UnderLizLock(l) ==
    \/ Load(l, "loadInc", "storeInc") \/ Store(l, "storeInc", "lockCheck", 1)
    \/ CheckPasses(l) \/ PileUp(l)
    \/ Load(l, "loadDec", "storeDec") \/ Store(l, "storeDec", "post", -1)

LizardNext(l) ==
    \/ Alive(l) \/ Loop(l) \/ lizard_sleep(l) \/ is_safe(l)
    \/ TakeLizLock(l) \/ UnderLizLock(l)
    \/ made_it(l) \/ lizard_eat(l)

-----------------------------------------------------------------------------
(* catThread *)

CatGoto(c, from, to) == catPc[c] = from /\ catPc' = [catPc EXCEPT ![c] = to]

CatAlive(c) ==
    /\ CatGoto(c, "born", "loop")
    /\ catNum' = [catNum EXCEPT ![c] = j]
    /\ cat_lock' = FALSE
    /\ UNCHANGED <<mainVars, liz_lock, driveway, crossing, exited,
                   lizardVars>>

CatLoop(c) ==
    /\ CatGoto(c, "loop", IF running THEN "sleep" ELSE "done")
    /\ UNCHANGED <<mainVars, shared, lizardVars, catNum>>

cat_sleep(c) ==
    /\ CatGoto(c, "sleep", "lock")
    /\ UNCHANGED <<mainVars, shared, lizardVars, catNum>>

CatLock(c) ==
    /\ CatGoto(c, "lock", "check")
    /\ ~liz_lock
    /\ liz_lock' = TRUE
    /\ UNCHANGED <<mainVars, cat_lock, driveway, crossing, exited,
                   lizardVars, catNum>>

TooMany == crossing[S2M] + crossing[M2S] > MAX_LIZARD_CROSSING

\* A mutant: the cat goes back to sleep with liz_lock locked.
CatCheckKeepsLock(c) ==
    /\ IF TooMany
       THEN catPc[c] = "check" /\ exited' = TRUE /\ UNCHANGED catPc
       ELSE CatGoto(c, "check", "loop") /\ UNCHANGED exited
    /\ UNCHANGED <<mainVars, liz_lock, cat_lock, driveway, crossing,
                   lizardVars, catNum>>

\* "The cats are happy - they have toys": exit(-1) with liz_lock locked.
CatCheck(c) ==
    /\ catPc[c] = "check"
    /\ IF TooMany
       THEN exited' = TRUE /\ UNCHANGED <<catPc, liz_lock>>
       ELSE CatGoto(c, "check", "loop") /\ liz_lock' = FALSE /\ UNCHANGED exited
    /\ UNCHANGED <<mainVars, cat_lock, driveway, crossing, lizardVars, catNum>>

CatNext(c) ==
    \/ CatAlive(c) \/ CatLoop(c) \/ cat_sleep(c)
    \/ CatLock(c) \/ CatCheck(c)

-----------------------------------------------------------------------------

Next ==
    /\ ~exited
    /\ \/ MainNext
       \/ \E l \in LizardIds : LizardNext(l)
       \/ \E c \in CatIds : CatNext(c)

Spec == Init /\ [][Next]_vars

(***************************************************************************)
(* Fairness.  Every thread that can go on does.  Whoever waits for         *)
(* liz_lock or the semaphore gets it if it is free again and again: the    *)
(* critical sections take microseconds, and between two of them a thread   *)
(* sleeps for seconds.                                                     *)
(***************************************************************************)
Fairness ==
    /\ WF_vars(~exited /\ MainNext)
    /\ SF_vars(~exited /\ LockLizard)
    /\ \A l \in LizardIds :
          /\ WF_vars(~exited /\ LizardNext(l))
          /\ SF_vars(~exited /\ TakeLizLock(l))
          /\ SF_vars(~exited /\ is_safe(l))
    /\ \A c \in CatIds :
          /\ WF_vars(~exited /\ CatNext(c))
          /\ SF_vars(~exited /\ CatLock(c))

FairSpec == Spec /\ Fairness

(***************************************************************************)
(* Properties.                                                             *)
(***************************************************************************)

\* A lizard holds a slot of the driveway from its sem_wait to its sem_post.
HoldsSlot(l) ==
    pc[l] \in {"lockInc", "loadInc", "storeInc", "lockCheck", "check",
               "lockDec", "loadDec", "storeDec", "post"}

\* A lizard is counted from the store of its increment to that of its
\* decrement.
Counted(l) ==
    pc[l] \in {"lockCheck", "check", "lockDec", "loadDec", "storeDec"}

SlotHolders     == {l \in LizardIds : HoldsSlot(l)}
CountedTowards(d) == {l \in LizardIds : Counted(l) /\ side[l] = d}

\* Both counters are exact at every moment: no increment or decrement of two
\* lizards is lost, whichever way they cross (lizards.c:475-483, 513-515).
CountersExact ==
    \A d \in {S2M, M2S} : crossing[d] = Cardinality(CountedTowards(d))

\* The cats never find more lizards than they may: no cat ends the program
\* (lizards.c:351-355).
CatsFindNoToys == ~TooMany

\* The program ends early only in a unidirectional world, and then a lizard
\* really meets another that comes the other way (lizards.c:492-498, 647-653).
ExitsOnlyByPileUp ==
    exited => UNIDIRECTIONAL /\ CountedTowards(S2M) # {} /\ CountedTowards(M2S) # {}

\* A lizard crosses on once it has looked for lizards coming the other way.
CrossesOn(l) == pc[l] \in {"lockDec", "loadDec", "storeDec"}

\* No meeting is missed between the two critical sections: in a unidirectional
\* world no two lizards cross on in opposite directions, whichever of them was
\* counted first and whichever looked first (lizards.c:475-501, 631-656).
NoPileUpMissed ==
    UNIDIRECTIONAL =>
        \A l, m \in LizardIds : CrossesOn(l) /\ CrossesOn(m) => side[l] = side[m]

\* When main is through, every lizard is off the driveway and every slot of
\* the semaphore is back.
EndsBalanced ==
    mainPc = "done" =>
        /\ driveway = MAX_LIZARD_CROSSING
        /\ \A d \in {S2M, M2S} : crossing[d] = 0
        /\ ~liz_lock /\ ~cat_lock

\* "Note that the mutex lock slows down the rate at which threads are created,
\* but prevents naming contention" (lizards.c:196-198): no two lizards go by
\* the same number, and each by one in range.
NoNamingContention ==
    /\ \A l, m \in LizardIds : l # m /\ num[l] # -1 => num[l] # num[m]
    /\ \A l \in LizardIds : num[l] < NUM_LIZARDS

\* The driveway of the assignment, which the threads implement.
Drive == INSTANCE Driveway WITH
    Lizards <- LizardIds, onDriveway <- SlotHolders

ImplementsDriveway == Drive!Spec

\* main joins every thread: no lizard or cat is left waiting for a lock or a
\* slot that never comes (unless the program exited).
MainReturns == <>(mainPc = "done" \/ exited)

\* A lizard that wants to cross gets across, however the others crowd.
WaitingLizardCrosses ==
    \A l \in LizardIds : pc[l] = "wait" ~> (pc[l] = "post" \/ exited)

=============================================================================
