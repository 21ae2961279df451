---------------------------- MODULE LizardsProofs ----------------------------
(***************************************************************************)
(* Safety of lizards.c for every number of lizards, cats and slots: the    *)
(* inductive invariant of LizardsInvariant, that the cats never find too   *)
(* many lizards, and that the threads implement Driveway.                  *)
(***************************************************************************)
EXTENDS LizardsInvariant, FiniteSetTheorems, TLAPS

LEMMA Sets ==
    /\ IsFiniteSet(LizardIds)
    /\ \A S \in SUBSET LizardIds : IsFiniteSet(S) /\ Cardinality(S) \in Nat
    /\ \A l \in LizardIds : l \in 0..NUM_LIZARDS
    /\ \A c \in CatIds : c \in 0..NUM_CATS
<1>1. IsFiniteSet(LizardIds)
  BY FS_Interval, LizardsAssumption DEF LizardIds, LizardsAssumption
<1>2. \A S \in SUBSET LizardIds : IsFiniteSet(S) /\ Cardinality(S) \in Nat
  BY <1>1, FS_Subset, FS_CardinalityType
<1>3. /\ \A l \in LizardIds : l \in 0..NUM_LIZARDS
      /\ \A c \in CatIds : c \in 0..NUM_CATS
  BY LizardsAssumption DEF LizardsAssumption, LizardIds, CatIds
<1> QED
  BY <1>1, <1>2, <1>3

LEMMA SetTypes ==
    /\ SlotHolders \in SUBSET LizardIds
    /\ \A d \in {S2M, M2S} : CountedTowards(d) \in SUBSET LizardIds
BY DEF SlotHolders, CountedTowards

LEMMA InitImplies ==
    Init => InductiveInv
<1> SUFFICES ASSUME Init PROVE InductiveInv
  OBVIOUS
<1>1. TypeOK
  <2>1. /\ 0 \in 0..NUM_LIZARDS /\ 0 \in 0..NUM_CATS
        /\ -1 \in -1 .. NUM_LIZARDS /\ -1 \in -1 .. NUM_CATS
        /\ MAX_LIZARD_CROSSING \in 0..MAX_LIZARD_CROSSING
    BY LizardsAssumption DEF LizardsAssumption
  <2>2. /\ pc \in [LizardIds -> LizardPcs]
        /\ side \in [LizardIds -> {S2M, M2S}]
        /\ reg \in [LizardIds -> Int]
        /\ num \in [LizardIds -> -1 .. NUM_LIZARDS]
        /\ crossing \in [{S2M, M2S} -> Int]
    BY <2>1 DEF Init, LizardPcs
  <2>3. catPc \in [CatIds -> CatPcs] /\ catNum \in [CatIds -> -1 .. NUM_CATS]
    BY <2>1 DEF Init, CatPcs
  <2>4. /\ mainPc \in MainPcs /\ i \in 0..NUM_LIZARDS /\ j \in 0..NUM_CATS
        /\ running \in BOOLEAN /\ exited \in BOOLEAN
        /\ liz_lock \in BOOLEAN /\ cat_lock \in BOOLEAN
        /\ driveway \in 0..MAX_LIZARD_CROSSING
    BY <2>1 DEF Init, MainPcs
  <2> QED
    BY <2>2, <2>3, <2>4 DEF TypeOK
<1>2. /\ MainInRange /\ OneHolder /\ LoadedIsCurrent
      /\ ExitsOnlyByPileUp /\ NoPileUpMissed
  BY DEF Init, MainInRange, OneHolder, LoadedIsCurrent, ExitsOnlyByPileUp,
         NoPileUpMissed, CrossesOn, MainHolds, LizardHolds, CatHolds
<1>3. SlotHolders = {} /\ \A d \in {S2M, M2S} : CountedTowards(d) = {}
  BY DEF Init, SlotHolders, HoldsSlot, CountedTowards, Counted
<1>4. CountersExact
  BY <1>3, FS_EmptySet DEF Init, CountersExact
<1>5. SlotsExact
  BY <1>3, FS_EmptySet, LizardsAssumption
     DEF Init, SlotsExact, LizardsAssumption
<1> QED
  BY <1>1, <1>2, <1>4, <1>5 DEF InductiveInv

(***************************************************************************)
(* Types.                                                                  *)
(***************************************************************************)

LEMMA MainTypes ==
    ASSUME InductiveInv, MainNext
    PROVE  TypeOK' /\ MainInRange'
<1> USE LizardsAssumption
    DEF LizardsAssumption, InductiveInv, TypeOK, MainInRange, MainPcs,
        mainVars, shared, lizardVars, catVars
<1>1. CASE LockLizard
  BY <1>1 DEF LockLizard
<1>2. CASE LizardsCreated
  BY <1>2 DEF LizardsCreated
<1>3. CASE CreateLizard
  BY <1>3 DEF CreateLizard, LizardPcs
<1>4. CASE IncrementI
  BY <1>4 DEF IncrementI
<1>5. CASE LockCat
  BY <1>5 DEF LockCat
<1>6. CASE CatsCreated
  BY <1>6 DEF CatsCreated
<1>7. CASE CreateCat
  BY <1>7 DEF CreateCat, CatPcs
<1>8. CASE IncrementJ
  BY <1>8 DEF IncrementJ
<1>9. CASE EndOfWorld
  <2>1. 0 \in 0..NUM_LIZARDS
    OBVIOUS
  <2>2. /\ mainPc' = "joinLizard" /\ i' = 0 /\ j' = j /\ running' = FALSE
        /\ UNCHANGED <<shared, lizardVars, catVars>>
    BY <1>9 DEF EndOfWorld
  <2> QED
    BY <2>1, <2>2
<1>10. CASE JoinLizard
  BY <1>10 DEF JoinLizard
<1>11. CASE JoinCat
  BY <1>11 DEF JoinCat
<1> QED
  BY <1>1, <1>2, <1>3, <1>4, <1>5, <1>6, <1>7, <1>8, <1>9, <1>10, <1>11
     DEF MainNext

LEMMA LizardTypes ==
    ASSUME InductiveInv, NEW l \in LizardIds, LizardNext(l)
    PROVE  TypeOK' /\ MainInRange'
<1> USE LizardsAssumption
    DEF LizardsAssumption, InductiveInv, TypeOK, MainInRange, Goto,
        mainVars, shared, lizardVars, catVars
<1>1. CASE Alive(l)
  <2>1. i \in -1 .. NUM_LIZARDS /\ "loop" \in LizardPcs
    BY DEF LizardPcs
  <2> QED
    BY <1>1, <2>1 DEF Alive
<1>2. CASE Loop(l)
  BY <1>2 DEF Loop, LizardPcs
<1>3. CASE lizard_sleep(l)
  BY <1>3 DEF lizard_sleep, LizardPcs
<1>4. CASE is_safe(l)
  BY <1>4 DEF is_safe, LizardPcs
<1>5. CASE TakeLizLock(l)
  BY <1>5 DEF TakeLizLock, Lock, LizardPcs
<1>6. CASE UnderLizLock(l)
  <2>1. /\ side[l] \in {S2M, M2S} /\ crossing[side[l]] \in Int
        /\ reg[l] + 1 \in Int /\ reg[l] + (-1) \in Int
        /\ {"storeInc", "lockCheck", "lockDec", "storeDec", "post"}
              \subseteq LizardPcs
    BY DEF LizardPcs
  <2>2. CASE Load(l, "loadInc", "storeInc") \/ Load(l, "loadDec", "storeDec")
    BY <2>1, <2>2 DEF Load
  <2>3. CASE Store(l, "storeInc", "lockCheck", 1)
    BY <2>1, <2>3 DEF Store
  <2>4. CASE Store(l, "storeDec", "post", -1)
    BY <2>1, <2>4 DEF Store
  <2>5. CASE CheckPasses(l) \/ PileUp(l)
    BY <2>1, <2>5 DEF CheckPasses, PileUp
  <2> QED
    BY <1>6, <2>2, <2>3, <2>4, <2>5 DEF UnderLizLock
<1>7. CASE made_it(l)
  <2>1. l \in SlotHolders
    BY <1>7 DEF made_it, SlotHolders, HoldsSlot
  <2>2. Cardinality(SlotHolders) \in Nat \ {0}
    <3>1. /\ IsFiniteSet(SlotHolders) /\ Cardinality(SlotHolders) \in Nat
          /\ SlotHolders # {}
      BY <2>1, Sets, SetTypes
    <3> QED
      BY ONLY <3>1, FS_EmptySet
  <2>3. driveway' \in 0..MAX_LIZARD_CROSSING
    BY <1>7, <2>2 DEF made_it, SlotsExact
  <2> QED
    BY <1>7, <2>3 DEF made_it, LizardPcs
<1>8. CASE lizard_eat(l)
  BY <1>8 DEF lizard_eat, LizardPcs
<1> QED
  BY <1>1, <1>2, <1>3, <1>4, <1>5, <1>6, <1>7, <1>8 DEF LizardNext

LEMMA CatTypes ==
    ASSUME InductiveInv, NEW c \in CatIds, CatNext(c)
    PROVE  TypeOK' /\ MainInRange'
<1> USE LizardsAssumption
    DEF LizardsAssumption, InductiveInv, TypeOK, MainInRange, CatGoto, CatPcs,
        mainVars, shared, lizardVars, catVars
<1>1. CASE CatAlive(c)
  <2>1. j \in -1 .. NUM_CATS
    OBVIOUS
  <2> QED
    BY <1>1, <2>1 DEF CatAlive
<1>2. CASE CatLoop(c) \/ cat_sleep(c)
  BY <1>2 DEF CatLoop, cat_sleep
<1>3. CASE CatLock(c)
  BY <1>3 DEF CatLock
<1>4. CASE CatCheck(c)
  BY <1>4 DEF CatCheck
<1> QED
  BY <1>1, <1>2, <1>3, <1>4 DEF CatNext

(***************************************************************************)
(* liz_lock: one holder, and only the holder stores.                       *)
(***************************************************************************)

LEMMA MainKeepsOneHolder ==
    ASSUME InductiveInv, MainNext
    PROVE  OneHolder'
<1> USE DEF InductiveInv, TypeOK, MainInRange, OneHolder, MainHolds,
            LizardHolds, CatHolds, mainVars, shared, lizardVars, catVars
<1>1. CASE LockLizard
  BY <1>1 DEF LockLizard
<1>2. CASE LizardsCreated
  BY <1>2 DEF LizardsCreated
<1>3. CASE CreateLizard
  <2>1. i \in LizardIds
    BY <1>3, LizardsAssumption DEF CreateLizard, LizardIds, LizardsAssumption
  <2> QED
    BY <1>3, <2>1 DEF CreateLizard
<1>4. CASE IncrementI
  BY <1>4 DEF IncrementI
<1>5. CASE LockCat \/ CatsCreated
  BY <1>5 DEF LockCat, CatsCreated
<1>6. CASE CreateCat
  BY <1>6 DEF CreateCat
<1>7. CASE IncrementJ
  BY <1>7 DEF IncrementJ
<1>8. CASE EndOfWorld \/ JoinLizard \/ JoinCat
  BY <1>8 DEF EndOfWorld, JoinLizard, JoinCat
<1> QED
  BY <1>1, <1>2, <1>3, <1>4, <1>5, <1>6, <1>7, <1>8 DEF MainNext

LEMMA LizardKeepsOneHolder ==
    ASSUME InductiveInv, NEW l \in LizardIds, LizardNext(l)
    PROVE  OneHolder'
<1> USE DEF Goto, mainVars, shared, lizardVars, catVars
<1>1. /\ OneHolder /\ pc \in [LizardIds -> LizardPcs]
      /\ mainPc' = mainPc /\ i' = i /\ catPc' = catPc
      /\ pc[l] # "unborn" /\ pc'[l] # "unborn"
      /\ \A m \in LizardIds \ {l} : pc'[m] = pc[m]
  BY DEF InductiveInv, TypeOK, LizardNext, Alive, Loop, lizard_sleep, is_safe,
         made_it, lizard_eat, TakeLizLock, Lock, UnderLizLock, Load, Store,
         CheckPasses, PileUp
<1>2. /\ MainHolds' => MainHolds
      /\ \A m \in LizardIds \ {l} : LizardHolds(m)' = LizardHolds(m)
      /\ \A c \in CatIds : CatHolds(c)' = CatHolds(c)
  <2>1. MainHolds' => MainHolds
    <3>1. CASE i \in LizardIds
      BY <1>1, <3>1 DEF MainHolds
    <3>2. CASE i \notin LizardIds
      BY <1>1, <3>2, LizardsAssumption
         DEF MainHolds, InductiveInv, MainInRange, TypeOK, LizardIds,
             LizardsAssumption
    <3> QED
      BY <3>1, <3>2
  <2> QED
    BY <1>1, <2>1 DEF LizardHolds, CatHolds
<1>3. CASE ~LizardHolds(l) /\ ~LizardHolds(l)' /\ liz_lock' = liz_lock
  BY <1>1, <1>2, <1>3 DEF OneHolder
<1>4. CASE LizardHolds(l) /\ (LizardHolds(l)' => liz_lock' = liz_lock)
  BY <1>1, <1>2, <1>4 DEF OneHolder
<1>5. CASE ~liz_lock /\ liz_lock'
  BY <1>1, <1>2, <1>5 DEF OneHolder
<1>6. \/ ~LizardHolds(l) /\ ~LizardHolds(l)' /\ liz_lock' = liz_lock
      \/ LizardHolds(l) /\ (LizardHolds(l)' => liz_lock' = liz_lock)
      \/ ~liz_lock /\ liz_lock'
  <2>1. CASE Alive(l)
    BY <1>1, <2>1 DEF Alive, LizardHolds
  <2>2. CASE Loop(l) \/ lizard_sleep(l) \/ lizard_eat(l)
    BY <1>1, <2>2 DEF Loop, lizard_sleep, lizard_eat, LizardHolds
  <2>3. CASE is_safe(l) \/ made_it(l)
    BY <1>1, <2>3 DEF is_safe, made_it, LizardHolds
  <2>4. CASE TakeLizLock(l)
    BY <1>1, <2>4 DEF TakeLizLock, Lock
  <2>5. CASE UnderLizLock(l)
    BY <1>1, <2>5
       DEF UnderLizLock, Load, Store, CheckPasses, PileUp, LizardHolds
  <2> QED
    BY <2>1, <2>2, <2>3, <2>4, <2>5 DEF LizardNext
<1> QED
  BY <1>3, <1>4, <1>5, <1>6

LEMMA CatKeepsOneHolder ==
    ASSUME InductiveInv, NEW c \in CatIds, CatNext(c)
    PROVE  OneHolder'
BY DEF InductiveInv, TypeOK, OneHolder, MainHolds, LizardHolds, CatHolds,
       CatGoto, mainVars, shared, lizardVars, catVars,
       CatNext, CatAlive, CatLoop, cat_sleep, CatLock, CatCheck

LEMMA LizardKeepsLoaded ==
    ASSUME InductiveInv, NEW l \in LizardIds, LizardNext(l)
    PROVE  LoadedIsCurrent'
<1> USE DEF InductiveInv, TypeOK, LoadedIsCurrent, Goto, LizardPcs,
            mainVars, shared, lizardVars, catVars
<1>1. CASE Alive(l) \/ Loop(l)
  BY <1>1 DEF Alive, Loop
<1>2. CASE lizard_sleep(l) \/ lizard_eat(l)
  BY <1>2 DEF lizard_sleep, lizard_eat
<1>3. CASE is_safe(l) \/ made_it(l) \/ TakeLizLock(l)
  BY <1>3 DEF is_safe, made_it, TakeLizLock, Lock
<1>4. CASE UnderLizLock(l)
  BY <1>4 DEF UnderLizLock, Load, Store, CheckPasses, PileUp, OneHolder,
              LizardHolds
<1> QED
  BY <1>1, <1>2, <1>3, <1>4 DEF LizardNext

(***************************************************************************)
(* Counters and slots.                                                     *)
(***************************************************************************)

\* A lizard that does not store leaves the counted lizards and the counters.
LEMMA StoresKeepCounters ==
    ASSUME InductiveInv, NEW l \in LizardIds, LizardNext(l)
    PROVE  CountersExact'
<1> USE DEF Goto, mainVars, shared, lizardVars, catVars
<1>1. /\ pc \in [LizardIds -> LizardPcs] /\ side \in [LizardIds -> {S2M, M2S}]
      /\ crossing \in [{S2M, M2S} -> Int] /\ side[l] \in {S2M, M2S}
      /\ \A d \in {S2M, M2S} :
            /\ IsFiniteSet(CountedTowards(d))
            /\ Cardinality(CountedTowards(d)) \in Nat
            /\ crossing[d] = Cardinality(CountedTowards(d))
  BY Sets, SetTypes DEF InductiveInv, TypeOK, CountersExact
<1> DEFINE towards == side[l]
<1>2. CASE Store(l, "storeInc", "lockCheck", 1)
  <2>1. /\ pc[l] = "storeInc" /\ pc' = [pc EXCEPT ![l] = "lockCheck"]
        /\ side' = side /\ crossing' = [crossing EXCEPT ![towards] = @ + 1]
    BY <1>1, <1>2 DEF Store, InductiveInv, LoadedIsCurrent
  <2>2. \A d \in {S2M, M2S} :
            CountedTowards(d)' = IF d = towards THEN CountedTowards(d) \cup {l}
                                                ELSE CountedTowards(d)
    BY <1>1, <2>1 DEF CountedTowards, Counted
  <2>3. l \notin CountedTowards(towards)
    BY <2>1 DEF CountedTowards, Counted
  <2>4. Cardinality(CountedTowards(towards) \cup {l}) =
            Cardinality(CountedTowards(towards)) + 1
    BY <1>1, <2>3, FS_AddElement
  <2>5. \A d \in {S2M, M2S} : crossing'[d] = Cardinality(CountedTowards(d)')
    BY <1>1, <2>1, <2>2, <2>4
  <2> QED
    BY <2>5 DEF CountersExact
<1>3. CASE Store(l, "storeDec", "post", -1)
  <2>1. /\ pc[l] = "storeDec" /\ pc' = [pc EXCEPT ![l] = "post"]
        /\ side' = side /\ crossing' = [crossing EXCEPT ![towards] = @ - 1]
    BY <1>1, <1>3 DEF Store, InductiveInv, LoadedIsCurrent
  <2>2. \A d \in {S2M, M2S} :
            CountedTowards(d)' = IF d = towards THEN CountedTowards(d) \ {l}
                                                ELSE CountedTowards(d)
    BY <1>1, <2>1 DEF CountedTowards, Counted
  <2>3. l \in CountedTowards(towards)
    BY <2>1 DEF CountedTowards, Counted
  <2>4. Cardinality(CountedTowards(towards) \ {l}) =
            Cardinality(CountedTowards(towards)) - 1
    BY <1>1, <2>3, FS_RemoveElement
  <2>5. \A d \in {S2M, M2S} : crossing'[d] = Cardinality(CountedTowards(d)')
    BY <1>1, <2>1, <2>2, <2>4
  <2> QED
    BY <2>5 DEF CountersExact
<1>4. CASE ~Store(l, "storeInc", "lockCheck", 1) /\ ~Store(l, "storeDec", "post", -1)
  <2>1. /\ crossing' = crossing
        /\ \A m \in LizardIds :
              /\ Counted(m)' = Counted(m)
              /\ Counted(m) => side'[m] = side[m]
    <3>1. CASE Alive(l) \/ Loop(l)
      BY <1>1, <3>1 DEF Alive, Loop, Counted
    <3>2. CASE lizard_sleep(l) \/ lizard_eat(l)
      BY <1>1, <3>2 DEF lizard_sleep, lizard_eat, Counted
    <3>3. CASE is_safe(l) \/ made_it(l) \/ TakeLizLock(l)
      BY <1>1, <3>3 DEF is_safe, made_it, TakeLizLock, Lock, Counted
    <3>4. CASE UnderLizLock(l)
      BY <1>1, <1>4, <3>4 DEF UnderLizLock, Load, CheckPasses, PileUp, Counted
    <3> QED
      BY <3>1, <3>2, <3>3, <3>4 DEF LizardNext
  <2>2. \A d \in {S2M, M2S} : CountedTowards(d)' = CountedTowards(d)
    BY <2>1 DEF CountedTowards
  <2> QED
    BY <1>1, <2>1, <2>2 DEF CountersExact
<1> QED
  BY <1>2, <1>3, <1>4

LEMMA WaitsKeepSlots ==
    ASSUME InductiveInv, NEW l \in LizardIds, LizardNext(l)
    PROVE  SlotsExact'
<1> USE DEF Goto, mainVars, shared, lizardVars, catVars
<1>1. /\ pc \in [LizardIds -> LizardPcs]
      /\ driveway \in 0..MAX_LIZARD_CROSSING
      /\ driveway + Cardinality(SlotHolders) = MAX_LIZARD_CROSSING
      /\ IsFiniteSet(SlotHolders) /\ Cardinality(SlotHolders) \in Nat
      /\ MAX_LIZARD_CROSSING \in Nat
  BY Sets, SetTypes, LizardsAssumption
     DEF InductiveInv, TypeOK, SlotsExact, LizardsAssumption
<1>2. CASE is_safe(l)
  <2>1. /\ l \notin SlotHolders
        /\ SlotHolders' = SlotHolders \cup {l}
        /\ driveway' = driveway - 1
    BY <1>1, <1>2 DEF is_safe, SlotHolders, HoldsSlot
  <2>2. Cardinality(SlotHolders \cup {l}) = Cardinality(SlotHolders) + 1
    BY <1>1, <2>1, FS_AddElement
  <2> QED
    BY <1>1, <2>1, <2>2 DEF SlotsExact
<1>3. CASE made_it(l)
  <2>1. /\ l \in SlotHolders
        /\ SlotHolders' = SlotHolders \ {l}
        /\ driveway' = driveway + 1
    BY <1>1, <1>3 DEF made_it, SlotHolders, HoldsSlot
  <2>2. Cardinality(SlotHolders \ {l}) = Cardinality(SlotHolders) - 1
    BY <1>1, <2>1, FS_RemoveElement
  <2> QED
    BY <1>1, <2>1, <2>2 DEF SlotsExact
<1>4. CASE ~is_safe(l) /\ ~made_it(l)
  <2>1. driveway' = driveway /\ \A m \in LizardIds : HoldsSlot(m)' = HoldsSlot(m)
    <3>1. CASE Alive(l) \/ Loop(l) \/ lizard_sleep(l) \/ lizard_eat(l)
      BY <1>1, <3>1 DEF Alive, Loop, lizard_sleep, lizard_eat, HoldsSlot
    <3>2. CASE TakeLizLock(l)
      BY <1>1, <3>2 DEF TakeLizLock, Lock, HoldsSlot
    <3>3. CASE UnderLizLock(l)
      BY <1>1, <3>3 DEF UnderLizLock, Load, Store, CheckPasses, PileUp, HoldsSlot
    <3> QED
      BY <1>4, <3>1, <3>2, <3>3 DEF LizardNext
  <2>2. SlotHolders' = SlotHolders
    BY <2>1 DEF SlotHolders
  <2> QED
    BY <1>1, <2>1, <2>2 DEF SlotsExact
<1> QED
  BY <1>2, <1>3, <1>4

\* main and the cats change no counter and no lizard that is on the driveway.
LEMMA OthersKeepCounts ==
    ASSUME InductiveInv, MainNext \/ \E c \in CatIds : CatNext(c)
    PROVE  /\ LoadedIsCurrent' /\ CountersExact' /\ SlotsExact'
           /\ SlotHolders' = SlotHolders
<1> USE DEF mainVars, shared, lizardVars, catVars
<1>1. /\ crossing' = crossing /\ driveway' = driveway
      /\ side' = side /\ reg' = reg
      /\ \/ pc' = pc
         \/ pc[i] = "unborn" /\ pc' = [pc EXCEPT ![i] = "born"]
  BY DEF MainNext, LockLizard, LizardsCreated, CreateLizard, IncrementI,
         LockCat, CatsCreated, CreateCat, IncrementJ, EndOfWorld, JoinLizard,
         JoinCat, CatNext, CatAlive, CatLoop, cat_sleep, CatLock, CatCheck
<1>2. pc \in [LizardIds -> LizardPcs]
  BY DEF InductiveInv, TypeOK
<1>3. \A l \in LizardIds :
          /\ Counted(l)' = Counted(l)
          /\ HoldsSlot(l)' = HoldsSlot(l)
          /\ pc'[l] \in {"storeInc", "storeDec"} => pc'[l] = pc[l]
  BY <1>1, <1>2 DEF Counted, HoldsSlot
<1>4. SlotHolders' = SlotHolders
  BY <1>3 DEF SlotHolders
<1>5. \A d \in {S2M, M2S} : CountedTowards(d)' = CountedTowards(d)
  BY <1>1, <1>3 DEF CountedTowards
<1> QED
  BY <1>1, <1>3, <1>4, <1>5
     DEF InductiveInv, LoadedIsCurrent, CountersExact, SlotsExact

(***************************************************************************)
(* The theorems.                                                           *)
(***************************************************************************)

\* No cat ever sees more lizards than may cross: both counters count slot
\* holders, of whom there are at most MAX_LIZARD_CROSSING.
LEMMA InvariantImplies ==
    InductiveInv => CatsFindNoToys
<1> SUFFICES ASSUME InductiveInv PROVE ~TooMany
  BY DEF CatsFindNoToys
<1>1. /\ IsFiniteSet(SlotHolders) /\ IsFiniteSet(CountedTowards(S2M))
      /\ IsFiniteSet(CountedTowards(M2S))
      /\ Cardinality(SlotHolders) \in Nat
      /\ Cardinality(CountedTowards(S2M)) \in Nat
      /\ Cardinality(CountedTowards(M2S)) \in Nat
  BY Sets, SetTypes
<1>2. CountedTowards(S2M) \cap CountedTowards(M2S) = {}
  BY DEF CountedTowards, S2M, M2S
<1>3. Cardinality(CountedTowards(S2M) \cup CountedTowards(M2S)) =
          crossing[S2M] + crossing[M2S]
  <2>1. /\ Cardinality(CountedTowards(S2M)) = crossing[S2M]
        /\ Cardinality(CountedTowards(M2S)) = crossing[M2S]
    BY DEF InductiveInv, CountersExact
  <2>2. Cardinality(CountedTowards(S2M) \cup CountedTowards(M2S)) =
            Cardinality(CountedTowards(S2M)) + Cardinality(CountedTowards(M2S)) - 0
    BY <1>1, <1>2, FS_Union, FS_EmptySet
  <2> QED
    BY <1>1, <2>1, <2>2
<1>4. CountedTowards(S2M) \cup CountedTowards(M2S) \in SUBSET SlotHolders
  BY DEF CountedTowards, Counted, SlotHolders, HoldsSlot
<1>5. Cardinality(CountedTowards(S2M) \cup CountedTowards(M2S))
          <= Cardinality(SlotHolders)
  BY <1>1, <1>4, FS_Subset
<1>6. Cardinality(SlotHolders) <= MAX_LIZARD_CROSSING
  BY <1>1, LizardsAssumption
     DEF InductiveInv, TypeOK, SlotsExact, LizardsAssumption
<1>7. /\ crossing[S2M] \in Int /\ crossing[M2S] \in Int
      /\ MAX_LIZARD_CROSSING \in Nat
  BY LizardsAssumption DEF InductiveInv, TypeOK, LizardsAssumption
<1> QED
  BY <1>1, <1>3, <1>5, <1>6, <1>7 DEF TooMany

\* Of all steps only a pile-up ends the program, and a counter that is not
\* zero counts somebody.
LEMMA ExitStep ==
    ASSUME InductiveInv, Next
    PROVE  ExitsOnlyByPileUp'
<1> USE DEF mainVars, shared, lizardVars, catVars
<1>1. ~exited
  BY DEF Next
<1>2. CASE MainNext
  <2>1. exited' = exited
    BY <1>2 DEF MainNext, LockLizard, LizardsCreated, CreateLizard,
       IncrementI, LockCat, CatsCreated, CreateCat, IncrementJ, EndOfWorld,
       JoinLizard, JoinCat
  <2> QED
    BY <1>1, <2>1 DEF ExitsOnlyByPileUp
<1>3. ASSUME NEW l \in LizardIds, LizardNext(l)
      PROVE  ExitsOnlyByPileUp'
  <2>1. CASE PileUp(l)
    <3>1. /\ UNIDIRECTIONAL /\ pc[l] = "check" /\ side[l] \in {S2M, M2S}
          /\ Cardinality(CountedTowards(Other(side[l]))) # 0
          /\ Other(side[l]) \in {S2M, M2S} /\ Other(side[l]) # side[l]
          /\ pc' = pc /\ side' = side
      BY <2>1 DEF PileUp, InductiveInv, TypeOK, CountersExact, Other, S2M, M2S
    <3>2. CountedTowards(Other(side[l])) # {}
      BY <3>1, FS_EmptySet
    <3>3. l \in CountedTowards(side[l])
      BY <3>1 DEF CountedTowards, Counted
    <3>4. CountedTowards(S2M) # {} /\ CountedTowards(M2S) # {}
      BY <3>1, <3>2, <3>3
    <3> QED
      BY <3>1, <3>4 DEF ExitsOnlyByPileUp, CountedTowards, Counted
  <2>2. CASE ~PileUp(l)
    <3>1. exited' = exited
      BY <1>3, <2>2 DEF LizardNext, Alive, Loop, lizard_sleep, is_safe,
         made_it, lizard_eat, TakeLizLock, Lock, UnderLizLock, Load, Store,
         CheckPasses
    <3> QED
      BY <1>1, <3>1 DEF ExitsOnlyByPileUp
  <2> QED
    BY <2>1, <2>2
<1>4. ASSUME NEW c \in CatIds, CatNext(c)
      PROVE  ExitsOnlyByPileUp'
  <2>1. ~TooMany
    BY InvariantImplies DEF CatsFindNoToys
  <2>2. exited' = exited
    BY <1>4, <2>1 DEF CatNext, CatAlive, CatLoop, cat_sleep, CatLock, CatCheck
  <2> QED
    BY <1>1, <2>2 DEF ExitsOnlyByPileUp
<1> QED
  BY <1>2, <1>3, <1>4 DEF Next

\* A lizard crosses on only if nobody is counted who comes the other way.
LEMMA MeetingStep ==
    ASSUME InductiveInv, Next
    PROVE  NoPileUpMissed'
<1> USE DEF mainVars, shared, lizardVars, catVars
<1>1. /\ pc \in [LizardIds -> LizardPcs] /\ side \in [LizardIds -> {S2M, M2S}]
      /\ UNIDIRECTIONAL =>
            \A l, m \in LizardIds : CrossesOn(l) /\ CrossesOn(m) => side[l] = side[m]
  BY DEF InductiveInv, TypeOK, NoPileUpMissed
<1>2. CASE MainNext \/ \E c \in CatIds : CatNext(c)
  <2>1. /\ side' = side
        /\ \/ pc' = pc
           \/ pc[i] = "unborn" /\ pc' = [pc EXCEPT ![i] = "born"]
    BY <1>2 DEF MainNext, LockLizard, LizardsCreated, CreateLizard, IncrementI,
       LockCat, CatsCreated, CreateCat, IncrementJ, EndOfWorld, JoinLizard,
       JoinCat, CatNext, CatAlive, CatLoop, cat_sleep, CatLock, CatCheck
  <2>2. \A l \in LizardIds : CrossesOn(l)' => CrossesOn(l)
    BY <1>1, <2>1 DEF CrossesOn
  <2> QED
    BY <1>1, <2>1, <2>2 DEF NoPileUpMissed
<1>3. ASSUME NEW l \in LizardIds, LizardNext(l)
      PROVE  NoPileUpMissed'
  <2>1. \A m \in LizardIds \ {l} : (CrossesOn(m)' <=> CrossesOn(m)) /\ side'[m] = side[m]
    BY <1>1, <1>3 DEF LizardNext, Alive, Loop, lizard_sleep, is_safe, made_it,
       lizard_eat, TakeLizLock, Lock, UnderLizLock, Load, Store, CheckPasses,
       PileUp, Goto, CrossesOn
  <2>2. CrossesOn(l)' => side'[l] = side[l] /\ (CrossesOn(l) \/ CheckPasses(l))
    <3>1. CASE CheckPasses(l)
      BY <3>1 DEF CheckPasses
    <3>2. CASE ~CheckPasses(l)
      BY <1>1, <1>3, <3>2 DEF LizardNext, Alive, Loop, lizard_sleep, is_safe,
         made_it, lizard_eat, TakeLizLock, Lock, UnderLizLock, Load, Store, PileUp,
         Goto, CrossesOn
    <3> QED
      BY <3>1, <3>2
  <2>3. ASSUME UNIDIRECTIONAL, CheckPasses(l), NEW m \in LizardIds, CrossesOn(m)
        PROVE  side[m] = side[l]
    <3>1. Other(side[l]) \in {S2M, M2S}
      BY DEF Other
    <3>2. Cardinality(CountedTowards(Other(side[l]))) = 0
      BY <2>3, <3>1 DEF CheckPasses, InductiveInv, CountersExact
    <3>3. CountedTowards(Other(side[l])) = {}
      BY <3>1, <3>2, Sets, SetTypes, FS_EmptySet
    <3>4. side[m] # Other(side[l])
      BY <2>3, <3>3 DEF CrossesOn, CountedTowards, Counted
    <3> QED
      BY <1>1, <3>4 DEF Other
  <2> SUFFICES ASSUME UNIDIRECTIONAL, NEW k \in LizardIds, NEW m \in LizardIds,
                      CrossesOn(k)', CrossesOn(m)'
               PROVE  side'[k] = side'[m]
    BY DEF NoPileUpMissed
  <2> QED
    BY <1>1, <2>1, <2>2, <2>3
<1> QED
  BY <1>2, <1>3 DEF Next

LEMMA InductiveStep ==
    InductiveInv /\ [Next]_vars => InductiveInv'
<1> SUFFICES ASSUME InductiveInv, [Next]_vars PROVE InductiveInv'
  OBVIOUS
<1>1. CASE UNCHANGED vars
  BY <1>1 DEF vars, mainVars, shared, lizardVars, catVars, InductiveInv,
      TypeOK, MainInRange, OneHolder, MainHolds, LizardHolds, CatHolds,
      LoadedIsCurrent, CountersExact, CountedTowards, Counted, SlotsExact,
      SlotHolders, HoldsSlot, ExitsOnlyByPileUp, NoPileUpMissed, CrossesOn
<1>2. CASE Next
  <2>1. TypeOK' /\ MainInRange'
    BY <1>2, MainTypes, LizardTypes, CatTypes DEF Next
  <2>2. OneHolder'
    BY <1>2, MainKeepsOneHolder, LizardKeepsOneHolder, CatKeepsOneHolder DEF Next
  <2>3. LoadedIsCurrent' /\ CountersExact' /\ SlotsExact'
    BY <1>2, LizardKeepsLoaded, StoresKeepCounters, WaitsKeepSlots,
       OthersKeepCounts DEF Next
  <2> QED
    BY <1>2, <2>1, <2>2, <2>3, ExitStep, MeetingStep DEF InductiveInv
<1> QED
  BY <1>1, <1>2

\* Whatever the number of threads: liz_lock has one holder, no update of a
\* counter is lost and the semaphore's value is the number of free slots.
THEOREM InductiveInvHolds ==
    Spec => []InductiveInv
BY InitImplies, InductiveStep, PTL DEF Spec

\* The threads' variables keep their types: no counter and no semaphore goes
\* below 0 (lizards.c:170-190, 434-541).
THEOREM TypeCorrect == Spec => []TypeOK
<1>1. InductiveInv => TypeOK
  BY DEF InductiveInv
<1> QED
  BY <1>1, InductiveInvHolds, PTL

\* No cat ever ends the program (lizards.c:351-355), and the counters its sum
\* is made of are exact.
THEOREM CatsStayAway ==
    Spec => [](CatsFindNoToys /\ CountersExact)
<1>1. InductiveInv => CatsFindNoToys /\ CountersExact
  BY InvariantImplies DEF InductiveInv
<1> QED
  BY <1>1, InductiveInvHolds, PTL

\* Two lizards that meet in a unidirectional world end the program, and nothing
\* else does: of the two the one that looks last sees the other, which was
\* counted before it looked itself (lizards.c:475-501, 631-656).
THEOREM PileUpsAreNoticed ==
    Spec => [](NoPileUpMissed /\ ExitsOnlyByPileUp)
<1>1. InductiveInv => NoPileUpMissed /\ ExitsOnlyByPileUp
  BY DEF InductiveInv
<1> QED
  BY <1>1, InductiveInvHolds, PTL

(***************************************************************************)
(* The end of main.                                                        *)
(***************************************************************************)

LEMMA InitEnds == Init => EndInv
BY DEF Init, EndInv, LockHeld, CatLockHeld, UnbornAhead, Joined

LEMMA MainKeepsEnd ==
    ASSUME InductiveInv, EndInv, MainNext
    PROVE  EndInv'
<1> USE DEF EndInv, LockHeld, CatLockHeld, UnbornAhead, Joined, MainHolds,
            LizardHolds, CatHolds, mainVars, shared, lizardVars, catVars
<1>1. /\ pc \in [LizardIds -> LizardPcs] /\ catPc \in [CatIds -> CatPcs]
      /\ i \in 0..NUM_LIZARDS /\ j \in 0..NUM_CATS
      /\ mainPc = "createLizard" => i < NUM_LIZARDS
      /\ mainPc = "createCat" => j < NUM_CATS
      /\ LizardIds = 0 .. (NUM_LIZARDS - 1) /\ CatIds = 0 .. (NUM_CATS - 1)
      /\ NUM_LIZARDS \in Nat /\ NUM_CATS \in Nat
  BY LizardsAssumption
     DEF InductiveInv, TypeOK, MainInRange, LizardIds, CatIds, LizardsAssumption
<1>2. CASE LockLizard
  BY <1>1, <1>2 DEF LockLizard
<1>3. CASE LizardsCreated
  BY <1>1, <1>3 DEF LizardsCreated
<1>4. CASE CreateLizard
  BY <1>1, <1>4 DEF CreateLizard
<1>5. CASE IncrementI
  BY <1>1, <1>5 DEF IncrementI
<1>6. CASE LockCat
  BY <1>1, <1>6 DEF LockCat
<1>7. CASE CatsCreated
  BY <1>1, <1>7 DEF CatsCreated
<1>8. CASE CreateCat
  BY <1>1, <1>8 DEF CreateCat
<1>9. CASE IncrementJ
  BY <1>1, <1>9 DEF IncrementJ
<1>10. CASE EndOfWorld
  BY <1>1, <1>10 DEF EndOfWorld
<1>11. CASE JoinLizard
  BY <1>1, <1>11 DEF JoinLizard
<1>12. CASE JoinCat
  BY <1>1, <1>12 DEF JoinCat
<1> QED
  BY <1>2, <1>3, <1>4, <1>5, <1>6, <1>7, <1>8, <1>9, <1>10, <1>11, <1>12
     DEF MainNext

LEMMA LizardKeepsEnd ==
    ASSUME InductiveInv, EndInv, NEW l \in LizardIds, LizardNext(l)
    PROVE  EndInv'
<1> USE DEF Goto, mainVars, shared, lizardVars, catVars
<1>1. /\ pc \in [LizardIds -> LizardPcs]
      /\ pc' = [pc EXCEPT ![l] = pc'[l]] /\ pc[l] \notin {"unborn", "done"}
      /\ UNCHANGED <<mainVars, cat_lock, catVars>>
      /\ \/ liz_lock' = FALSE
         \/ LizardHolds(l)'
         \/ liz_lock' = liz_lock /\ ~LizardHolds(l)
  BY DEF InductiveInv, TypeOK, LizardHolds, LizardNext, Alive, Loop,
         lizard_sleep, is_safe, made_it, lizard_eat, TakeLizLock, Lock,
         UnderLizLock, Load, Store, CheckPasses, PileUp
<1>2. /\ \A m \in LizardIds \ {l} : pc'[m] = pc[m]
      /\ \A m \in LizardIds : pc[m] \in {"unborn", "done"} => pc'[m] = pc[m]
  BY <1>1
<1>3. LockHeld'
  <2>1. mainPc = "createLizard" => i \in LizardIds
    BY LizardsAssumption
       DEF InductiveInv, MainInRange, TypeOK, LizardIds, LizardsAssumption
  <2>2. MainHolds => MainHolds'
    BY <1>1, <1>2, <2>1 DEF MainHolds
  <2> QED
    BY <1>1, <1>2, <2>2 DEF EndInv, LockHeld, LizardHolds, CatHolds
<1>4. CatLockHeld' /\ UnbornAhead' /\ Joined'
  BY <1>1, <1>2 DEF EndInv, CatLockHeld, UnbornAhead, Joined
<1> QED
  BY <1>3, <1>4 DEF EndInv

LEMMA CatKeepsEnd ==
    ASSUME InductiveInv, EndInv, NEW c \in CatIds, CatNext(c)
    PROVE  EndInv'
<1> USE DEF CatGoto, mainVars, shared, lizardVars, catVars
<1>1. /\ catPc \in [CatIds -> CatPcs]
      /\ catPc' = [catPc EXCEPT ![c] = catPc'[c]]
      /\ catPc[c] \notin {"unborn", "done"}
      /\ UNCHANGED <<mainVars, lizardVars>>
      /\ \/ liz_lock' = FALSE
         \/ CatHolds(c)'
         \/ liz_lock' = liz_lock /\ ~CatHolds(c)
      /\ cat_lock' = FALSE \/ (cat_lock' = cat_lock /\ catPc[c] # "born")
  BY DEF InductiveInv, TypeOK, CatHolds, CatNext, CatAlive, CatLoop, cat_sleep,
         CatLock, CatCheck
<1>2. /\ \A d \in CatIds \ {c} : catPc'[d] = catPc[d]
      /\ \A d \in CatIds : catPc[d] \in {"unborn", "done"} => catPc'[d] = catPc[d]
  BY <1>1
<1>3. LockHeld'
  BY <1>1, <1>2 DEF EndInv, LockHeld, MainHolds, LizardHolds, CatHolds
<1>4. CatLockHeld'
  <2> SUFFICES ASSUME cat_lock' PROVE CatLockHeld'
    BY DEF CatLockHeld
  <2>1. cat_lock /\ catPc[c] # "born" /\ mainPc' = mainPc /\ j' = j
    BY <1>1
  <2>2. CASE mainPc = "createCat" /\ catPc[j] = "unborn"
    <3>1. j \in CatIds
      BY <2>2, LizardsAssumption
         DEF InductiveInv, MainInRange, TypeOK, CatIds, LizardsAssumption
    <3> QED
      BY <1>2, <2>1, <2>2, <3>1 DEF CatLockHeld
  <2>3. CASE \E d \in CatIds : catPc[d] = "born"
    BY <1>2, <2>1, <2>3 DEF CatLockHeld
  <2> QED
    BY <2>1, <2>2, <2>3 DEF EndInv, CatLockHeld
<1>5. UnbornAhead' /\ Joined'
  BY <1>1, <1>2 DEF EndInv, UnbornAhead, Joined
<1> QED
  BY <1>3, <1>4, <1>5 DEF EndInv

LEMMA StepEnds == InductiveInv /\ EndInv /\ [Next]_vars => EndInv'
<1>1. ASSUME InductiveInv, EndInv, UNCHANGED vars PROVE EndInv'
  BY <1>1 DEF vars, mainVars, shared, lizardVars, catVars, EndInv, LockHeld,
      CatLockHeld, UnbornAhead, Joined, MainHolds, LizardHolds, CatHolds
<1> QED
  BY <1>1, MainKeepsEnd, LizardKeepsEnd, CatKeepsEnd DEF Next

\* When main has joined everybody, no slot is taken, nobody is counted and no
\* mutex is locked.
LEMMA AllBack == InductiveInv /\ EndInv => EndsBalanced
<1> SUFFICES ASSUME InductiveInv, EndInv, mainPc = "done"
             PROVE  /\ driveway = MAX_LIZARD_CROSSING
                    /\ \A d \in {S2M, M2S} : crossing[d] = 0
                    /\ ~liz_lock /\ ~cat_lock
  BY DEF EndsBalanced
<1>1. /\ \A l \in LizardIds : pc[l] = "done"
      /\ \A c \in CatIds : catPc[c] = "done"
  BY DEF EndInv, Joined
<1>2. /\ Cardinality(SlotHolders) = 0
      /\ \A d \in {S2M, M2S} : Cardinality(CountedTowards(d)) = 0
  BY <1>1, FS_EmptySet DEF SlotHolders, HoldsSlot, CountedTowards, Counted
<1>3. driveway = MAX_LIZARD_CROSSING
  BY <1>2, LizardsAssumption
     DEF InductiveInv, SlotsExact, TypeOK, LizardsAssumption
<1>4. ~liz_lock /\ ~cat_lock
  BY <1>1 DEF EndInv, LockHeld, CatLockHeld, MainHolds, LizardHolds, CatHolds
<1> QED
  BY <1>2, <1>3, <1>4 DEF InductiveInv, CountersExact

\* The program leaves the driveway as it found it (lizards.c:233-250): every
\* slot given back, both counters at 0, both mutexes free.
THEOREM EndsClean == Spec => []EndsBalanced
<1>1. Spec => []EndInv
  BY InitEnds, StepEnds, InductiveInvHolds, PTL DEF Spec
<1> QED
  BY <1>1, AllBack, InductiveInvHolds, PTL

LEMMA SameCardinality ==
    \A S : Drive!Cardinality(S) = Cardinality(S)
BY DEF Cardinality, Drive!Cardinality

LEMMA InitRefines ==
    Init => Drive!Init
BY DEF Init, Drive!Init, SlotHolders, HoldsSlot

LEMMA StepRefines ==
    ASSUME InductiveInv, [Next]_vars
    PROVE  [Drive!Next]_SlotHolders
<1> USE DEF Goto, mainVars, shared, lizardVars, catVars
<1>1. CASE UNCHANGED vars
  BY <1>1 DEF vars, SlotHolders, HoldsSlot
<1>2. CASE MainNext \/ \E c \in CatIds : CatNext(c)
  BY <1>2, OthersKeepCounts
<1>3. ASSUME NEW l \in LizardIds, LizardNext(l)
      PROVE  [Drive!Next]_SlotHolders
  <2>1. pc \in [LizardIds -> LizardPcs]
    BY DEF InductiveInv, TypeOK
  <2>2. CASE is_safe(l)
    <3>1. l \notin SlotHolders /\ SlotHolders' = SlotHolders \cup {l}
      BY <2>1, <2>2 DEF is_safe, SlotHolders, HoldsSlot
    <3>2. Cardinality(SlotHolders) < MAX_LIZARD_CROSSING
      BY <2>2, Sets, SetTypes, LizardsAssumption
         DEF is_safe, InductiveInv, TypeOK, SlotsExact, LizardsAssumption
    <3> QED
      BY <3>1, <3>2, SameCardinality DEF Drive!Next, Drive!StepOn
  <2>3. CASE made_it(l)
    <3>1. l \in SlotHolders /\ SlotHolders' = SlotHolders \ {l}
      BY <2>1, <2>3 DEF made_it, SlotHolders, HoldsSlot
    <3> QED
      BY <3>1 DEF Drive!Next, Drive!StepOff
  <2>4. CASE ~is_safe(l) /\ ~made_it(l)
    <3>1. \A m \in LizardIds : HoldsSlot(m)' = HoldsSlot(m)
      <4>1. CASE Alive(l) \/ Loop(l) \/ lizard_sleep(l) \/ lizard_eat(l)
        BY <2>1, <4>1 DEF Alive, Loop, lizard_sleep, lizard_eat, HoldsSlot
      <4>2. CASE TakeLizLock(l)
        BY <2>1, <4>2 DEF TakeLizLock, Lock, HoldsSlot
      <4>3. CASE UnderLizLock(l)
        BY <2>1, <4>3
           DEF UnderLizLock, Load, Store, CheckPasses, PileUp, HoldsSlot
      <4> QED
        BY <1>3, <2>4, <4>1, <4>2, <4>3 DEF LizardNext
    <3> QED
      BY <3>1 DEF SlotHolders
  <2> QED
    BY <2>2, <2>3, <2>4
<1> QED
  BY <1>1, <1>2, <1>3 DEF Next

\* The threads, locks, counters and the semaphore together implement the
\* driveway that at most MAX_LIZARD_CROSSING lizards are on.
THEOREM Implements ==
    Spec => ImplementsDriveway
<1>1. InductiveInv /\ [Next]_vars => [Drive!Next]_SlotHolders
  BY StepRefines
<1> QED
  BY <1>1, InitRefines, InductiveInvHolds, PTL
     DEF Spec, ImplementsDriveway, Drive!Spec

=============================================================================
