-------------------------- MODULE LizardsInvariant ---------------------------
(***************************************************************************)
(* The inductive invariant behind the safety of Lizards: liz_lock has one  *)
(* holder, and the counters and the semaphore count the lizards whose      *)
(* program counters say so.                                                *)
(***************************************************************************)
EXTENDS Lizards

\* main holds liz_lock from its lock until the new thread exists, which is
\* then the one to unlock it.
MainHolds == mainPc = "createLizard" /\ pc[i] = "unborn"

LizardHolds(l) ==
    pc[l] \in {"born", "loadInc", "storeInc", "check", "loadDec", "storeDec"}

CatHolds(c) == catPc[c] = "check"

OneHolder ==
    /\ MainHolds =>
          liz_lock /\ (\A l \in LizardIds : ~LizardHolds(l))
                   /\ (\A c \in CatIds : ~CatHolds(c))
    /\ \A l \in LizardIds : LizardHolds(l) =>
          liz_lock /\ (\A m \in LizardIds \ {l} : ~LizardHolds(m))
                   /\ (\A c \in CatIds : ~CatHolds(c))
    /\ \A c \in CatIds : CatHolds(c) =>
          liz_lock /\ (\A d \in CatIds \ {c} : ~CatHolds(d))

\* main indexes lizard[] and cat[] inside their bounds.
MainInRange ==
    /\ mainPc = "createLizard" => i < NUM_LIZARDS
    /\ mainPc = "createCat" => j < NUM_CATS

\* What a lizard loaded is still there when it stores.
LoadedIsCurrent ==
    \A l \in LizardIds :
        pc[l] \in {"storeInc", "storeDec"} => reg[l] = crossing[side[l]]

\* The semaphore's value is the number of free slots.
SlotsExact == driveway + Cardinality(SlotHolders) = MAX_LIZARD_CROSSING

\* The strengthening that the proofs use.  It covers every load, store, wait
\* and post of lizards.c:434-541 and 587-695 and the hand-over of liz_lock
\* from main to a new lizard (lizards.c:201, 291).
InductiveInv ==
    /\ TypeOK /\ MainInRange
    /\ OneHolder /\ LoadedIsCurrent
    /\ CountersExact /\ SlotsExact
    /\ ExitsOnlyByPileUp /\ NoPileUpMissed

(***************************************************************************)
(* How the threads end: a locked mutex has a holder, threads are created   *)
(* in the order of their numbers and joined in it.                         *)
(***************************************************************************)
LockHeld ==
    liz_lock => \/ MainHolds
                \/ \E l \in LizardIds : LizardHolds(l)
                \/ \E c \in CatIds : CatHolds(c)

CatLockHeld ==
    cat_lock => \/ mainPc = "createCat" /\ catPc[j] = "unborn"
                \/ \E c \in CatIds : catPc[c] = "born"

UnbornAhead ==
    /\ mainPc = "lockLizard" => \A l \in LizardIds : l >= i => pc[l] = "unborn"
    /\ mainPc = "createLizard" => \A l \in LizardIds : l > i => pc[l] = "unborn"
    /\ mainPc \in {"lockLizard", "createLizard"} =>
          \A c \in CatIds : catPc[c] = "unborn"
    /\ mainPc = "lockCat" => \A c \in CatIds : c >= j => catPc[c] = "unborn"
    /\ mainPc = "createCat" => \A c \in CatIds : c > j => catPc[c] = "unborn"

Joined ==
    /\ mainPc = "joinLizard" => \A l \in LizardIds : l < i => pc[l] = "done"
    /\ mainPc \in {"joinCat", "done"} => \A l \in LizardIds : pc[l] = "done"
    /\ mainPc = "joinCat" => \A c \in CatIds : c < j => catPc[c] = "done"
    /\ mainPc = "done" => \A c \in CatIds : catPc[c] = "done"

EndInv == LockHeld /\ CatLockHeld /\ UnbornAhead /\ Joined

=============================================================================
