--------------------------- MODULE StorageProofs ---------------------------
(***************************************************************************)
(* Theorems about Storage, for every forest of blocks and every set of     *)
(* goroutines that call Add.  The inductive invariant IInv records, next   *)
(* to the properties themselves, which goroutine still owes a step: a link *)
(* that is not followed yet, a level that is not raised yet, balances that *)
(* are not recomputed yet.                                                 *)
(***************************************************************************)
EXTENDS Storage, TLAPS

\* What the locals of a call mean at each point of Add.
Locals ==
  \A a \in Adder :
    /\ pc[a] # "idle" => adding[a] \in Block
    /\ pc[a] \notin {"idle", "store"} => adding[a] \in blocks
    /\ pc[a] \notin {"idle", "store", "level"} => adding[a] \in levels
    /\ pc[a] \in {"mark", "descend", "raise"} => at[a] \in blocks \cap levels
    /\ pc[a] = "mark" => IsGenesis(at[a]) \/ Parent[at[a]] \in verified
    /\ pc[a] \in {"descend", "raise"} => at[a] \in verified

\* A recorded child is stored, indexed, and a child of the hash it is under.
Children ==
  \A p \in Block \cup {NoBlock} :
    child[p] # NoBlock => child[p] \in blocks \cap levels /\ Parent[child[p]] = p

\* The lock of the balances is held by the goroutine that recomputes them.
Locking ==
  /\ \A a \in Adder : pc[a] \in {"read", "pick"} <=> a \in balanceLock
  /\ \A a, b \in balanceLock : a = b

\* The level a recomputation goes by is one that still has a verified block,
\* and not below the level the balances already show.
Picking ==
  /\ Height(shown) <= maxLevel
  /\ \A a \in Adder :
       pc[a] = "pick" => /\ top[a] >= Height(shown)
                         /\ top[a] <= maxLevel
                         /\ TopBlocks(top[a]) # {}

\* A recorded child of a verified block is verified or somebody is about to.
LinkOwed ==
  \A p \in verified :
    child[p] = NoBlock \/ child[p] \in verified \/
    \E a \in Adder : \/ pc[a] = "check" /\ adding[a] = child[p]
                     \/ pc[a] = "descend" /\ at[a] = p
                     \/ pc[a] = "mark" /\ at[a] = child[p]

\* maxLevel covers a verified block or somebody is about to raise it.
LevelOwed ==
  \A b \in verified :
    Level[b] <= maxLevel \/
    \E a \in Adder : /\ pc[a] \in {"mark", "descend", "raise"}
                     /\ Level[at[a]] >= Level[b]

\* The balances show maxLevel or somebody is about to recompute them.
LedgerOwed ==
  \/ Height(shown) >= maxLevel
  \/ \E a \in Adder : \/ pc[a] \in {"lock", "read"}
                      \/ pc[a] = "pick" /\ top[a] >= maxLevel

IInv == /\ TypeOK /\ Locals /\ Children /\ VerifiedChains /\ TopIsVerified
        /\ Locking /\ BalanceWhole /\ Picking
        /\ LinkOwed /\ LevelOwed /\ LedgerOwed
----------------------------------------------------------------------------
\* The chain of a member of a set that is closed under parents lies in the set.
LEMMA ChainInClosed ==
  ASSUME NEW S \in SUBSET Block, ParentClosed(S), NEW b \in S
  PROVE  Chain(b) \subseteq S
BY DEF Chain

\* Levels are natural numbers, so only "no block" has a negative height.
LEMMA HeightType ==
  ASSUME NEW b \in Block \cup {NoBlock}
  PROVE  /\ Height(b) \in Nat \cup {-1}
         /\ Height(b) < 0 => b = NoBlock
BY BlockTreeAssumption DEF Height

\* The invariant holds of an empty storage.
LEMMA InitIInv == Init => IInv
<1> SUFFICES ASSUME Init PROVE IInv
  OBVIOUS
<1> USE BlockTreeAssumption DEF Init
<1>1. TypeOK
  BY DEF TypeOK, Labels
<1>2. Locals /\ Children /\ VerifiedChains /\ Locking /\ BalanceWhole
  BY DEF Locals, Children, VerifiedChains, ParentClosed, Locking, BalanceWhole
<1>3. TopIsVerified /\ Picking /\ LinkOwed /\ LevelOwed /\ LedgerOwed
  BY DEF TopIsVerified, Picking, LinkOwed, LevelOwed, LedgerOwed, Height
<1> QED
  BY <1>1, <1>2, <1>3 DEF IInv

(* One lemma per action: it preserves every part of the invariant. *)

\* A call that begins owes nothing yet.
LEMMA CallStep ==
  ASSUME IInv, NEW a \in Adder, NEW b \in Block, Call(a, b)
  PROVE  IInv'
<1> USE BlockTreeAssumption DEF IInv, TypeOK, Labels, Call, Go, shared, money, local
<1>1. TypeOK'
  BY DEF TypeOK, Labels, Locals
<1>2. Locals'
  BY DEF Locals
<1>3. Children'
  BY DEF Children, Locals
<1>4. VerifiedChains'
  BY DEF VerifiedChains, ParentClosed, Locals
<1>5. TopIsVerified'
  BY DEF TopIsVerified, TopBlocks, Locals
<1>6. Locking'
  BY DEF Locking, Locals
<1>7. BalanceWhole'
  BY DEF BalanceWhole, Locals
<1>8. Picking'
  BY DEF Picking, TopBlocks, Height, Locals
<1>9. LinkOwed'
  BY DEF LinkOwed, Locals
<1>10. LevelOwed'
  BY DEF LevelOwed, Locals
<1>11. LedgerOwed'
  BY DEF LedgerOwed, Height, Locals
<1> QED
  BY <1>1, <1>2, <1>3, <1>4, <1>5, <1>6, <1>7, <1>8, <1>9, <1>10, <1>11

\* A refused block leaves nothing behind.
LEMMA RefuseStep ==
  ASSUME IInv, NEW a \in Adder, Refuse(a)
  PROVE  IInv'
<1> USE BlockTreeAssumption DEF IInv, TypeOK, Labels, Refuse, Go, Return, shared, money, local
<1>1. TypeOK'
  BY DEF TypeOK, Labels, Locals
<1>2. Locals'
  BY DEF Locals
<1>3. Children'
  BY DEF Children, Locals
<1>4. VerifiedChains'
  BY DEF VerifiedChains, ParentClosed, Locals
<1>5. TopIsVerified'
  BY DEF TopIsVerified, TopBlocks, Locals
<1>6. Locking'
  BY DEF Locking, Locals
<1>7. BalanceWhole'
  BY DEF BalanceWhole, Locals
<1>8. Picking'
  BY DEF Picking, TopBlocks, Height, Locals
<1>9. LinkOwed'
  BY DEF LinkOwed, Locals
<1>10. LevelOwed'
  BY DEF LevelOwed, Locals
<1>11. LedgerOwed'
  BY DEF LedgerOwed, Height, Locals
<1> QED
  BY <1>1, <1>2, <1>3, <1>4, <1>5, <1>6, <1>7, <1>8, <1>9, <1>10, <1>11

\* Storing a block only adds to blocks, or ends the call.
LEMMA StoreBlockStep ==
  ASSUME IInv, NEW a \in Adder, StoreBlock(a)
  PROVE  IInv'
<1> USE BlockTreeAssumption DEF IInv, TypeOK, Labels, StoreBlock, Go, Return, shared, money, local
<1>1. TypeOK'
  BY DEF TypeOK, Labels, Locals
<1>2. Locals'
  BY DEF Locals
<1>3. Children'
  BY DEF Children, Locals
<1>4. VerifiedChains'
  BY DEF VerifiedChains, ParentClosed, Locals
<1>5. TopIsVerified'
  BY DEF TopIsVerified, TopBlocks, Locals
<1>6. Locking'
  BY DEF Locking, Locals
<1>7. BalanceWhole'
  BY DEF BalanceWhole, Locals
<1>8. Picking'
  BY DEF Picking, TopBlocks, Height, Locals
<1>9. LinkOwed'
  BY DEF LinkOwed, Locals
<1>10. LevelOwed'
  BY DEF LevelOwed, Locals
<1>11. LedgerOwed'
  BY DEF LedgerOwed, Height, Locals
<1> QED
  BY <1>1, <1>2, <1>3, <1>4, <1>5, <1>6, <1>7, <1>8, <1>9, <1>10, <1>11

\* Indexing only adds to levels.
LEMMA IndexLevelStep ==
  ASSUME IInv, NEW a \in Adder, IndexLevel(a)
  PROVE  IInv'
<1> USE BlockTreeAssumption DEF IInv, TypeOK, Labels, IndexLevel, Go, shared, money, local
<1>1. TypeOK'
  BY DEF TypeOK, Labels, Locals
<1>2. Locals'
  BY DEF Locals
<1>3. Children'
  BY DEF Children, Locals
<1>4. VerifiedChains'
  BY DEF VerifiedChains, ParentClosed, Locals
<1>5. TopIsVerified'
  BY DEF TopIsVerified, TopBlocks, Locals
<1>6. Locking'
  BY DEF Locking, Locals
<1>7. BalanceWhole'
  BY DEF BalanceWhole, Locals
<1>8. Picking'
  BY DEF Picking, TopBlocks, Height, Locals
<1>9. LinkOwed'
  BY DEF LinkOwed, Locals
<1>10. LevelOwed'
  BY DEF LevelOwed, Locals
<1>11. LedgerOwed'
  BY DEF LedgerOwed, Height, Locals
<1> QED
  BY <1>1, <1>2, <1>3, <1>4, <1>5, <1>6, <1>7, <1>8, <1>9, <1>10, <1>11

\* A new link is owed by the goroutine that made it: it is at its check.
LEMMA LinkParentStep ==
  ASSUME IInv, NEW a \in Adder, LinkParent(a)
  PROVE  IInv'
<1> USE BlockTreeAssumption DEF IInv, TypeOK, Labels, LinkParent, Go, shared, money, local
<1>1. TypeOK'
  BY DEF TypeOK, Labels, Locals
<1>2. Locals'
  BY DEF Locals
<1>3. Children'
  BY DEF Children, Locals
<1>4. VerifiedChains'
  BY DEF VerifiedChains, ParentClosed, Locals
<1>5. TopIsVerified'
  BY DEF TopIsVerified, TopBlocks, Locals
<1>6. Locking'
  BY DEF Locking, Locals
<1>7. BalanceWhole'
  BY DEF BalanceWhole, Locals
<1>8. Picking'
  BY DEF Picking, TopBlocks, Height, Locals
<1>9. LinkOwed'
  BY DEF LinkOwed, Locals
<1>10. LevelOwed'
  BY DEF LevelOwed, Locals
<1>11. LedgerOwed'
  BY DEF LedgerOwed, Height, Locals
<1> QED
  BY <1>1, <1>2, <1>3, <1>4, <1>5, <1>6, <1>7, <1>8, <1>9, <1>10, <1>11

\* A failed check means that the parent is not verified, so no link is lost.
LEMMA CheckParentStep ==
  ASSUME IInv, NEW a \in Adder, CheckParent(a)
  PROVE  IInv'
<1> USE BlockTreeAssumption DEF IInv, TypeOK, Labels, CheckParent, Go, shared, money, local
<1>1. TypeOK'
  BY DEF TypeOK, Labels, Locals
<1>2. Locals'
  BY DEF Locals
<1>3. Children'
  BY DEF Children, Locals
<1>4. VerifiedChains'
  BY DEF VerifiedChains, ParentClosed, Locals
<1>5. TopIsVerified'
  BY DEF TopIsVerified, TopBlocks, Locals
<1>6. Locking'
  BY DEF Locking, Locals
<1>7. BalanceWhole'
  BY DEF BalanceWhole, Locals
<1>8. Picking'
  BY DEF Picking, TopBlocks, Height, Locals
<1>9. LinkOwed'
  BY DEF LinkOwed, Locals, Children, VerifiedChains, IsGenesis
<1>10. LevelOwed'
  BY DEF LevelOwed, Locals
<1>11. LedgerOwed'
  BY DEF LedgerOwed, Height, Locals
<1> QED
  BY <1>1, <1>2, <1>3, <1>4, <1>5, <1>6, <1>7, <1>8, <1>9, <1>10, <1>11

\* Verifying a block hands its link and its level to the walk.
LEMMA MarkVerifiedStep ==
  ASSUME IInv, NEW a \in Adder, MarkVerified(a)
  PROVE  IInv'
<1> USE BlockTreeAssumption DEF IInv, TypeOK, Labels, MarkVerified, Go, shared, money, local
<1>1. TypeOK'
  BY DEF TypeOK, Labels, Locals
<1>2. Locals'
  BY DEF Locals
<1>3. Children'
  BY DEF Children, Locals
<1>4. VerifiedChains'
  BY DEF VerifiedChains, ParentClosed, Locals
<1>5. TopIsVerified'
  BY DEF TopIsVerified, TopBlocks, Locals
<1>6. Locking'
  BY DEF Locking, Locals
<1>7. BalanceWhole'
  BY DEF BalanceWhole, Locals
<1>8. Picking'
  BY DEF Picking, TopBlocks, Height, Locals
<1>9. LinkOwed'
  BY DEF LinkOwed, Locals
<1>10. LevelOwed'
  BY DEF LevelOwed, Locals
<1>11. LedgerOwed'
  BY DEF LedgerOwed, Height, Locals
<1> QED
  BY <1>1, <1>2, <1>3, <1>4, <1>5, <1>6, <1>7, <1>8, <1>9, <1>10, <1>11

\* The walk goes on with the recorded child, which is one level higher.
LEMMA DescendStep ==
  ASSUME IInv, NEW a \in Adder, Descend(a)
  PROVE  IInv'
<1> USE BlockTreeAssumption DEF IInv, TypeOK, Labels, Descend, Go, shared, money, local
<1>1. TypeOK'
  BY DEF TypeOK, Labels, Locals
<1>2. Locals'
  BY DEF Locals, Children, VerifiedChains, IsGenesis
<1>3. Children'
  BY DEF Children, Locals
<1>4. VerifiedChains'
  BY DEF VerifiedChains, ParentClosed, Locals
<1>5. TopIsVerified'
  BY DEF TopIsVerified, TopBlocks, Locals
<1>6. Locking'
  BY DEF Locking, Locals
<1>7. BalanceWhole'
  BY DEF BalanceWhole, Locals
<1>8. Picking'
  BY DEF Picking, TopBlocks, Height, Locals
<1>9. LinkOwed'
  BY DEF LinkOwed, Locals
<1>10. LevelOwed'
    <2>1. child[at[a]] # NoBlock => Level[child[at[a]]] = Level[at[a]] + 1
    BY DEF Locals, Children, VerifiedChains
  <2> QED
    BY <2>1 DEF LevelOwed, Locals
<1>11. LedgerOwed'
  BY DEF LedgerOwed, Height, Locals
<1> QED
  BY <1>1, <1>2, <1>3, <1>4, <1>5, <1>6, <1>7, <1>8, <1>9, <1>10, <1>11

\* Raising maxLevel leaves the recomputation owed by the same goroutine.
LEMMA RaiseMaxLevelStep ==
  ASSUME IInv, NEW a \in Adder, RaiseMaxLevel(a)
  PROVE  IInv'
<1> USE BlockTreeAssumption DEF IInv, TypeOK, Labels, RaiseMaxLevel, Go, shared, money, local
<1>1. TypeOK'
  BY DEF TypeOK, Labels, Locals
<1>2. Locals'
  BY DEF Locals
<1>3. Children'
  BY DEF Children, Locals
<1>4. VerifiedChains'
  BY DEF VerifiedChains, ParentClosed, Locals
<1>5. TopIsVerified'
  BY DEF TopIsVerified, TopBlocks, Locals
<1>6. Locking'
  BY DEF Locking, Locals
<1>7. BalanceWhole'
  BY DEF BalanceWhole, Locals
<1>8. Picking'
  BY DEF Picking, TopBlocks, Height, Locals
<1>9. LinkOwed'
  BY DEF LinkOwed, Locals
<1>10. LevelOwed'
  BY DEF LevelOwed, Locals
<1>11. LedgerOwed'
  BY DEF LedgerOwed, Height, Locals
<1> QED
  BY <1>1, <1>2, <1>3, <1>4, <1>5, <1>6, <1>7, <1>8, <1>9, <1>10, <1>11

\* The lock is free when it is taken, so it has one holder.
LEMMA LockBalanceStep ==
  ASSUME IInv, NEW a \in Adder, LockBalance(a)
  PROVE  IInv'
<1> USE BlockTreeAssumption DEF IInv, TypeOK, Labels, LockBalance, Go, shared, money, local
<1>1. TypeOK'
  BY DEF TypeOK, Labels, Locals
<1>2. Locals'
  BY DEF Locals
<1>3. Children'
  BY DEF Children, Locals
<1>4. VerifiedChains'
  BY DEF VerifiedChains, ParentClosed, Locals
<1>5. TopIsVerified'
  BY DEF TopIsVerified, TopBlocks, Locals
<1>6. Locking'
  BY DEF Locking, Locals
<1>7. BalanceWhole'
  BY DEF BalanceWhole, Locals
<1>8. Picking'
  BY DEF Picking, TopBlocks, Height, Locals
<1>9. LinkOwed'
  BY DEF LinkOwed, Locals
<1>10. LevelOwed'
  BY DEF LevelOwed, Locals
<1>11. LedgerOwed'
  BY DEF LedgerOwed, Height, Locals
<1> QED
  BY <1>1, <1>2, <1>3, <1>4, <1>5, <1>6, <1>7, <1>8, <1>9, <1>10, <1>11

\* The level read has a verified block and covers what the balances show.
LEMMA ReadMaxLevelStep ==
  ASSUME IInv, NEW a \in Adder, ReadMaxLevel(a)
  PROVE  IInv'
<1> USE BlockTreeAssumption DEF IInv, TypeOK, Labels, ReadMaxLevel, Go, Release, Return, shared, money, local
<1>1. TypeOK'
  BY DEF TypeOK, Labels, Locals
<1>2. Locals'
  BY DEF Locals
<1>3. Children'
  BY DEF Children, Locals
<1>4. VerifiedChains'
  BY DEF VerifiedChains, ParentClosed, Locals
<1>5. TopIsVerified'
  BY DEF TopIsVerified, TopBlocks, Locals
<1>6. Locking'
  BY DEF Locking, Locals
<1>7. BalanceWhole'
  BY DEF BalanceWhole, Locals
<1>8. Picking'
  BY DEF Picking, TopIsVerified, TopBlocks, Height
<1>9. LinkOwed'
  BY DEF LinkOwed, Locals
<1>10. LevelOwed'
  BY DEF LevelOwed, Locals
<1>11. LedgerOwed'
  BY DEF LedgerOwed, Height, Locals
<1> QED
  BY <1>1, <1>2, <1>3, <1>4, <1>5, <1>6, <1>7, <1>8, <1>9, <1>10, <1>11

\* The chain of the block picked is complete, so maxLevel is not lowered and
\* the balances come to show the level that was read.
LEMMA PickTopStep ==
  ASSUME IInv, NEW a \in Adder, PickTop(a)
  PROVE  IInv'
<1> USE BlockTreeAssumption DEF IInv, TypeOK, Labels, Go, shared, money, local
<1>1. PICK b \in TopBlocks(top[a]) :
        /\ Release(a, IF Chain(b) \subseteq blocks THEN b ELSE NoBlock)
        /\ UNCHANGED maxLevel
  BY DEF PickTop, Picking
<1>2. /\ b \in verified /\ b \in levels /\ b \in blocks /\ b \in Block
      /\ Level[b] = top[a]
  BY DEF TopBlocks, VerifiedChains
<1>3. Chain(b) \subseteq blocks
  BY <1>2, ChainInClosed DEF VerifiedChains
<1>4. Release(a, b) /\ UNCHANGED shared
  BY <1>1, <1>3 DEF PickTop
<1>5. Height(shown) <= Level[b] /\ Height(b) = Level[b] /\ Level[b] \in Nat
  BY <1>2 DEF Picking, PickTop, Height
<1>6. Level[b] <= maxLevel
  BY <1>2 DEF Picking, PickTop, Height
<1> USE DEF Release, Return, PickTop
<1>7. TypeOK' /\ Locals' /\ Children' /\ VerifiedChains' /\ Locking' /\ BalanceWhole'
  BY <1>2, <1>4 DEF Locals, Children, VerifiedChains, ParentClosed, Locking, BalanceWhole
<1>8. TopIsVerified'
  BY <1>4 DEF TopIsVerified, TopBlocks
<1>9. Height(shown)' = Level[b]
  BY <1>4, <1>5 DEF Height
<1>10. Picking'
  <2>1. ASSUME NEW c \in Adder, pc'[c] = "pick" PROVE FALSE
    BY <2>1, <1>4 DEF Locking
  <2> QED
    BY <2>1, <1>4, <1>6, <1>9 DEF Picking
<1>11. LinkOwed'
  BY <1>4 DEF LinkOwed
<1>12. LevelOwed'
  BY <1>4 DEF LevelOwed
<1>13. LedgerOwed'
  <2>1. CASE Height(shown) >= maxLevel
    <3>1. Height(shown) \in Nat \cup {-1}
      BY HeightType
    <3> QED
      BY <3>1, <2>1, <1>4, <1>5, <1>9 DEF LedgerOwed
  <2>2. ASSUME NEW c \in Adder, c # a,
               pc[c] \in {"lock", "read"} \/ (pc[c] = "pick" /\ top[c] >= maxLevel)
        PROVE  LedgerOwed'
    BY <2>2, <1>4 DEF LedgerOwed
  <2>3. CASE pc[a] = "pick" /\ top[a] >= maxLevel
    BY <2>3, <1>2, <1>4, <1>9 DEF LedgerOwed
  <2> QED
    BY <2>1, <2>2, <2>3 DEF LedgerOwed
<1> QED
  BY <1>7, <1>8, <1>10, <1>11, <1>12, <1>13
----------------------------------------------------------------------------
\* Every step of every goroutine preserves the invariant.
LEMMA NextIInv ==
  ASSUME IInv, [Next]_vars
  PROVE  IInv'
<1>1. CASE UNCHANGED vars
  BY <1>1 DEF vars, shared, money, local, IInv, TypeOK, Locals, Children,
       VerifiedChains, ParentClosed, IsGenesis, TopIsVerified, TopBlocks, Locking,
       BalanceWhole, Picking, LinkOwed, LevelOwed, LedgerOwed, Height
<1>2. ASSUME NEW a \in Adder, NEW b \in Block, Call(a, b) PROVE IInv'
  BY <1>2, CallStep
<1>3. ASSUME NEW a \in Adder, Step(a) PROVE IInv'
  BY <1>3, RefuseStep, StoreBlockStep, IndexLevelStep, LinkParentStep, CheckParentStep,
     MarkVerifiedStep, DescendStep, RaiseMaxLevelStep, LockBalanceStep,
     ReadMaxLevelStep, PickTopStep DEF Step
<1> QED
  BY <1>1, <1>2, <1>3 DEF Next

\* The inductive invariant holds in every reachable state of Add.
THEOREM Invariant == Spec => []IInv
BY InitIInv, NextIInv, PTL DEF Spec

\* Every variable keeps its type, maxLevel never falls below -1.
THEOREM TypeCorrect == Spec => []TypeOK
BY Invariant, PTL DEF IInv

\* A verified block has its whole chain stored and verified.
THEOREM ChainsComplete == Spec => []VerifiedChains
BY Invariant, PTL DEF IInv

\* GetTopBlock finds a verified block at the level it reads first.
THEOREM TopExists == Spec => []TopIsVerified
BY Invariant, PTL DEF IInv

\* The holder of the lock of the balances never finds a half-made map.
THEOREM BalancesWhole == Spec => []BalanceWhole
BY Invariant, PTL DEF IInv

\* No recorded child of a verified block is forgotten.
THEOREM LinksFollowed == Spec => []NoLostLink
<1>1. IInv => NoLostLink
  BY DEF IInv, TypeOK, LinkOwed, NoLostLink, Quiet
<1> QED
  BY <1>1, Invariant, PTL

\* After the last call maxLevel is the highest verified level, and the
\* balances show a chain of that length.
THEOREM LevelsExact == Spec => []TopIsHighest
<1>1. ASSUME IInv, Quiet PROVE \A b \in verified : Level[b] <= maxLevel
  BY <1>1 DEF IInv, LevelOwed, Quiet
<1>2. ASSUME IInv, Quiet PROVE Height(shown) = maxLevel
  <2>1. Height(shown) >= maxLevel /\ Height(shown) <= maxLevel
    BY <1>2 DEF IInv, LedgerOwed, Picking, Quiet
  <2> QED
    BY <2>1, <1>2, HeightType DEF IInv, TypeOK
<1>3. IInv => TopIsHighest
  BY <1>1, <1>2 DEF TopIsHighest
<1> QED
  BY <1>3, Invariant, PTL
----------------------------------------------------------------------------
\* The balances change only in Release, to those of a verified chain that is at
\* least as long.
LEMMA ShownStep ==
  ASSUME IInv, [Next]_vars
  PROVE  \/ UNCHANGED shown
         \/ /\ UNCHANGED <<blocks, verified>>
            /\ shown' \in verified
            /\ Height(shown') >= Height(shown)
<1> USE BlockTreeAssumption DEF IInv, TypeOK
<1>1. CASE UNCHANGED vars
  BY <1>1 DEF vars, money
<1>2. ASSUME NEW a \in Adder, ReadMaxLevel(a) PROVE UNCHANGED shown
  <2>1. CASE maxLevel >= 0
    BY <2>1, <1>2 DEF ReadMaxLevel, money
  <2>2. CASE maxLevel < 0
    <3>1. Height(shown) < 0
      BY <2>2, HeightType DEF Picking
    <3> QED
      BY <3>1, <2>2, <1>2, HeightType DEF ReadMaxLevel, Release
  <2> QED
    BY <2>1, <2>2
<1>3. ASSUME NEW a \in Adder, PickTop(a)
      PROVE  /\ UNCHANGED <<blocks, verified>>
             /\ shown' \in verified
             /\ Height(shown') >= Height(shown)
  <2>1. PICK b \in TopBlocks(top[a]) :
          Release(a, IF Chain(b) \subseteq blocks THEN b ELSE NoBlock)
    BY <1>3 DEF PickTop, Picking
  <2>2. b \in verified /\ b \in blocks /\ b \in Block /\ Level[b] = top[a]
    BY DEF TopBlocks, VerifiedChains
  <2>3. Chain(b) \subseteq blocks
    BY <2>2, ChainInClosed DEF VerifiedChains
  <2>4. shown' = b
    BY <2>1, <2>3 DEF Release
  <2>5. Height(b) >= Height(shown)
    BY <2>2, <1>3 DEF PickTop, Picking, Height
  <2> QED
    BY <2>2, <2>4, <2>5, <1>3 DEF PickTop
<1>4. ASSUME NEW a \in Adder, NEW b \in Block, Call(a, b) PROVE UNCHANGED shown
  BY <1>4 DEF Call, money
<1>5. ASSUME NEW a \in Adder,
             \/ Refuse(a) \/ StoreBlock(a) \/ IndexLevel(a) \/ LinkParent(a)
             \/ CheckParent(a) \/ MarkVerified(a) \/ Descend(a) \/ RaiseMaxLevel(a) \/ LockBalance(a)
      PROVE  UNCHANGED shown
  BY <1>5 DEF Refuse, StoreBlock, IndexLevel, LinkParent, CheckParent, MarkVerified,
       Descend, RaiseMaxLevel, LockBalance, money
<1> QED
  BY <1>1, <1>2, <1>3, <1>4, <1>5 DEF Next, Step

\* The visible balances never go back to a shorter chain.
THEOREM LedgerNeverFalls == Spec => LedgerMonotone
<1>1. ASSUME IInv, [Next]_vars PROVE [Height(shown') >= Height(shown)]_vars
  <2>1. Height(shown) \in Nat \cup {-1}
    BY <1>1, HeightType DEF IInv, TypeOK
  <2> QED
    BY <2>1, <1>1, ShownStep
<1> QED
  BY <1>1, Invariant, PTL DEF Spec, LedgerMonotone

\* Every step of Add is a step of ChainView or leaves the view unchanged.
THEOREM ViewImplemented == Spec => ImplementsView
<1>1. Init => View!Init
  BY DEF Init, View!Init
<1>2. ASSUME IInv, [Next]_vars PROVE [View!Next]_View!vars
  <2> USE <1>2 DEF IInv, TypeOK
  <2>1. CASE UNCHANGED shown
    <3>1. ASSUME NEW a \in Adder, StoreBlock(a) PROVE [View!Next]_View!vars
      BY <2>1, <3>1 DEF StoreBlock, Locals, View!Next, View!Store, View!vars
    <3>2. ASSUME NEW a \in Adder, MarkVerified(a) PROVE [View!Next]_View!vars
      BY <2>1, <3>2 DEF MarkVerified, Locals, IsGenesis, View!Next,
           View!Confirm, View!IsGenesis, View!vars
    <3>3. ASSUME NEW a \in Adder,
                 \/ (\E b \in Block : Call(a, b)) \/ Refuse(a) \/ IndexLevel(a) \/ LinkParent(a) \/ CheckParent(a)
                 \/ Descend(a) \/ RaiseMaxLevel(a) \/ LockBalance(a)
                 \/ ReadMaxLevel(a) \/ PickTop(a)
          PROVE  UNCHANGED View!vars
      BY <2>1, <3>3 DEF Call, Refuse, IndexLevel, LinkParent, CheckParent, Descend,
           RaiseMaxLevel, LockBalance, ReadMaxLevel, PickTop, shared, View!vars
    <3>4. CASE UNCHANGED vars
      BY <3>4 DEF vars, shared, View!vars, money
    <3> QED
      BY <3>1, <3>2, <3>3, <3>4 DEF Next, Step
  <2>2. CASE ~ UNCHANGED shown
    <3>1. /\ UNCHANGED <<blocks, verified>>
          /\ shown' \in verified
          /\ Height(shown') >= Height(shown)
      BY <2>2, ShownStep
    <3>2. Chain(shown') \subseteq verified
      BY <3>1, ChainInClosed DEF VerifiedChains
    <3>3. View!Publish(shown')
      BY <3>1, <3>2 DEF View!Publish, Chain, ParentClosed, IsGenesis, Height,
         View!Chain, View!ParentClosed, View!IsGenesis, View!Height
    <3> QED
      BY <3>1, <3>3 DEF View!Next
  <2> QED
    BY <2>1, <2>2
<1> QED
  BY <1>1, <1>2, Invariant, PTL DEF Spec, ImplementsView, View!Spec
=============================================================================
