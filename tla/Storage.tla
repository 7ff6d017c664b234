------------------------------ MODULE Storage ------------------------------
(***************************************************************************)
(* HippoStorage.Add, run by several goroutines at once: the RPC handlers   *)
(* of incoming broadcasts, the callback of the miner and the overlapping   *)
(* rounds of SyncBlocks.  Every lock region, every operation on a sync.Map *)
(* and every read of a level is a step of its own, so the goroutines       *)
(* interleave wherever the code lets them.                                 *)
(*                                                                         *)
(* Abstractions.  A map keyed by hash is the set of its blocks; the level  *)
(* index is one set, of which {b : Level[b] = n} is the bucket of level n. *)
(* The list of children under a hash never grows beyond the first one (see *)
(* LinkParent), so it is that child or NoBlock.  Balances are named by the *)
(* top of the chain they were computed from (module Ledger has the         *)
(* amounts).  The last lines of Add, which cancel the miner, change        *)
(* nothing here and are in module Mining.                                  *)
(***************************************************************************)
EXTENDS BlockTree

CONSTANT Adder        \* the goroutines that call Add

ASSUME AdderAssumption == Adder # {}

VARIABLES
  blocks,       \* HippoStorage.blocks
  levels,       \* HippoStorage.levels
  child,        \* HippoStorage.child: the recorded child of a hash
  verified,     \* HippoStorage.verified
  maxLevel,     \* HippoStorage.maxLevel
  balance,      \* HippoStorage.balance: top of the chain applied, NoBlock if empty
  balanceLock,  \* {} or the goroutine that holds the lock of the balance
  pc,           \* where each goroutine is in Add
  adding,       \* the block it adds
  at,           \* hashKey of the innermost UpdateChild, NoBlock outside
  top           \* maxLevel as GetTopBlock last read it
\* The balances as the last holder of the lock left them: a history variable,
\* read by no action.
VARIABLE shown

shared == <<blocks, levels, child, verified, maxLevel>>
money  == <<balance, balanceLock, shown>>
local  == <<pc, adding, at, top>>
vars   == <<shared, money, local>>

Labels == {"idle", "store", "level", "link", "check", "mark", "descend",
           "raise", "lock", "read", "pick"}

Go(a, label) == pc' = [pc EXCEPT ![a] = label]

TypeOK ==
  /\ blocks \subseteq Block
  /\ levels \subseteq Block
  /\ verified \subseteq Block
  /\ child \in [Block \cup {NoBlock} -> Block \cup {NoBlock}]
  /\ maxLevel \in Nat \cup {-1}
  /\ balance \in Block \cup {NoBlock}
  /\ shown \in Block \cup {NoBlock}
  /\ balanceLock \in SUBSET Adder
  /\ pc \in [Adder -> Labels]
  /\ adding \in [Adder -> Block \cup {NoBlock}]
  /\ at \in [Adder -> Block \cup {NoBlock}]
  /\ top \in [Adder -> Nat \cup {-1}]

\* New: empty maps and maxLevel = -1.
Init ==
  /\ blocks = {} /\ levels = {} /\ verified = {}
  /\ child = [h \in Block \cup {NoBlock} |-> NoBlock]
  /\ maxLevel = -1
  /\ balance = NoBlock /\ shown = NoBlock /\ balanceLock = {}
  /\ pc = [a \in Adder |-> "idle"]
  /\ adding = [a \in Adder |-> NoBlock]
  /\ at = [a \in Adder |-> NoBlock]
  /\ top = [a \in Adder |-> -1]

\* Back to the caller: the locals of the call are gone.
Return(a) ==
  /\ Go(a, "idle")
  /\ adding' = [adding EXCEPT ![a] = NoBlock]
  /\ at' = [at EXCEPT ![a] = NoBlock]
  /\ top' = [top EXCEPT ![a] = -1]
----------------------------------------------------------------------------
\* Mistaken forms of the actions below, none of which Next uses: each shows
\* that a property notices the mistake (PROJECT.json, "mutants").

\* GetTopBlock without its test that the level is not negative.
ReadMaxLevelUnchecked(a) ==
  /\ pc[a] = "read"
  /\ Go(a, "pick")
  /\ top' = [top EXCEPT ![a] = maxLevel]
  /\ UNCHANGED <<shared, money, adding, at>>

\* Add without the test that the parent is verified.
CheckNothing(a) ==
  /\ pc[a] = "check"
  /\ Go(a, "mark") /\ at' = [at EXCEPT ![a] = adding[a]]
  /\ UNCHANGED <<shared, money, adding, top>>

\* Add that looks at the level of the block only.
CheckGenesisOnly(a) ==
  /\ pc[a] = "check"
  /\ IF IsGenesis(adding[a])
     THEN Go(a, "mark") /\ at' = [at EXCEPT ![a] = adding[a]]
     ELSE Go(a, "lock") /\ UNCHANGED at
  /\ UNCHANGED <<shared, money, adding, top>>

\* The level raised as soon as a block is indexed.
IndexAndRaise(a) ==
  /\ pc[a] = "level"
  /\ levels' = levels \cup {adding[a]}
  /\ maxLevel' = IF Level[adding[a]] > maxLevel THEN Level[adding[a]] ELSE maxLevel
  /\ Go(a, "link")
  /\ UNCHANGED <<blocks, child, verified, money, adding, at, top>>

\* TryUpdateMaxLevel called with the added block, not with the last one
\* UpdateChild came to.
RaiseToAdded(a) ==
  /\ pc[a] = "raise"
  /\ maxLevel' = IF Level[adding[a]] > maxLevel THEN Level[adding[a]] ELSE maxLevel
  /\ Go(a, "lock")
  /\ UNCHANGED <<blocks, levels, child, verified, money, adding, at, top>>

\* The balances recomputed without the lock.
NewWithoutLock(a) ==
  /\ pc[a] = "lock"
  /\ balance' = NoBlock
  /\ Go(a, "read")
  /\ UNCHANGED <<shared, shown, balanceLock, adding, at, top>>

\* A recomputation that does not unlock.
ReleaseNothing(a, b) ==
  /\ balance' = b
  /\ shown' = b
  /\ UNCHANGED balanceLock
  /\ Return(a)

\* GetTopBlock without its test that the block is verified.
AnyTopBlocks(level) == {b \in levels : Level[b] = level}
----------------------------------------------------------------------------
\* Add is called.
Call(a, b) ==
  /\ pc[a] = "idle"
  /\ Go(a, "store")
  /\ adding' = [adding EXCEPT ![a] = b]
  /\ UNCHANGED <<shared, money, at, top>>

\* The block fails Check: the call ends before anything is changed.
Refuse(a) ==
  /\ pc[a] = "store"
  /\ Return(a)
  /\ UNCHANGED <<shared, money>>

\* Under blockLock: a known block ends the call, a new one is stored.
StoreBlock(a) ==
  /\ pc[a] = "store"
  /\ IF adding[a] \in blocks
     THEN Return(a) /\ UNCHANGED blocks
     ELSE /\ blocks' = blocks \cup {adding[a]}
          /\ Go(a, "level")
          /\ UNCHANGED <<adding, at, top>>
  /\ UNCHANGED <<levels, child, verified, maxLevel, money>>

\* Under levelLock.
IndexLevel(a) ==
  /\ pc[a] = "level"
  /\ levels' = levels \cup {adding[a]}
  /\ Go(a, "link")
  /\ UNCHANGED <<blocks, child, verified, maxLevel, money, adding, at, top>>

\* LoadOrStore keeps a list that is already there, and the Store after it puts
\* back the list that was loaded, not the appended one: the first child to
\* arrive is the only one ever recorded.
LinkParent(a) ==
  /\ pc[a] = "link"
  /\ child' = IF child[Parent[adding[a]]] = NoBlock
              THEN [child EXCEPT ![Parent[adding[a]]] = adding[a]]
              ELSE child
  /\ Go(a, "check")
  /\ UNCHANGED <<blocks, levels, verified, maxLevel, money, adding, at, top>>

\* CheckVerified of the parent.
CheckParent(a) ==
  /\ pc[a] = "check"
  /\ IF IsGenesis(adding[a]) \/ Parent[adding[a]] \in verified
     THEN Go(a, "mark") /\ at' = [at EXCEPT ![a] = adding[a]]
     ELSE Go(a, "lock") /\ UNCHANGED at
  /\ UNCHANGED <<shared, money, adding, top>>

\* UpdateVerified, of the new block or of a child UpdateChild came to.
MarkVerified(a) ==
  /\ pc[a] = "mark"
  /\ verified' = verified \cup {at[a]}
  /\ Go(a, "descend")
  /\ UNCHANGED <<blocks, levels, child, maxLevel, money, adding, at, top>>

\* UpdateChild: load the child of the block just verified and go on with it;
\* a block without a recorded child is where the level is raised.
Descend(a) ==
  /\ pc[a] = "descend"
  /\ IF child[at[a]] = NoBlock
     THEN Go(a, "raise") /\ UNCHANGED at
     ELSE Go(a, "mark") /\ at' = [at EXCEPT ![a] = child[at[a]]]
  /\ UNCHANGED <<shared, money, adding, top>>

\* TryUpdateMaxLevel, under maxLevelLock.
RaiseMaxLevel(a) ==
  /\ pc[a] = "raise"
  /\ maxLevel' = IF Level[at[a]] > maxLevel THEN Level[at[a]] ELSE maxLevel
  /\ Go(a, "lock")
  /\ UNCHANGED <<blocks, levels, child, verified, money, adding, at, top>>

\* balance.Lock and balance.New, which empties the balances.
LockBalance(a) ==
  /\ pc[a] = "lock"
  /\ balanceLock = {}
  /\ balanceLock' = {a}
  /\ balance' = NoBlock
  /\ Go(a, "read")
  /\ UNCHANGED <<shared, shown, adding, at, top>>

\* balance.Unlock and the return from Add, the balances computed from the
\* chain that ends in b (NoBlock: from no chain).
Release(a, b) ==
  /\ balance' = b
  /\ shown' = b
  /\ balanceLock' = {}
  /\ Return(a)

\* GetTopBlock reads maxLevel.  Below 0 there is no top block, GetMainChain is
\* an empty chain and the balances stay empty.
ReadMaxLevel(a) ==
  /\ pc[a] = "read"
  /\ IF maxLevel >= 0
     THEN /\ Go(a, "pick")
          /\ top' = [top EXCEPT ![a] = maxLevel]
          /\ UNCHANGED <<money, adding, at>>
     ELSE Release(a, NoBlock)
  /\ UNCHANGED shared

TopBlocks(level) == {b \in levels \cap verified : Level[b] = level}

\* GetTopBlock ranges over a Go map, so any verified block of the level may be
\* the one it returns; with none it lowers maxLevel and tries again.  All
\* later reads are of maps that only grow, so the walk of GetMainChain is part
\* of the step: a block of the chain that is missing leaves the balances empty.
PickTop(a) ==
  /\ pc[a] = "pick"
  /\ IF TopBlocks(top[a]) = {}
     THEN /\ maxLevel' = maxLevel - 1
          /\ Go(a, "read")
          /\ UNCHANGED <<money, adding, at, top>>
     ELSE /\ \E b \in TopBlocks(top[a]) :
               Release(a, IF Chain(b) \subseteq blocks THEN b ELSE NoBlock)
          /\ UNCHANGED maxLevel
  /\ UNCHANGED <<blocks, levels, child, verified>>
----------------------------------------------------------------------------
\* A goroutine inside Add takes its next step.
Step(a) ==
  \/ Refuse(a) \/ StoreBlock(a) \/ IndexLevel(a) \/ LinkParent(a) \/ CheckParent(a)
  \/ MarkVerified(a) \/ Descend(a) \/ RaiseMaxLevel(a)
  \/ LockBalance(a) \/ ReadMaxLevel(a) \/ PickTop(a)

Next == \E a \in Adder : Step(a) \/ \E b \in Block : Call(a, b)

Spec == Init /\ [][Next]_vars

\* The scheduler lets every goroutine run, and a sync.Mutex that is released
\* again and again is eventually handed to each goroutine that waits for it
\* (Go's mutexes go into starvation mode).  Nobody has to call Add.
Fairness == \A a \in Adder : WF_vars(Step(a)) /\ SF_vars(LockBalance(a))

FairSpec == Spec /\ Fairness
----------------------------------------------------------------------------
Quiet == \A a \in Adder : pc[a] = "idle"

\* Every verified block is stored and has its parent verified: the walk of
\* GetMainChain never meets a hash it does not have, whatever order the blocks
\* of a chain arrive in.
VerifiedChains == verified \subseteq blocks \cap levels /\ ParentClosed(verified)

\* There is a verified block at the level GetTopBlock starts from.  The branch
\* that lowers maxLevel is for the case it is not so.
TopIsVerified == maxLevel >= 0 => TopBlocks(maxLevel) # {}

\* Nobody who takes the lock of the balances sees the emptied map of a
\* recomputation that is under way.
BalanceWhole == balanceLock = {} => balance = shown

\* The link to the first child and the check of its parent cannot miss each
\* other: when all calls are over, a recorded child of a verified block is
\* verified.
NoLostLink ==
  Quiet => \A p \in verified : child[p] # NoBlock => child[p] \in verified

\* When all calls are over maxLevel is the level of the highest verified block,
\* and the balances are those of a chain of that length.
TopIsHighest ==
  Quiet => /\ \A b \in verified : Level[b] <= maxLevel
           /\ Height(shown) = maxLevel

\* The balances never go back to a shorter chain, however the recomputations
\* of concurrent calls of Add follow each other.
LedgerMonotone == [][Height(shown') >= Height(shown)]_vars

\* Every call of Add comes to its end.
AddReturns == \A a \in Adder : pc[a] # "idle" ~> pc[a] = "idle"

\* A block that is verified is in the end counted: the balances come to be
\* those of a chain at least as long as its own.
LedgerCatchesUp ==
  \A b \in Block : b \in verified ~> Height(shown) >= Level[b]

\* The storage implements the view the rest of the host has of it.
View == INSTANCE ChainView WITH stored <- blocks, confirmed <- verified,
                                ledger <- shown
ImplementsView == View!Spec

\* UpdateChild "Update the child verification by tracing to its child"
\* (storage.go:265), and child holds lists of hashes (storage.go:53): once the
\* parent of a stored block is verified and all calls are over, the block is
\* verified.  The code does not keep this (MCStorageForks).
VerificationComplete ==
  Quiet => \A b \in blocks : Parent[b] \in verified => b \in verified
=============================================================================
