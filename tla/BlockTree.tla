----------------------------- MODULE BlockTree -----------------------------
(***************************************************************************)
(* The blocks that exist, their parents and their levels.  A host mines    *)
(* its own genesis block when it starts (host.go, CreateGenesisBlock), so  *)
(* the blocks form a forest: a block without a parent is a genesis block.  *)
(* A block stands for its hash: two blocks of this module have different   *)
(* digests.                                                                *)
(***************************************************************************)
EXTENDS Integers

CONSTANTS Block,     \* the blocks, each named by its hash
          NoBlock,   \* the empty parent hash of a genesis block
          Parent,    \* HippoBlock.PreviousHash
          Level      \* HippoBlock.Level

\* What WatchSendNewBlock and CreateGenesisBlock give every block an honest
\* host signs: no parent and level 0, or the level after its parent's.
ASSUME BlockTreeAssumption ==
  /\ NoBlock \notin Block
  /\ Parent \in [Block -> Block \cup {NoBlock}]
  /\ Level \in [Block -> Nat]
  /\ \A b \in Block : IF Parent[b] = NoBlock THEN Level[b] = 0
                                             ELSE Level[b] = Level[Parent[b]] + 1

IsGenesis(b) == Parent[b] = NoBlock

ParentClosed(S) == \A b \in S : IsGenesis(b) \/ Parent[b] \in S

\* The chain from b down to its genesis block: what GetMainChain collects by
\* following the parent hash, stated as the least set of blocks that holds b
\* and the parent of each of its members.
Chain(b) ==
  {x \in Block : \A S \in SUBSET Block : b \in S /\ ParentClosed(S) => x \in S}

\* The level of a block, and -1 for "no block", as HippoStorage.maxLevel
\* counts.
Height(b) == IF b = NoBlock THEN -1 ELSE Level[b]
=============================================================================
