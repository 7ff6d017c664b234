-------------------------------- MODULE Host --------------------------------
(***************************************************************************)
(* A host at work: the mining loop of module Mining on the storage of      *)
(* module Storage.  Mining knows blocks by their levels and an Add as one  *)
(* raise of the level; here every call of Add takes the steps of Storage,  *)
(* and the jobs of the miner are blocks: a template is a new block of this *)
(* host on a block that GetTopBlock returned, and peers send blocks of     *)
(* their own or send ours back.  What Mining assumes of the storage is a   *)
(* property of this module, ImplementsMining.                              *)
(***************************************************************************)
EXTENDS Mining, BlockTree

CONSTANT Own          \* the blocks this host signs: it builds at most one
                      \* on a parent, its genesis block included

ASSUME OwnAssumption ==
  /\ Own \subseteq Block
  /\ \E b \in Own : IsGenesis(b)
  /\ \A b, c \in Own : Parent[b] = Parent[c] => b = c
  /\ \A b \in Block : Level[b] <= MaxHeight
  /\ \A b \in Block : Level[b] < MaxHeight => \E c \in Own : Parent[c] = b

VARIABLES
  blocks, levels, child, verified, balance, balanceLock, shown,
  pc, adding, at, top,                                 \* of module Storage
  inChannel,  \* the blocks that MiningQueue.channel holds
  solving,    \* the block main works on, NoBlock above MaxHeight
  draft       \* the block of the watcher's template

S == INSTANCE Storage WITH Adder <- Caller

jobs     == <<inChannel, solving, draft>>
adds     == <<blocks, levels, child, verified, balance, balanceLock, shown,
              pc, adding, at, top>>
hostVars == <<vars, adds, jobs>>

Genesis == CHOOSE b \in Own : IsGenesis(b)

HostInit ==
  /\ Init /\ S!Init
  /\ inChannel = <<Genesis>> /\ solving = NoBlock /\ draft = NoBlock
----------------------------------------------------------------------------
\* Mistaken forms of the actions below, used by none of them: see "mutants" in
\* PROJECT.json.

\* A template on some verified block, not on one of the top level.
BuildOnVerified ==
  /\ WatcherAt("top")
  /\ \E b \in Own \ blocks :
       Parent[b] \in verified /\ draft' = b /\ template' = Level[b]
  /\ watcher' = "fetch"
  /\ UNCHANGED <<queue, storage, calls, crashed, adds, inChannel, solving>>

\* A template on a block of the top level that may not be verified yet.
BuildOnIndexed ==
  /\ BuildTemplate
  /\ \E b \in Own \ blocks :
       Parent[b] \in levels /\ Level[b] = maxLevel + 1 /\ draft' = b
  /\ UNCHANGED <<adds, inChannel, solving>>

\* TryUpdateMaxLevel that stores the level without comparing it.
RaiseUnchecked(c) ==
  /\ CallAt(c, "store") /\ pc[c] = "raise"
  /\ maxLevel' = Level[at[c]]
  /\ At(c, "raised")
  /\ S!Go(c, "lock")
  /\ UNCHANGED <<blocks, levels, child, verified, balance, balanceLock, shown, adding, at, top>>
  /\ UNCHANGED <<queue, watch, miningCancel, level, crashed, jobs>>
----------------------------------------------------------------------------
(* The miner and the watcher: actions of Mining, and the blocks in them *)

HostTakeJob ==
  /\ TakeJob
  /\ solving' = Head(inChannel)
  /\ inChannel' = Tail(inChannel)
  /\ UNCHANGED <<adds, draft>>

\* The callback passes the solved block to Add.
HostFind ==
  /\ Find
  /\ S!Call(Miner, solving)
  /\ UNCHANGED jobs

\* The steps that handle no block.
HostMinerSignals ==
  /\ Register \/ GiveUp \/ CallbackReturns \/ MinerStops
  /\ UNCHANGED <<adds, jobs>>

HostAnnounce == Announce /\ UNCHANGED <<adds, jobs>>

HostWatches ==
  /\ CheckLength \/ WatcherStops
  /\ UNCHANGED <<adds, jobs>>

HostStatus ==
  /\ Status
  /\ solving' = NoBlock
  /\ UNCHANGED <<adds, inChannel, draft>>

\* GetTopBlock may return any verified block of the top level; the template is
\* a block that did not exist before.
HostBuildTemplate ==
  /\ BuildTemplate
  /\ \E parent \in S!TopBlocks(maxLevel) :
       IF maxLevel = MaxHeight THEN draft' = NoBlock
       ELSE \E b \in Own \ blocks : Parent[b] = parent /\ draft' = b
  /\ UNCHANGED <<adds, inChannel, solving>>

HostFetch == Fetch /\ UNCHANGED <<adds, jobs>>

HostPut ==
  /\ Put
  /\ inChannel' = Append(inChannel, draft)
  /\ draft' = NoBlock
  /\ UNCHANGED <<adds, solving>>
----------------------------------------------------------------------------
(* HippoStorage.Add: the steps of Storage, then those of Mining *)

OursBelow == [b \in Block |-> Chain(b) \cap Own]

\* A peer sends a block, its own or one it has from here; it builds on blocks
\* of this host once they exist.
HostReceive(c, b) ==
  /\ OursBelow[b] \subseteq blocks
  /\ Receive(c, Level[b])
  /\ S!Call(c, b)
  /\ UNCHANGED jobs

\* The block fails Check.
HostRefuse(c) ==
  /\ Refuse(c)
  /\ S!Refuse(c)
  /\ UNCHANGED jobs

HostStoreBlock(c) ==
  /\ CallAt(c, "store")
  /\ S!StoreBlock(c)
  /\ IF adding[c] \in blocks THEN ReturnFalse(c) ELSE UNCHANGED <<calls, miner>>
  /\ UNCHANGED <<channel, job, contexts, watch, storage, crashed, jobs>>

\* The steps of Add that neither touch the level nor end it.
HostIndex(c) ==
  /\ CallAt(c, "store") \/ CallAt(c, "raised")
  /\ \/ S!IndexLevel(c) \/ S!LinkParent(c) \/ S!CheckParent(c)
     \/ S!MarkVerified(c) \/ S!Descend(c) \/ S!LockBalance(c)
  /\ UNCHANGED <<vars, jobs>>

HostRaise(c) ==
  /\ CallAt(c, "store")
  /\ S!RaiseMaxLevel(c)
  /\ At(c, "raised")
  /\ UNCHANGED <<queue, watch, miningCancel, level, crashed, jobs>>

\* The last step of Storage's Add is where the tests of miningCancel begin.
HostBalance(c) ==
  /\ CallAt(c, "store") \/ CallAt(c, "raised")
  /\ S!ReadMaxLevel(c) \/ S!PickTop(c)
  /\ IF pc'[c] = "idle" THEN At(c, "nil") ELSE UNCHANGED call
  /\ UNCHANGED <<queue, watch, miningCancel, level, crashed, jobs>>

HostCancelMiner(c) ==
  /\ TestNil(c) \/ TestLevel(c) \/ Fire(c) \/ Clear(c)
  /\ UNCHANGED <<adds, jobs>>

HostAddStep(c) ==
  \/ HostRefuse(c) \/ HostStoreBlock(c) \/ HostIndex(c) \/ HostRaise(c)
  \/ HostBalance(c) \/ HostCancelMiner(c)
----------------------------------------------------------------------------
\* The user's Cancel, Stop and Close.
HostControl ==
  /\ Cancel \/ Stop \/ Close
  /\ UNCHANGED <<adds, jobs>>

HostMinerStep == HostTakeJob \/ HostMinerSignals
HostWatcherStep == HostStatus \/ HostWatches \/ HostBuildTemplate \/ HostPut

HostNext ==
  \/ HostMinerStep \/ HostFind \/ HostAnnounce
  \/ HostWatcherStep \/ HostFetch \/ HostControl
  \/ \E c \in Caller : HostAddStep(c)
  \/ \E c \in Peer, b \in Block : HostReceive(c, b)

HostSpec == HostInit /\ [][HostNext]_hostVars

\* As in Mining.  The lock of the balances is taken once for each block that is
\* stored, so on a finite tree it is free in the end without strong fairness.
HostFairness ==
  /\ WF_hostVars(HostMinerStep \/ (HostAnnounce /\ ~hostClosed))
  /\ WF_hostVars(HostWatcherStep \/ (HostFetch /\ ~hostClosed))
  /\ SF_hostVars((MinerStops \/ WatcherStops) /\ UNCHANGED <<adds, jobs>>)
  /\ \A c \in Caller : WF_hostVars(HostAddStep(c))

FairHostSpec == HostSpec /\ HostFairness
----------------------------------------------------------------------------
\* The storage is to the miner what Mining says: an Add raises the level once,
\* never lowers it, and to no less than the level of its block; so what the
\* miner promises under Mining it promises with the real storage below it.
ImplementsMining == Spec

\* A block the host found counts at once, whatever arrived while it was solved:
\* when its Add has stored it it is verified, the top is as high, and the
\* balances are those of a chain as long.
MinedCounts ==
  call[Miner] \in {"nil", "level", "fire", "clear"} =>
    /\ solving \in verified
    /\ Level[solving] <= maxLevel
    /\ Height(shown) >= Level[solving]

\* The host never signs two blocks of one level into its storage, and each is
\* higher than all it stored before: no template is built on a top that was
\* read before an own block raised it.
OwnLevelsRise ==
  [][\A b \in Own \cap (blocks' \ blocks) :
        \A x \in Own \cap blocks : Level[x] < Level[b]]_hostVars
=============================================================================
