# HippoCoin in TLA+

HippoCoin is a blockchain host in Go. This directory holds TLA+ modules of the
host's own logic, the TLC configurations that check them on small instances, and
TLAPS proofs of every invariant and action property the runs check.
Paths below are relative to the repository; the Go package is `host/`.

    tlasany Storage.tla                              parse
    tlc -config MCStorage.cfg MCStorage.tla          model-check
    tlapm StorageProofs.tla                          prove; also HostProofs,
                                                     TransactionPoolProofs, BroadcastProofs,
                                                     NetworkProofs, LedgerProofs,
                                                     ExchangeProofs, Sums

`PROJECT.json` lists the runs with their properties, the lines each definition
stands for, the mistakes each property is known to notice ("mutants"), the
hazards of the code and the disagreements found.

## 1. Inventory

A host is one process. Its parts are wired together in `host.go` and run in
these goroutines:

| goroutine | started in | what it does |
|---|---|---|
| miner | `MiningQueue.Run` | takes a template from a channel, solves it, adds and broadcasts the block |
| mining threads | `MultipleMiningFunction.Solve` | look for a nonce of one template |
| watcher | `HippoHost.Run` | after every job builds the next template on the top block |
| broadcast loop | `HippoBroadcastQueue.Run` | sends blocks and transactions to the neighbours |
| RPC handlers | net/rpc, one per call | check, store and pass on what neighbours send; answer queries |
| sync loop and rounds | `StartSyncBlocks` | every period one round of `SyncBlocks` per neighbour |
| neighbour loop | `SyncNeighbors` | asks the register, pings, evicts |
| call goroutines | `Ping`, `QueryLevel`, ... | one per call, left behind when the call takes too long |
| web interface | `ui.go` | renders getters; enters transactions |

| part | state | operations | hard behaviour | what makes it correct |
|---|---|---|---|---|
| storage (`storage.go`) | blocks by hash, index by level, children, verified hashes, `maxLevel`, `miningCancel` | `Add`, queries | several goroutines in `Add`, one lock per map, blocks in any order, balances recomputed under a lock of their own | verified chains are whole, the level is that of the highest verified block, balances are those of one whole chain and never fall back |
| balances (`balance.go`, `block.go`, `transaction.go`, `reward.go`) | amount per address | checks, changes per block | each transaction is checked by itself and against the top chain; a change may be left out; amounts are `uint64`, changes `int64`, and nothing tests for overflow | as far as amounts fit: no coin lost, nobody short, every transfer is made |
| transaction pool (`transaction-pool.go`) | heap, hashes, lock | `Push`, `Fetch` | the lock is held while waiting for a full channel | nothing lost, no hash without a transaction, everybody gets through |
| mining (`mining-queue.go`, `mining.go`) | channel of templates, status channel, contexts | take, solve, cancel, stop, build template | hand-over between two goroutines, cancel function shared without a lock | one job, cancelled when stopped, always another one |
| mining functions (`mining-functions.go`) | result, nonce, `once` | `Solve` | threads that find at the same time, cancel at the same time | what is returned was found, and first; it returns |
| broadcast (`broadcast-queue.go`, `rpc-server.go`) | two channels per host | send, receive, forward | full channels, circular waits, timeouts that leave handlers behind, hashes that `Fetch` deletes while copies are under way | broadcasts end once nothing is fetched, loops come back, everybody near is reached |
| catching up (`network.go`, `rpc-client.go`) | the window of a round | `SyncBlocks` | overlapping rounds, failed calls, refused blocks | rounds end and leave nothing behind |
| neighbours (`network.go`, `network-pool.go`) | table, one client per address | ping, evict, `Get`, `Update` | crashes and restarts, hung pings, clients closed in use | hosts that run are found, the table keeps its bound |
| transactions (`transaction.go`, `crypto.go`) | a record of addresses, amounts, signatures, fee | `SetSender`, `SetReceiver`, `UpdateFee`, `Sign`, `SetSignature`, checks, encoding | methods called in any order, sums that wrap around, senders named twice | what a host takes is signed by all its senders |
| blocks (`block.go`, `rpc-struct.go`) | hash, signature, nonce, difficulty, transactions | `Sign`, `Check`, `Encode`, `DecodeBlock`, `BasicDifficulty` | filled, signed, solved, encoded and checked in different places; clocks and balances that disagree; hashes that are shared | who finds a block and who receives it agree on it; blocks whose amounts fit move what is there; the difficulty moves by steps |
| configuration, logger, helpers | none that the others depend on | | | not modelled, see section 7 |

How they interact: the miner's callback and the RPC handlers call `storage.Add`;
`Add` calls the cancel function the miner has left in the storage; the miner and
the watcher exchange templates and status; the watcher fetches from the pool,
whose checks read the balances `Add` recomputes; `Push` and the callbacks fill
the channels of the broadcast loop, whose calls run handlers on other hosts;
rounds of `SyncBlocks` add what neighbours have stored; all calls use the clients
of one network pool.

## 2. Plan

Written, in this order of importance:

1. `BlockTree`, `ChainView`, `Storage`, `MCStorage`, `StorageProofs`
2. `Mining`, `Solve`
3. `Broadcast`, `MCBroadcast`, `BroadcastProofs`
4. `TransactionPool`, `TransactionPoolProofs`
5. `Ledger`, `Sums`, `LedgerProofs`
6. `Sync`, `MCSync`, `Neighbors`, `NetworkProofs`
7. `Host`, `MCHost`, `HostProofs`: `Mining` composed with `Storage`
8. `Transactions`, `Blocks`, `Exchange`, `MCExchange`, `ExchangeProofs`

Left:

1. The pool as a bag of what it has taken and not yet given up, an abstract
   specification that `TransactionPool` implements.
2. `Exchange` shown to build the tree of blocks that `BlockTree` assumes, as far as
   hashes are told apart.

Modules to be proved about use recursive functions and folds, not RECURSIVE.

## 3. Modules

**BlockTree** declares the blocks as a tree: `Parent`, `Level`, and the chain of
ancestors. **ChainView** is what the rest of a host may rely on: blocks get
stored, get confirmed with their ancestors, and a confirmed chain is published
that is only ever replaced by one that is at least as long.

**Storage** is `HippoStorage.Add`. Every region under a lock, every operation on
a `sync.Map` and every read of `maxLevel` is one action of one goroutine
(`Adder`), so `pc` names the place in `Add`: `store` (110-122), `level`
(124-132), `link` (134-142), `check` (144-152), `mark` and `descend`
(`UpdateVerified` and the recursion of `UpdateChild`), `raise`
(`TryUpdateMaxLevel`), `lock`, `read` and `pick` (the recomputation of the
balances with `GetMainChain` and `GetTopBlock`). A block that fails its check is
refused before anything changes. A balance map is named by the top of the chain
it was computed from. **MCStorage** gives the tree of the runs.

**Mining** is `MiningQueue.main`, `WatchSendNewBlock`, the callback, `Cancel`,
`Stop` and `HippoHost.Close`, with the last lines of `Add` step by step, since they
share `miningCancel`. A block is its level. Of the rest of `Add` there is one step,
`Raise`, that raises the level as far as a block of that level, with descendants
that arrived before it, may raise it, and `Stored`, which does nothing to it. Two
calls may wait for other goroutines: `Announce`, the callback's `Add` to the
broadcast queue, and `Fetch`, which takes the lock of the pool. After `Stop` the
rest of the host still runs and both return; after `Close` (`hostClosed`) the
broadcast loop is gone and nothing says that they do.

**Host** puts the two together: it has the variables and the mining actions of
`Mining`, an INSTANCE of `Storage` whose goroutines are the callers of `Mining`,
and the blocks behind the levels: `inChannel`, `solving`, `draft`. Each action is
one of either module or both: an `Add` starts in both at once, takes the steps of
`Storage`, and goes on with the tests of `miningCancel`. A template is a block of
this host on one that `GetTopBlock` may return, and peers send blocks of their
own or ours back. `ImplementsMining` is `Mining`'s `Spec`: what `Mining` says of
the level is what `Storage` does, so what is checked for `Mining` holds for the
host. **MCHost** gives the tree.

**Transactions** and **Blocks** are operators only: the methods of
`HippoTransaction` and `HippoBlock`, on records. A hash is what it is made from,
a signature is a key with what it is over, sums have `Width` bits. In particular
the hash of a block is made from its time, level and transactions
(`block.go:84-92`), and from nothing else.

**Exchange** is their use: a user calls the methods of a transaction in any
order, or fills in the form of the web interface (`TransferPost`, with
`ui.go`'s checks and without the ones it lacks), hosts pool it, build, sign and
solve blocks with clocks of their own, and everything that travels is encoded,
decoded and checked again. The watcher's two looks at the top block, one for the
parent and one for the interval, are two actions (`GetTopBlock`, `Build`). A
storage is the set of stored blocks, with or without their parents; `Verified` are
those whose ancestors are all there, and `Storage` has the steps. Every look at the
balances, for each transaction of a block and on each host, may find other ones
(`Balances`, `Looks`), so `Fetch` leaves transactions in the pool, a miner may be
refused its own block, and a receiver may refuse a block and take it later.
**MCExchange** gives the forms and the balances.

**Broadcast** is several hosts, each with two bounded channels, a loop that waits
for each call and the handlers of calls. The pool's lock is in it as far as
`Push` holds it while it waits for the channel, and so are its hashes (`pooled`):
`Fetch` deletes them, on hosts that mine, and a transaction that comes again is
then announced again, from level 0. `known` is what a host has ever got. The
network, who fails, who mines and what comes up is chosen in the initial state.

**TransactionPool** is `Push`, `PopUnsafe` and `Fetch` with the lock, and the
channel the lock waits for. Whether a sender can pay is open at every look.

**Ledger** is the arithmetic of blocks on competing chains, at a `Width`: amounts
and their sums are `uint64`, compared as such, changes of balances `int64`. The form
of the web interface makes huge amounts of negative ones (`ui.go:164-169, 201-206`),
and `CheckFee` compares sums that have wrapped around (`transaction.go:97-128`), so
both are in the model. `exact` and `fits` are history variables: what the chain
adds up to in whole numbers, and whether it all had its place in `int64`. Steps are
whole blocks; how calls of `Add` overlap is in `Storage`.

**Sync** is one host with several rounds of `SyncBlocks` over a fixed set of
neighbours' storages.

**Neighbors** is the neighbour loop, the goroutines of pings, queries and
broadcasts, the client of each address and the hosts that go down and come back.
What the register answers is an input.

**Solve** is one call of `MultipleMiningFunction.Solve`.

The proofs about a component are in a module of their own that extends it:
**StorageProofs**, **BroadcastProofs**, **TransactionPoolProofs**,
**LedgerProofs**, **ExchangeProofs**. **NetworkProofs** is about `Neighbors` and
`Sync`, the two parts of the network client; **HostProofs** about `Mining`, `Solve`,
which is the call main makes for its job, and `Host`. `Solve`, `Sync` and `Host` have
names of their own (`SolveSpec`, `SyncSpec`, `HostSpec`) so that a module can extend
them with another. **Sums** has the lemmas about sums over finite sets that `LedgerProofs`
and `ExchangeProofs` share.

Each module has a section of mistaken forms of its actions. No specification
uses them; replacing an action by its mistaken form makes the property named in
`PROJECT.json` fail, which shows that the property is about the code.

## 4. Runs

Bounds are the smallest that let the interesting cases happen.

| run | instance and why it is enough | shows |
|---|---|---|
| `storage` | a tree with a fork and chains of several levels, two goroutines: every race in `Add` is between two | types, `VerifiedChains`, `TopIsVerified`, `BalanceWhole`, `NoLostLink`, `TopIsHighest`, `LedgerMonotone`, that `Storage` implements `ChainView`, and with fairness `AddReturns` and `LedgerCatchesUp` |
| `storage_forks` | two children of one block | violation, section 5 |
| `host` | two genesis blocks, of this host and of a peer, and three blocks on them; one peer, heights up to 1: blocks arrive before their parents, at every step of the miner, while it adds its own | `OneJob`, `StopCancels`, `NilTakesTwo`, `MinedCounts`, `OwnLevelsRise`, that `Host` implements `Mining`, and with fairness `MiningGoesOn` and `WorkEnds` |
| `broadcast` | channels of one message; two hosts that both fail at times, with two blocks and a transaction: circles of full channels need no more; the same with a transaction alone, where both hosts mine and fetch twice in all: late copies and echoes meet pools that have forgotten them; and a diamond of four hosts, one of which fails: two paths to the same host | `HopsAddressed`, `GossipDies`, `LoopReturns`, `Reaches` |
| `pool` | two pushers, two transactions, a channel of one, heap of three | `HashPooled`, `NothingLost`, `PushReturns`, `FetchEnds` |
| `ledger` | two addresses, two chains of up to two blocks of up to two transfers, twelve bits, amounts of 0, 1000 and 3096, which is -1000 in `int64`: sums that wrap around, debits of receivers, changes that are left out, blocks checked against the balances of another chain that holds such amounts; the reward changes with every block | `NobodyShort`, `SupplyCovered` |
| `ledger_spent` | one chain of up to three blocks of one transfer of 0, 1 or 1000: all that fits | violation |
| `sync` | six levels with a fork, windows of two, two blocks that are refused, two overlapping rounds with a neighbour that answers and one that fails at times | `NothingLeftBehind`, `RoundEnds` |
| `sync_latest` | two neighbours, one of which has only the beginning, no failures | violation |
| `neighbors` | two addresses for a table of one, crashes and restarts, pings, a query and a broadcast | `TableBounded`, `FoundAgain` |
| `solve` | three threads, two nonces | `SolutionKept`, `StoredOnce`, `SolveReturns` |
| `exchange` | two users, one of whom may be named twice, two hosts that are interchangeable, amounts of five bits of which one sum wraps around to what the senders pay, two balances, one where the second user has nothing left, two blocks with transactions or three without, clocks that show 0 or 1, an easiest difficulty two steps from 0: blocks that make coins, blocks of two transactions, blocks that some accept and others refuse, both boundaries of the difficulty, intervals of -1, 0 and 1, and two blocks with one hash are reached | `SenderOnce`, `Conserved`, `OnlyBalancesRefuse`, `LevelsFit`, `DifficultySteps` |

The state modules have a type invariant each (`TypeOK`, `SolveTypeOK`,
`SyncTypeOK`); the run `storage` checks the one of `Storage`, and it is proved there
and, as a part of the inductive invariant, for `Mining`, `Solve`, `Neighbors`,
`Sync`, `TransactionPool`, `Broadcast` and `Ledger`.

Deadlock is checked except where a system really comes to rest: the mining loop
after a stop, broadcasts that are over, chains at their bound, a `Solve` that
has returned.

Named bounds: `MaxHeight` (Mining, Host, Ledger), `MaxBlocks` and `Drafting`
(Exchange: blocks that are found, one less if there are transactions, fewer
transactions than that number, and a user who is done before the first block),
`MaxFetches` (Broadcast: how often hashes are deleted), `Width` of Transactions (5)
and of Ledger (12; 64 in the code), `MaxBytes` and `GenesisBytes` (2,
255 and 235 in the code), `MaxTransactions`, `MaxHeap` (no push
into a longer heap), `Round` and `Pinger` (goroutines at a time), `Capacity`
(channels, smaller than in the code so that they fill up), `Width` of Sync (2, 5 in the
code), `Era` (1, 1000 in the code). `MaxLevel` is a parameter of the code.

### Fairness

Go's scheduler lets every runnable goroutine run: weak fairness for each
goroutine's steps. A `sync.Mutex` is handed to a goroutine that has waited for
long (starvation mode), hence strong fairness for taking a lock (`LockBalance`,
`PushLocked`, `FetchLock`). A `select` with several ready cases takes one by
chance, hence strong fairness for the cases that end a loop (`MinerStops`,
`WatcherStops`). Contexts with a timeout are done in the end
(`Timeout` of `Broadcast`), and calls on a dead connection fail in the end
(`HungFails`, part of a goroutine's steps). Loops with a period come round again
and again (`SyncBlocks`, strong because all goroutines may be busy; `Refresh`,
where it also says that the register again and again gives all addresses). That the broadcast queue gets room and the pool's
lock becomes free is what `LoopReturns` and `FetchEnds` show of a host that runs, so
`Announce` and `Fetch` of `Mining` are fair until the host is closed
(`~hostClosed`), and not after. No fairness is assumed of anything that luck or others decide: finding a nonce,
receiving, entering, cancelling, stopping, crashing, restarting.

## 5. Where the code does something else than it says

| run | what happens |
|---|---|
| `storage_forks` | `storage.go:139-141` appends the new child to one variable and stores the other: a second child that came before its parent is never verified |
| `ledger_spent` | a sender who spends everything keeps it (`balance.go:102`), while the receivers get theirs |
| `sync_latest` | a round ends at a window that others have fetched already (`network.go:507`), so with a neighbour that has only the beginning the rest may never come |

Behaviour that is in the models, reachable in them, and that no run states a
property about:

- `Mining`: after a stop the watcher may leave first, and `main` then waits for
  ever at `mining-queue.go:100`; the wait group is not released, although
  `mining_test.go:38-50, 86-93, 130-140` call `Stop` and then wait for the group. So
  no property says that `main` returns. `WorkEnds` says what is left: that no job is
  solved any more and the watcher leaves.
- `Mining`: after `HippoHost.Close` the broadcast loop has left
  (`broadcast-queue.go:78`), so the callback's `Add` to the broadcast queue
  (`mining-queue.go:176`) can wait for ever for room in its channel, and the
  watcher's `Fetch` (`mining.go:129`) for the pool's lock, which a `Push` holds that
  waits for such room (`transaction-pool.go:75`). `WorkEnds` allows the second and
  does not speak of the first, where no job is solved either.
- `Exchange`: two hosts that mine blocks of one level and the same transactions
  (none, say) in one second have two blocks with one hash; each storage keeps
  the one it got first, and the children of either are taken for children of
  both. `LevelsFit` says that levels are right all the same.
- `Exchange`: a transaction that names a sender twice can be made, and signed by
  everybody, but no host ever takes it.
- `Blocks`: the difficulty can fall to 0, where no template is ever solved
  (`Solvable`).
- `Mining`, `Host`: a job that is overtaken need not be cancelled. `Add` compares the
  level of the block it was called with to `maxLevel` as it is then
  (`storage.go:180-181, 201`), but the block may have lifted a stored child to the top
  (`storage.go:148`): the parent arrives late, the child is the top, as high as the job
  or higher, and the job goes on. One peer is enough; with two, another call may have
  raised `maxLevel` in between as well. On the other hand a block that is not
  verified cancels a job. So there is no property about jobs that are overtaken;
  `ImplementsMining` says which levels an `Add` may raise to, and `MinedCounts` and
  `OwnLevelsRise` what holds of the blocks all the same.
- `Mining`: `storage.go:180-183` tests, calls and clears the cancel function
  without a lock, so with two calls of `Add` at a time a nil function can be called
  (`crashed`). `NilTakesTwo` says that it takes two.
- `Broadcast`: `PopUnsafe` deletes the hash of what it takes
  (`transaction-pool.go:99`), so a copy that comes late, or as an echo, is pooled and
  announced again with nobody addressed. As long as hosts fetch, gossip about one
  transaction may go on; `GossipDies` bounds the fetches.
- `Ledger`, `Exchange`: receivers whose amounts sum to more than 2^64 pass `CheckFee`
  and make coins. A receiver with an amount of 2^63 or more is debited without having
  signed, or, if nothing would be left, not debited, and then what others pay is lost.
  `NobodyShort` and `SupplyCovered` are about chains whose amounts fit in `int64`,
  `Conserved` about such blocks. The others are in the models, but the code keeps no
  promise about them.
- `Exchange`: a block that was found can be refused, by its own miner too, for
  balances that have changed since `Fetch` or are others on another host, whose top
  chain may be another one. `OnlyBalancesRefuse` says that nothing else gets in the
  way.
- `Storage`: a block is indexed although the level below it is empty, against
  the comment at `storage.go:47`.
- `TransactionPool`: transactions sent back by `Fetch` lose their hash and can be
  pooled twice.
- `Neighbors`: a ping and a query can go on closing each other's client
  (`network-pool.go:65`), and each failed ping deletes the neighbour, so a host
  that runs need not stay a neighbour.

## 6. Proofs

All invariants and action properties of the passing runs are theorems, for every
value of the constants that the assumptions below allow. Each component has an
inductive invariant, `IInv` unless another name is given, whose parts are named
after what they say; the paragraphs below say what they add to the properties and
why these need it.

### Storage

`StorageProofs` proves, for every tree of blocks and every set of goroutines, all
properties the run `storage` checks but the two that need fairness. It assumes `BlockTreeAssumption` (every
block but a genesis block has a parent one level below; that the block a host has
under the hash of the parent is one level below is `LevelsFit` of `Exchange`, and
that blocks are told apart by their hashes is an abstraction, see section 5) and `AdderAssumption` (there is a
goroutine).

The properties are not inductive. `IInv` adds what each goroutine in `Add` still
has to do:

- `Locals`: a goroutine works on a stored block, and outside of `UpdateChild` on
  no other;
- `Children`: a recorded child is an indexed block of that parent;
- `Locking`, `Picking`: who holds the lock of the balances, and what it has read;
- `LinkOwed`: a recorded child of a verified block is verified, or somebody is
  about to check or to descend to it;
- `LevelOwed`: a verified block is no higher than `maxLevel`, or somebody
  is on the way from it to the place where the level is raised;
- `LedgerOwed`: the published balances are as high as `maxLevel`, or somebody
  has yet to take the lock or to read the level, or has read one as high.

There is one lemma per action for `IInv /\ [Next]_vars => IInv'`. `NoLostLink`
and `TopIsHighest` follow since nobody owes anything when all calls are over.
`LedgerNeverFalls` is an action property: only the holder of the lock publishes,
a chain as high as `maxLevel` was when it read it, and that is no lower than
what was published before. `ViewImplemented` maps `blocks`, `verified` and
`shown` to the variables of `ChainView` and each action to a step or a stutter.

`TopExists` says that the branch of `GetTopBlock` that decrements `maxLevel` is
never taken.

### Mining and Solve

`HostProofs` begins with `Mining`: `TypeOK`, `OneJob` and `StopCancels`, for every
set of peers, capacity and height (`MiningAssumption`). `IInv` adds `Templates` (a
template that waits to be put has a level) and `Closing`, which is why
`StopCancels` holds: on a closed queue the context is done from the moment `main`
has taken a job, although its cancel function is registered later.

`NilTakesTwo` says that a nil cancel function is only called when two calls of `Add`
overlap. It is an implication between two `[]`s, proved with `Tested`: a call past
its test of `miningCancel`, that has not cleared it, finds it set. Every step keeps
this while no other call is under way (`TestedKept`), also those of `main`, which
only ever sets it.

Of `Solve`, `Nonces` says who may have a nonce: a thread that ended with one has
been to `once.Do`, and the one stored is a thread's. So what is returned was found
(`SolutionIsKept`) and is not replaced (`SolutionIsFirst`), for any number of
threads and nonces.

### Host

The second half of `HostProofs` is about the composition: for every forest of
blocks and every choice of the blocks the host signs (`OwnAssumption`: at most one
on a parent, and one on every block below `MaxHeight`, the bound). `HInv` is the
conjunction of the invariants of `Mining` and of `Storage` (an INSTANCE of
`StorageProofs`, whose lemmas are used as they are), of `Jobs`, by which the blocks
of `inChannel`, `solving` and `draft` have the levels `Mining` has for them, and of
`Calls`, by which the steps of `Storage` in an `Add` come before the tests of
`miningCancel` and `UpdateChild` only goes up. Each step of `Host` is then one of
`Storage` (`StepIsStorage`) and one of `Mining` (`StepIsMining`), or a stutter
there; `Mining`'s bound on what a `Raise` may do needs `Calls`, and that nothing
else changes the level needs `Picking` of `Storage`. `HostRunsStorage` and
`MiningImplemented` are the two refinements, `HostJobs` and
`HostCrashNeedsTwo` what follows for the jobs and the cancel function.

`MinedCounts` and `OwnLevelsRise` are not inductive: `OInv` says in `JobsFresh` that
a block to come has a verified parent and is higher than all own blocks stored,
from the template through the channel to the solver; in `Progress` what the
callback's `Add` has achieved at each of its points; and in `OwnStored` that the own
blocks stored are no higher than the top, but for the one being added, and that
peers only send own blocks that are stored. That all this stays true while others
add rests on `NothingLost` (blocks, verifications, the level and the height of the
balances never go back) and on `OneJob` (no template is about while the callback
runs).

### Transaction pool

`TransactionPoolProofs`, for any pushers, transactions, heap and channel. `Locking`
and `Pushing` say who holds the lock and what a pusher inside of `Push` has done.
`HashPooled` speaks of a pool nobody is inside of; the stronger `HashInHeap` holds at
all times, since every step that takes a transaction out of the heap takes its
hash too. `NothingLost` is inductive together with these, by what `Append`,
concatenation and the removal of the last element leave in a sequence
(`ToSetAppend`, `ToSetConcat`, `FrontAndLast`). `AnnouncedTaken`, that only
transactions in the pool reach the broadcast queue, comes with them.

### Broadcast

`BroadcastProofs`, for every network, item, capacity and `maxBroadcastLevel`.
`HopsAddressed` is not inductive, since a message that is passed on gains a hop: a
loop adds to the addresses before it sends, at least one and none that was there,
so a message under way (`Sending`, `Handling`) has paid one address ahead
(`PaidAhead`) and one in a channel (`Queued`) no more than it owes. `Handling`
excepts the calls of a host to itself, which only announce, with no hop made.
`AwaitedOnce` is about the bag of handlers: a loop that waits is waited for by
exactly one handler, in one copy, and a loop that has timed out by none, so a late
answer ends nobody else's wait. It needs `Lose`, `Timeout` and the end of a handler
each to touch only the handlers of one caller (`BagAdd`, `BagRemove`). All three hold
with any number of fetches, since a transaction that is announced again starts
without addresses and on level 0.

### Ledger

`LedgerProofs`, for every finite set of addresses, any amounts, chains, numbers of
transactions and width. `TypeCorrect` says that no balance is negative or beyond
`int64`, whatever wraps around. The rest is under conditions the code does not
check: the chain `fits`, that is no transaction of it gives more than it takes in whole
numbers, and every change and balance has its place in `int64`. The other chains,
and the balances a block is checked against, need not fit. Then `NobodyShort` is
inductive: what is converted stays what it is (`Int64Value`), and an update leaves
out only what it would take away (`UpdateGrows`). `SupplyCovered` is not: it follows
from `NobodyShort` (`SumGrows`) and from `ExactIsMinted`, by which what the
transactions and rewards give to all addresses together, in whole numbers, is the
rewards alone. For the step of a block that is the sum of a table by rows (what an
address gets from each transaction) and by columns (what a transaction gives to
everybody, which is nothing but its fee to the miner): `SumSwap`. `RewardsAreAll` is
about `GetBalanceChange` itself, for any amounts: if what each address ends up with
fits, the `int64` changes sum up to the reward, although amounts, sums and fees have
wrapped around on the way.

### Network

The first part of `NetworkProofs` is `Neighbors`, for any addresses and goroutines.
`TableBounded` needs `Calling`: a goroutine that uses a pooled client finds one
there although any other may close and replace it, and only the loop evicts.
The second part is `Sync`, for any neighbours, blocks, width of the window and
number of overlapping rounds (`SyncAssumption`). `NothingLeftBehind` speaks of the
levels below a window; `InWindow` says that in the window each block of the
neighbour is stored, refused or still in the hands of the round, and so nothing is
left when it moves on. `Below` needs no more than that the storage only grows.

### Exchange

`ExchangeProofs`, for all keys, hosts, forms, clocks, widths of numbers and
bounds, and any balances at any time. `IInv` has three parts. `TransfersSigned`: what
is in a draft, a pool or on its way was made by the methods of `HippoTransaction` in some order, so that a
second place of an address is never signed (`FilledFirst`: `SetSignature` fills the
first place of the address, whatever was there), and what is pooled passes the
checks that need no balance. `BlocksSigned`: what is stored, mined, found or sent is a
block signed by its miner over the hash it has, and the hash it builds on is that of
a block one level below. `OfHosts`: who has a pool and a storage. Then

- `SendersDiffer`: a transaction all whose places are signed has no place twice;
- `LevelsBuildUp`: the level is a part of the hash, so also a block that shares its
  hash with the parent is one level below;
- `BlocksAreAccepted`: `DecodeBlock` undoes `EncodeBlock` on signed blocks, and a
  check of such a block only finds out whether its senders can pay (`SolvedIsPaid`),
  so two hosts that see the same balances accept the same blocks;
- `DifficultyMovesByOne`: `BasicDifficulty` moves one step and stays in its range,
  whatever parent and interval it is given (`RateStep`);
- `CoinsAreKept`: the changes of a block sum up to its reward, in whole numbers, if
  all it names fits together in `int64` (`Volume`). The fee it came with, the fee that
  is computed again and the changes are all modulo `2 ^ Width`. `Congruent` numbers
  are those that `Wrap` makes one. Each change is congruent to what the block moves in
  whole numbers, which is no more than it names and together nothing but the reward
  (`TransferMoves`); as `Volume` fits, the change is that number itself
  (`SignedValue`, `CongruentSigns`). An
  address's places on both sides are grouped by `SumGroups`; the block is a table
  again (`ChangesAreReward`).

### Sums

The theorems of the library for induction take an operator as a parameter, which
the provers cannot instantiate. `Sums` does without them: `SubsetInduction` is
about a set of sets, and is proved from the least number of members a
counterexample could have, which exists since `<` on the naturals is well-founded.
From it follow that `SumFunctionOnSet`, a fold of the community modules, is well
defined, independent of the order, additive, monotone and the same by rows and by
columns. That signing all places signs every place (`SignAllMakes`) is proved in
the same way.

### What is assumed

The constants are only assumed to be what the code makes them, in the ASSUMEs of
the modules, which TLC evaluates on each run: sets of keys, addresses and hosts are
finite (`IsFiniteSet`), since they are summed over and counted; forms and balances hold
numbers the fields can hold; clocks are integers; a missing signature is none. That
`2 ^ Width` is twice a positive number is assumed because the provers know nothing of
powers.

### What is only model-checked

All liveness (`AddReturns`, `LedgerCatchesUp`, `MiningGoesOn`, `WorkEnds`,
`GossipDies`, `LoopReturns`, `Reaches`, `PushReturns`, `FetchEnds`, `RoundEnds`,
`FoundAgain`, `SolveReturns`): fairness and ENABLED are beyond the prover. No module
uses RECURSIVE operators.

## 7. Not modelled

- The arithmetic of SHA-256 and ECDSA and the formats of keys (`crypto.go`):
  hashes of different texts differ, nobody signs for another key. In the modules
  other than `Exchange` equal hashes mean equal blocks.
- The text of JSON and gob; `ReceiveBlock.Decode` and `QueryResponse.Decode`,
  which only a test or nothing calls.
- Transactions that arrive while blocks are mined, in `Exchange` (their user is
  done before); which balances a host has when, in `Exchange`: they are any of
  `Balances` at each look. How blocks make them is in `Ledger`.
- The register, a service of another repository; configuration, logging, test
  fixtures, the pages of the web interface that only show something: no state the
  other parts depend on.
- A full neighbour table, whose neighbours are never pinged again
  (`network.go:217`): `FoundAgain` takes a full table as good enough.
- Jobs that are overtaken without being cancelled, and `main` after `Stop`, are in
  the models, but no property claims anything of them (section 5).
