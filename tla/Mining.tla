------------------------------- MODULE Mining -------------------------------
(***************************************************************************)
(* The mining loop of a host: MiningQueue.main takes a block template from *)
(* a channel, solves it and hands the result to the callback; the watcher  *)
(* (HippoMining.WatchSendNewBlock) builds the next template on the top     *)
(* block; and every HippoStorage.Add ends by cancelling the running job    *)
(* when the block it added is as high as the top.  The variable            *)
(* storage.miningCancel that links the two is read and written by all of   *)
(* them without a lock.                                                    *)
(*                                                                         *)
(* Abstractions.  A block is its level.  Of what Add does to the storage   *)
(* only the level is here: it may be raised once, to that of the block or  *)
(* of a descendant that arrived before it (module Host has the storage     *)
(* itself and implements this one).  A cancel function is "current" if     *)
(* it belongs to the context of the present job and "old" if it belongs to *)
(* an earlier one, where calling it changes nothing.  Two calls go to      *)
(* other goroutines and may wait for them: the callback's broadcast-queue  *)
(* Add (Announce) and the watcher's Fetch.  That they return while the     *)
(* broadcast loop runs is shown by modules Broadcast and TransactionPool;  *)
(* once HippoHost.Close has ended the loop they may wait for ever.         *)
(***************************************************************************)
EXTENDS Integers, Sequences

CONSTANTS Peer,       \* goroutines other than the miner that call Add
          Miner,      \* MiningQueue.main, which calls Add in its callback
          Capacity,   \* of MiningQueue.channel, 30 in MiningQueue.New
          MaxHeight   \* bound: no block above this level is found or received

ASSUME MiningAssumption == /\ Miner \notin Peer
                           /\ Capacity \in Nat \ {0}
                           /\ MaxHeight \in Nat

Caller == Peer \cup {Miner}

VARIABLES
  channel,       \* MiningQueue.channel: the levels of the templates in it
  miner,         \* where main is
  job,           \* level of the block it solves
  done,          \* MiningQueue.context is cancelled
  closed,        \* MiningQueue.queueContext is cancelled
  hostClosed,    \* and HippoHost.ctx, so that the broadcast loop leaves
  watcher,       \* where WatchSendNewBlock is
  template,      \* level of the template it has built
  maxLevel,      \* HippoStorage.maxLevel
  miningCancel,  \* HippoStorage.miningCancel
  call,          \* where each caller is in Add
  level,         \* level of the block it adds
  crashed        \* a nil function was called: the process is gone

contexts == <<done, closed, hostClosed>>
queue    == <<channel, miner, job, contexts>>
watch    == <<watcher, template>>
storage  == <<maxLevel, miningCancel>>
calls    == <<call, level>>
vars     == <<queue, watch, storage, calls, crashed>>

Levels == 0 .. MaxHeight + 1

TypeOK ==
  /\ channel \in Seq(Levels) /\ Len(channel) <= Capacity
  /\ miner \in {"select", "register", "solve", "callback", "announce", "signal",
                "stopped"}
  /\ job \in Levels \cup {-1}
  /\ done \in BOOLEAN /\ closed \in BOOLEAN /\ hostClosed \in BOOLEAN
  /\ watcher \in {"poll", "length", "top", "fetch", "put", "stopped"}
  /\ template \in Levels \cup {-1}
  /\ maxLevel \in (0 .. MaxHeight) \cup {-1}
  /\ miningCancel \in {"nil", "old", "current"}
  /\ call \in [Caller -> {"idle", "store", "raised", "nil", "level", "fire", "clear"}]
  /\ level \in [Caller -> Levels \cup {-1}]
  /\ crashed \in BOOLEAN

\* HippoHost.Run has started main and the watcher and put the host's own
\* genesis block into the channel.
Init ==
  /\ channel = <<0>> /\ miner = "select" /\ job = -1
  /\ done = FALSE /\ closed = FALSE /\ hostClosed = FALSE
  /\ watcher = "poll" /\ template = -1
  /\ maxLevel = -1 /\ miningCancel = "nil"
  /\ call = [c \in Caller |-> "idle"]
  /\ level = [c \in Caller |-> -1]
  /\ crashed = FALSE

\* Where the goroutines are, as long as the process runs.
MinerAt(label) == miner = label /\ ~crashed
WatcherAt(label) == watcher = label /\ ~crashed
CallAt(c, label) == call[c] = label /\ ~crashed
----------------------------------------------------------------------------
\* Mistaken forms of the actions below, used by none of them: see "mutants" in
\* PROJECT.json.

\* A job whose context is made from the context of the host, not of the queue.
TakeJobDetached ==
  /\ MinerAt("select") /\ channel # <<>>
  /\ job' = Head(channel)
  /\ channel' = Tail(channel)
  /\ done' = FALSE
  /\ miningCancel' = IF miningCancel = "current" THEN "old" ELSE miningCancel
  /\ miner' = "register"
  /\ UNCHANGED <<closed, hostClosed, watch, maxLevel, calls, crashed>>

\* A cancelled job that does not report to the watcher.
GiveUpSilently ==
  /\ MinerAt("solve") /\ done
  /\ miner' = "select" /\ job' = -1
  /\ UNCHANGED <<channel, contexts, watch, storage, calls, crashed>>

\* An Add that calls the cancel function without the test for nil.
TestNothing(c) ==
  /\ CallAt(c, "nil")
  /\ call' = [call EXCEPT ![c] = "level"]
  /\ UNCHANGED <<queue, watch, storage, level, crashed>>

\* A watcher that goes on to build a template without having been told to.
BuildUntold ==
  /\ WatcherAt("poll")
  /\ watcher' = "length"
  /\ UNCHANGED <<queue, template, storage, calls, crashed>>

----------------------------------------------------------------------------
(* MiningQueue.main *)

\* The first case of the select: cancel the context before, make a new one
\* from queueContext (cancelled at once if that is).
TakeJob ==
  /\ MinerAt("select") /\ channel # <<>>
  /\ job' = Head(channel)
  /\ channel' = Tail(channel)
  /\ done' = closed
  /\ miningCancel' = IF miningCancel = "current" THEN "old" ELSE miningCancel
  /\ miner' = "register"
  /\ UNCHANGED <<closed, hostClosed, watch, maxLevel, calls, crashed>>

\* storage.SetMiningCancel(m.cancel).
Register ==
  /\ MinerAt("register")
  /\ miningCancel' = "current"
  /\ miner' = "solve"
  /\ UNCHANGED <<channel, job, contexts, watch, maxLevel, calls, crashed>>

\* Solve finds a nonce, perhaps after its context was cancelled, and the
\* callback adds the block.
Find ==
  /\ MinerAt("solve") /\ job <= MaxHeight
  /\ miner' = "callback"
  /\ call' = [call EXCEPT ![Miner] = "store"]
  /\ level' = [level EXCEPT ![Miner] = job]
  /\ UNCHANGED <<channel, job, contexts, watch, storage, crashed>>

\* mineBase notices the cancelled context; the callback has nothing to do.
GiveUp ==
  /\ MinerAt("solve") /\ done
  /\ miner' = "signal"
  /\ UNCHANGED <<channel, job, contexts, watch, storage, calls, crashed>>

\* Add has accepted the block (Refuse has main return at once).
CallbackReturns ==
  /\ MinerAt("callback") /\ call[Miner] = "idle"
  /\ miner' = "announce"
  /\ UNCHANGED <<channel, job, contexts, watch, storage, calls, crashed>>

\* The broadcast queue takes the block, as soon as it has room.
Announce ==
  /\ MinerAt("announce")
  /\ miner' = "signal"
  /\ UNCHANGED <<channel, job, contexts, watch, storage, calls, crashed>>

\* The second case of the select.
MinerStops ==
  /\ MinerAt("select") /\ closed
  /\ miner' = "stopped"
  /\ UNCHANGED <<channel, job, contexts, watch, storage, calls, crashed>>
----------------------------------------------------------------------------
(* WatchSendNewBlock *)

\* miningStatus has no buffer: main's send and the watcher's receive are one
\* step.  Nothing else receives from it, and main's send watches no context.
Status ==
  /\ MinerAt("signal") /\ WatcherAt("poll")
  /\ miner' = "select" /\ job' = -1
  /\ watcher' = "length"
  /\ UNCHANGED <<channel, contexts, template, storage, calls, crashed>>

\* The other case of the select.
WatcherStops ==
  /\ WatcherAt("poll") /\ closed
  /\ watcher' = "stopped"
  /\ UNCHANGED <<queue, template, storage, calls, crashed>>

CheckLength ==
  /\ WatcherAt("length")
  /\ watcher' = IF Len(channel) = 0 THEN "top" ELSE "poll"
  /\ UNCHANGED <<queue, template, storage, calls, crashed>>

\* GetTopBlock, tried again until there is a top block.
BuildTemplate ==
  /\ WatcherAt("top") /\ maxLevel >= 0
  /\ template' = maxLevel + 1
  /\ watcher' = "fetch"
  /\ UNCHANGED <<queue, storage, calls, crashed>>

\* m.Fetch gets the lock of the transaction pool, as soon as no Push holds it.
Fetch ==
  /\ WatcherAt("fetch")
  /\ watcher' = "put"
  /\ UNCHANGED <<queue, template, storage, calls, crashed>>

\* HippoMining.Mine.
Put ==
  /\ WatcherAt("put") /\ Len(channel) < Capacity
  /\ channel' = Append(channel, template)
  /\ watcher' = "poll" /\ template' = -1
  /\ UNCHANGED <<miner, job, contexts, storage, calls, crashed>>
----------------------------------------------------------------------------
(* HippoStorage.Add *)

At(c, label) == call' = [call EXCEPT ![c] = label]

Return(c) == At(c, "idle") /\ level' = [level EXCEPT ![c] = -1]

\* A block received from a peer: a new one, or one found while catching up.
Receive(c, l) ==
  /\ CallAt(c, "idle")
  /\ At(c, "store")
  /\ level' = [level EXCEPT ![c] = l]
  /\ UNCHANGED <<queue, watch, storage, crashed>>

\* Add returns false: to a peer's goroutine, or to the callback, which then
\* announces nothing.
ReturnFalse(c) ==
  /\ Return(c)
  /\ miner' = IF c = Miner THEN "signal" ELSE miner

\* The block fails Check or is stored already.
Refuse(c) ==
  /\ CallAt(c, "store")
  /\ ReturnFalse(c)
  /\ UNCHANGED <<channel, job, contexts, watch, storage, crashed>>

\* The parent of the block is verified: TryUpdateMaxLevel with the last block
\* UpdateChild came to.
Raise(c) ==
  /\ CallAt(c, "store")
  /\ \E m \in maxLevel .. MaxHeight : level[c] <= m /\ maxLevel' = m
  /\ At(c, "raised")
  /\ UNCHANGED <<queue, watch, miningCancel, level, crashed>>

\* The block is stored, verified or not, and the balances are computed.
Stored(c) ==
  /\ CallAt(c, "store") \/ CallAt(c, "raised")
  /\ At(c, "nil")
  /\ UNCHANGED <<queue, watch, storage, level, crashed>>

\* storage.miningCancel != nil
TestNil(c) ==
  /\ CallAt(c, "nil")
  /\ IF miningCancel # "nil" THEN At(c, "level") /\ UNCHANGED level ELSE Return(c)
  /\ UNCHANGED <<queue, watch, storage, crashed>>

CheckMiningCancel(l) == l > maxLevel

\* The block need not be verified, and its descendant may have become the top.
TestLevel(c) ==
  /\ CallAt(c, "level")
  /\ IF CheckMiningCancel(level[c] + 1) THEN At(c, "fire") /\ UNCHANGED level ELSE Return(c)
  /\ UNCHANGED <<queue, watch, storage, crashed>>

\* storage.miningCancel(): the variable is read a second time.
Fire(c) ==
  /\ CallAt(c, "fire")
  /\ IF miningCancel = "nil" THEN crashed' = TRUE ELSE UNCHANGED crashed
  /\ done' = (done \/ miningCancel = "current")
  /\ At(c, "clear")
  /\ UNCHANGED <<channel, miner, job, closed, hostClosed, watch, storage, level>>

\* storage.miningCancel = nil
Clear(c) ==
  /\ CallAt(c, "clear")
  /\ miningCancel' = "nil"
  /\ Return(c)
  /\ UNCHANGED <<queue, watch, maxLevel, crashed>>

AddStep(c) ==
  Refuse(c) \/ Raise(c) \/ Stored(c) \/ TestNil(c) \/ TestLevel(c) \/ Fire(c) \/ Clear(c)
----------------------------------------------------------------------------
\* HippoMining.Cancel.
Cancel ==
  /\ ~crashed
  /\ done' = TRUE
  /\ UNCHANGED <<channel, miner, job, closed, hostClosed, watch, storage, calls, crashed>>

\* HippoMining.Stop: queueContext is cancelled, the host goes on.
Stop ==
  /\ ~crashed /\ ~closed
  /\ closed' = TRUE /\ done' = TRUE
  /\ UNCHANGED <<hostClosed, channel, miner, job, watch, storage, calls, crashed>>

\* HippoHost.Close: all contexts derive from that of the host.
Close ==
  /\ ~crashed /\ ~hostClosed
  /\ hostClosed' = TRUE /\ closed' = TRUE /\ done' = TRUE
  /\ UNCHANGED <<channel, miner, job, watch, storage, calls, crashed>>

MinerStep == TakeJob \/ Register \/ GiveUp \/ CallbackReturns \/ MinerStops
WatcherStep == Status \/ WatcherStops \/ CheckLength \/ BuildTemplate \/ Put

Next ==
  \/ MinerStep \/ Find \/ Announce \/ WatcherStep \/ Fetch
  \/ Cancel \/ Stop \/ Close
  \/ \E c \in Caller : AddStep(c)
  \/ \E c \in Peer, l \in 0 .. MaxHeight : Receive(c, l)

Spec == Init /\ [][Next]_vars

\* The goroutines run, and a select takes any of its cases that are ready, by
\* chance, so that one of main and the watcher stops in the end if they can.  As
\* long as the broadcast loop runs the broadcast queue gets room and the lock of
\* the pool becomes free.  That a nonce is found is luck, and nobody has to send
\* blocks, to cancel or to stop.
Fairness == /\ WF_vars(MinerStep \/ (Announce /\ ~hostClosed))
            /\ WF_vars(WatcherStep \/ (Fetch /\ ~hostClosed))
            /\ SF_vars(MinerStops \/ WatcherStops)
            /\ \A c \in Caller : WF_vars(AddStep(c))

FairSpec == Spec /\ Fairness
----------------------------------------------------------------------------
\* There is one job in the host, in the channel, with main or with the watcher;
\* so the channel cannot fill up and main and the watcher cannot wait for each
\* other.
OneJob ==
  Len(channel) + (IF miner \in {"select", "stopped"} THEN 0 ELSE 1)
               + (IF watcher \in {"length", "top", "fetch", "put"} THEN 1 ELSE 0) = 1

\* No job outlives its queue: after Stop the running job is cancelled, whenever
\* it was started.
StopCancels == closed /\ miner = "solve" => done

\* While calls of Add do not overlap, the function that is called is the one
\* that was tested: a nil miningCancel takes a second call between the test
\* and the call, which clears it.
OneCall == \A c, d \in Caller : call[c] # "idle" /\ call[d] # "idle" => c = d

NilTakesTwo == []OneCall => []~crashed

\* Once the host has a top block mining goes on: there is always another job,
\* until Stop.
MiningGoesOn == (maxLevel >= 0 /\ miner # "solve") ~> (miner = "solve" \/ closed \/ crashed)

\* After Stop, once there is a top block, all work ends: no job is solved any
\* more, and the watcher leaves, unless the host is closed too and the pool's
\* lock is never free again.  It does not say that main returns: main waits
\* for ever with its last status if the watcher has left before it.
WorkEnds ==
  (closed /\ maxLevel >= 0) ~>
     [](crashed \/ /\ miner # "solve"
                   /\ watcher = "stopped" \/ (hostClosed /\ watcher = "fetch"))
=============================================================================
