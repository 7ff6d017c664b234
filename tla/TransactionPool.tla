-------------------------- MODULE TransactionPool --------------------------
(***************************************************************************)
(* The pool of transactions that wait for a block.  RPC handlers and the   *)
(* user interface push into it, the watcher of module Mining fetches from  *)
(* it.  Its lock is held while Push waits for room in the channel of the   *)
(* broadcast queue.                                                        *)
(*                                                                         *)
(* Abstractions.  A transaction is its hash.  Whether one is too old, and  *)
(* whether the senders can pay it now, depends on the clock and on the     *)
(* balances of other goroutines: every outcome is possible at every look.  *)
(* The heap is only used through its own Push and Pop, which work on the   *)
(* end of a slice: it is a stack.                                          *)
(***************************************************************************)
EXTENDS Integers, Sequences, SequencesExt

CONSTANTS Tx,
          Pusher,        \* goroutines that call Push
          Miner,         \* the watcher, which calls Fetch
          Nobody,
          BlockCapacity, \* HippoMining.blockCapacity
          Capacity,      \* of the channel of the broadcast queue, 10 in its New
          MaxHeap        \* bound: no push into a longer heap

ASSUME PoolAssumption == /\ Miner \notin Pusher
                         /\ Nobody \notin Pusher \cup {Miner}
                         /\ BlockCapacity \in Nat \ {0}
                         /\ Capacity \in Nat \ {0}
                         /\ MaxHeap \in Nat

VARIABLES
  heap,      \* the transactions, the last one pushed at the end
  hash,      \* the hashes Push takes for pooled
  lock,      \* who holds the lock of the pool
  channel,   \* announced transactions the broadcast loop has not taken yet
  pc,        \* where each pusher is in Push
  pushing,   \* its transaction, Nobody outside of Push
  fetching,  \* where the watcher is
  result,    \* what Fetch has put into the template, kept until it is mined
  back       \* sendBackTransactions
\* History variables: the transactions the pool ever took, and those it has given
\* up, mined or lost with their template, or too old.
VARIABLES accepted, gone

history == <<accepted, gone>>
vars == <<heap, hash, lock, channel, pc, pushing, fetching, result, back, history>>

TypeOK ==
  /\ heap \in Seq(Tx) /\ hash \subseteq Tx
  /\ lock \in Pusher \cup {Miner, Nobody}
  /\ channel \in Seq(Tx) /\ Len(channel) <= Capacity
  /\ pc \in [Pusher -> {"idle", "lock", "announce"}]
  /\ pushing \in [Pusher -> Tx \cup {Nobody}]
  /\ fetching \in {"idle", "pop", "mine"}
  /\ result \in Seq(Tx) /\ Len(result) <= BlockCapacity
  /\ back \in Seq(Tx)
  /\ accepted \subseteq Tx /\ gone \subseteq Tx

Init ==
  /\ heap = <<>> /\ hash = {} /\ lock = Nobody /\ channel = <<>>
  /\ pc = [p \in Pusher |-> "idle"] /\ pushing = [p \in Pusher |-> Nobody]
  /\ fetching = "idle" /\ result = <<>> /\ back = <<>>
  /\ accepted = {} /\ gone = {}
----------------------------------------------------------------------------
\* Mistaken forms of the actions below, used by none of them: see "mutants" in
\* PROJECT.json.

\* A push that enters the hash and forgets the heap.
PushHashOnly(p) ==
  /\ pc[p] = "lock" /\ lock = Nobody
  /\ hash' = hash \cup {pushing[p]}
  /\ lock' = p
  /\ pc' = [pc EXCEPT ![p] = "announce"]
  /\ UNCHANGED <<heap, channel, pushing, fetching, result, back, history>>

\* A fetch that drops what cannot be paid now.
FetchForgetsBack ==
  /\ fetching = "pop" /\ (Len(result) = BlockCapacity \/ heap = <<>>)
  /\ back' = <<>>
  /\ lock' = Nobody /\ fetching' = "mine"
  /\ UNCHANGED <<heap, hash, channel, pc, pushing, result, history>>

\* A fetch that puts what cannot be paid now back at once, below the others.
FetchPopAgain ==
  /\ fetching = "pop" /\ Len(result) < BlockCapacity /\ heap # <<>>
  /\ \/ heap' = <<Last(heap)>> \o Front(heap) /\ UNCHANGED result
     \/ heap' = Front(heap) /\ result' = Append(result, Last(heap))
  /\ hash' = hash \ {Last(heap)}
  /\ UNCHANGED <<lock, channel, pc, pushing, fetching, back, history>>

\* A broadcast loop that looks at the pool for every transaction.
TakeLocked ==
  /\ lock = Nobody
  /\ channel # <<>> /\ channel' = Tail(channel)
  /\ UNCHANGED <<heap, hash, lock, pc, pushing, fetching, result, back, history>>
----------------------------------------------------------------------------
(* Push *)

\* CheckWithoutBalance passes; otherwise Push has returned already.
Push(p, t) ==
  /\ pc[p] = "idle"
  /\ pc' = [pc EXCEPT ![p] = "lock"]
  /\ pushing' = [pushing EXCEPT ![p] = t]
  /\ UNCHANGED <<heap, hash, lock, channel, fetching, result, back, history>>

Return(p) ==
  /\ pc' = [pc EXCEPT ![p] = "idle"]
  /\ pushing' = [pushing EXCEPT ![p] = Nobody]

\* Lock, and for a hash that is not pooled, add the transaction and keep the
\* lock for the announcement.
PushLocked(p) ==
  /\ pc[p] = "lock" /\ lock = Nobody
  /\ IF pushing[p] \in hash
     THEN Return(p) /\ UNCHANGED <<heap, hash, lock, history>>
     ELSE /\ Len(heap) < MaxHeap
          /\ heap' = Append(heap, pushing[p])
          /\ hash' = hash \cup {pushing[p]}
          /\ accepted' = accepted \cup {pushing[p]}
          /\ gone' = gone \ {pushing[p]}
          /\ lock' = p
          /\ pc' = [pc EXCEPT ![p] = "announce"]
          /\ UNCHANGED pushing
  /\ UNCHANGED <<channel, fetching, result, back>>

\* AddTransaction waits for room; the deferred Unlock.
Announce(p) ==
  /\ pc[p] = "announce" /\ Len(channel) < Capacity
  /\ channel' = Append(channel, pushing[p])
  /\ lock' = Nobody
  /\ Return(p)
  /\ UNCHANGED <<heap, hash, fetching, result, back, history>>

\* The broadcast loop, which never takes the lock of the pool.
Take ==
  /\ channel # <<>> /\ channel' = Tail(channel)
  /\ UNCHANGED <<heap, hash, lock, pc, pushing, fetching, result, back, history>>
----------------------------------------------------------------------------
(* Fetch *)

FetchLock ==
  /\ fetching = "idle" /\ lock = Nobody
  /\ lock' = Miner /\ fetching' = "pop"
  /\ UNCHANGED <<heap, hash, channel, pc, pushing, result, back, history>>

RoomInBlock == Len(result) < BlockCapacity

\* PopUnsafe takes the transaction out of the heap and its hash out of the
\* map.  One checkFunc refuses is dropped, one that cannot be paid now is kept
\* aside, any other goes into the block.
FetchPop ==
  /\ fetching = "pop" /\ RoomInBlock /\ heap # <<>>
  /\ heap' = Front(heap)
  /\ hash' = hash \ {Last(heap)}
  /\ \/ gone' = gone \cup {Last(heap)} /\ UNCHANGED <<result, back>>
     \/ back' = Append(back, Last(heap)) /\ UNCHANGED <<result, gone>>
     \/ result' = Append(result, Last(heap)) /\ UNCHANGED <<back, gone>>
  /\ UNCHANGED <<lock, channel, pc, pushing, fetching, accepted>>

\* What was kept aside goes back to the heap; its hashes stay out of the map.
FetchReturn ==
  /\ fetching = "pop" /\ (~RoomInBlock \/ heap = <<>>)
  /\ heap' = heap \o back
  /\ back' = <<>>
  /\ lock' = Nobody /\ fetching' = "mine"
  /\ UNCHANGED <<hash, channel, pc, pushing, result, history>>

\* The block is found, or the job is cancelled and the template forgotten: the
\* transactions come back to the pool in neither case (minedHash of HippoMining
\* is never written, so they may also be pushed and mined again).
EndJob ==
  /\ fetching = "mine"
  /\ gone' = gone \cup ToSet(result)
  /\ result' = <<>>
  /\ fetching' = "idle"
  /\ UNCHANGED <<heap, hash, lock, channel, pc, pushing, back, accepted>>
----------------------------------------------------------------------------
FetchStep == FetchLock \/ FetchPop \/ FetchReturn
PushStep(p) == PushLocked(p) \/ Announce(p)

Next ==
  \/ \E p \in Pusher : PushStep(p) \/ \E t \in Tx : Push(p, t)
  \/ Take \/ FetchStep \/ EndJob

Spec == Init /\ [][Next]_vars

\* The lock is a sync.Mutex, handed to each waiter in the end; the broadcast
\* loop returns to its channels (LoopReturns of module Broadcast) and a job is
\* solved or cancelled when the watcher wants the lock again.
FairSpec ==
  /\ Spec
  /\ \A p \in Pusher : WF_vars(Announce(p)) /\ SF_vars(PushLocked(p))
  /\ WF_vars(Take) /\ WF_vars(FetchPop \/ FetchReturn) /\ SF_vars(FetchLock)
----------------------------------------------------------------------------
\* When nobody is inside the pool, every hash in the map belongs to a
\* transaction in the heap: no transaction is refused as pooled that Fetch will
\* never see.
HashPooled == lock = Nobody => hash \subseteq ToSet(heap)

\* A transaction that was pushed and not given up is in the heap or on its way
\* through Fetch.
NothingLost ==
  accepted \subseteq ToSet(heap) \cup ToSet(result) \cup ToSet(back) \cup gone

\* A push comes to its end although it waits for the channel with the pool
\* locked, and although others fetch and push all the time.
PushReturns == \A p \in Pusher : pc[p] = "announce" ~> pc[p] = "idle"

\* The watcher gets at the pool and out of it again.
FetchEnds == fetching # "mine" ~> fetching = "mine"
=============================================================================
