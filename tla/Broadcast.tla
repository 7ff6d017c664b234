----------------------------- MODULE Broadcast -----------------------------
(***************************************************************************)
(* The broadcast of blocks and transactions between hosts.  Every host     *)
(* runs one loop (HippoBroadcastQueue.Run) that takes a message from one   *)
(* of two bounded channels and calls its neighbours one after the other;   *)
(* every call runs a handler on the neighbour's side, which stores what it *)
(* got and puts it, with the level raised, into the neighbour's own        *)
(* channels - waiting there if they are full.  A call that takes too long  *)
(* is given up by the caller; its handler goes on.                         *)
(*                                                                         *)
(* Abstractions.  A block or a transaction is a member of Item that every  *)
(* host decodes to the same thing (module Blocks).  A host's neighbours do *)
(* not change (their table is in module Neighbors): the network is one of  *)
(* a few, chosen at the start.  Each call has a goroutine of its own on    *)
(* both sides (net/rpc).  Of the transaction pool (module TransactionPool) *)
(* only its lock and its hashes are here: Fetch deletes hashes, and what   *)
(* comes again later is pooled and announced again.                        *)
(***************************************************************************)
EXTENDS Integers, Sequences, FiniteSets, Bags

CONSTANTS
  Host,
  Network,            \* networks: NetworkClient.GetNeighbors of each host, the
                      \* items that come up, the hosts that calls may not reach
                      \* and that may refuse blocks, and the hosts that mine;
                      \* every call may take too long
  Block, Transaction, \* what is broadcast
  Origin,             \* the host where each of them comes from
  Capacity,           \* of the two channels, 10 in HippoBroadcastQueue.New
  MaxLevel,           \* HippoBroadcastQueue.maxBroadcastLevel
  MaxFetches          \* bound: so often are hashes deleted from a pool

Item == Block \cup Transaction

ASSUME BroadcastAssumption ==
  /\ IsFiniteSet(Host)
  /\ Network \subseteq [neighbors : [Host -> SUBSET Host], items : SUBSET Item,
                        failing : SUBSET Host, miners : SUBSET Host]
  /\ Block \cap Transaction = {}
  /\ Origin \in [Item -> Host]
  /\ Capacity \in Nat \ {0}
  /\ MaxLevel \in Nat
  /\ MaxFetches \in Nat

VARIABLES
  channel,   \* the two channels of each host, by kind
  sending,   \* what its loop is sending: the message, the hosts still to call
             \* and whether it waits for a call
  handlers,  \* the handlers that run, a bag of records
  known,     \* the items each host ever got: its storage, and what was pooled
  pooled,    \* HippoTransactionPool.hash of each host
  locked,    \* the hosts whose transaction pool is locked
  fetches,   \* how often hashes were deleted
  unborn     \* the items nobody has mined or entered yet
VARIABLE network   \* the network, chosen at the start

pools == <<pooled, locked, fetches>>
vars == <<channel, sending, handlers, known, pools, unborn>>

Neighbors(n) == network.neighbors[n]
Failing == network.failing

Kind == {"block", "transaction"}
KindOf(i) == IF i \in Block THEN "block" ELSE "transaction"

Message == [item : Item, level : 0 .. MaxLevel, addresses : SUBSET Host]

\* A handler runs at a host for a caller; a local caller (the miner's
\* callback, the user interface) has the host itself as from.  awaited: the
\* loop of from still waits for it.
Handler == [at : Host, from : Host, msg : Message, awaited : BOOLEAN,
            stage : {"receive", "announce", "forward"}]

Idle == [left |-> {}, waiting |-> FALSE]

TypeOK ==
  /\ channel \in [Host -> [Kind -> Seq(Message)]]
  /\ \A n \in Host, k \in Kind : Len(channel[n][k]) <= Capacity
  /\ sending \in [Host -> {Idle} \cup [msg : Message, left : SUBSET Host,
                                       waiting : BOOLEAN]]
  /\ IsABag(handlers) /\ BagToSet(handlers) \subseteq Handler
  /\ known \in [Host -> SUBSET Item]
  /\ pooled \in [Host -> SUBSET Transaction]
  /\ locked \subseteq Host
  /\ fetches \in 0 .. MaxFetches
  /\ unborn \subseteq Item
  /\ network \in Network

Init ==
  /\ network \in Network
  /\ channel = [n \in Host |-> [k \in Kind |-> <<>>]]
  /\ sending = [n \in Host |-> Idle]
  /\ handlers = EmptyBag
  /\ known = [n \in Host |-> {}]
  /\ pooled = [n \in Host |-> {}]
  /\ locked = {} /\ fetches = 0
  /\ unborn = network.items

Start(h) == handlers' = handlers (+) SetToBag({h})
Move(h, stage) ==
  handlers' = (handlers (-) SetToBag({h})) (+) SetToBag({[h EXCEPT !.stage = stage]})

\* The loop of host n after one of its calls: with nobody left it is idle.
AfterCall(s) == IF s.left = {} THEN Idle ELSE [s EXCEPT !.waiting = FALSE]

\* The handler ends; the loop that waits for it goes on.
Finish(h) ==
  /\ handlers' = handlers (-) SetToBag({h})
  /\ sending' = IF h.awaited THEN [sending EXCEPT ![h.from] = AfterCall(@)] ELSE sending
----------------------------------------------------------------------------
\* Mistaken forms of what follows, used by none of it: see "mutants" in
\* PROJECT.json.

\* Targets that are not added to the addresses of the message.
AddressedNobody(m, n) == m

\* A loop that waits for every call until it is answered.
WaitForever(n) == FALSE

\* A loop that sends to its neighbours only what nobody else was sent.
FreshOnly(m, n) == IF m.addresses = {} THEN Neighbors(n) \ {n} ELSE {}

\* Push without its test that the pool has the transaction.
ReceiveAnyTransaction(h) ==
  /\ h.stage = "receive" /\ h.msg.item \in Transaction
  /\ h.at \notin locked
  /\ known' = [known EXCEPT ![h.at] = @ \cup {h.msg.item}]
  /\ pooled' = [pooled EXCEPT ![h.at] = @ \cup {h.msg.item}]
  /\ locked' = locked \cup {h.at}
  /\ Move(h, "announce")
  /\ UNCHANGED <<channel, sending, fetches, unborn>>
----------------------------------------------------------------------------
(* Where items come from *)

\* A block mined here: MiningCallbackBroadcastSave has added it to the storage.
MineBlock(i) ==
  /\ i \in unborn \cap Block
  /\ unborn' = unborn \ {i}
  /\ known' = [known EXCEPT ![Origin[i]] = @ \cup {i}]
  /\ Start([at |-> Origin[i], from |-> Origin[i], awaited |-> FALSE, stage |-> "announce",
            msg |-> [item |-> i, level |-> 0, addresses |-> {}]])
  /\ UNCHANGED <<channel, sending, pools>>

\* What Push does with a transaction whose hash is not pooled; the pool stays
\* locked until the transaction is in the channel.
PoolTransaction(n, i) ==
  /\ known' = [known EXCEPT ![n] = @ \cup {i}]
  /\ pooled' = [pooled EXCEPT ![n] = @ \cup {i}]
  /\ locked' = locked \cup {n}

\* TransactionPool.Push of a transaction entered here.
EnterTransaction(i) ==
  /\ i \in unborn \cap Transaction
  /\ Origin[i] \notin locked
  /\ unborn' = unborn \ {i}
  /\ IF i \in pooled[Origin[i]]
     THEN UNCHANGED <<known, pooled, locked, handlers>>
     ELSE /\ PoolTransaction(Origin[i], i)
          /\ Start([at |-> Origin[i], from |-> Origin[i], awaited |-> FALSE,
                    stage |-> "announce",
                    msg |-> [item |-> i, level |-> 0, addresses |-> {}]])
  /\ UNCHANGED <<channel, sending, fetches>>

\* TransactionPool.Fetch for a template: PopUnsafe deletes the hashes, also of
\* what is sent back to the heap because it cannot be paid now.
Fetch(n) ==
  /\ n \in network.miners \ locked /\ fetches < MaxFetches
  /\ \E popped \in SUBSET pooled[n] \ {{}} :
       pooled' = [pooled EXCEPT ![n] = @ \ popped]
  /\ fetches' = fetches + 1
  /\ UNCHANGED <<channel, sending, handlers, known, locked, unborn>>
----------------------------------------------------------------------------
(* Handlers, P2PServer.BroadcastBlock and BroadcastTransaction *)

\* block.Check passes: the block is added, and goes on whatever Add says.
ReceiveBlock(h) ==
  /\ h.stage = "receive" /\ h.msg.item \in Block
  /\ known' = [known EXCEPT ![h.at] = @ \cup {h.msg.item}]
  /\ Move(h, "forward")
  /\ UNCHANGED <<channel, sending, pools, unborn>>

\* block.Check fails: the handler replies and that is all.
RefuseBlock(h) ==
  /\ h.at \in Failing
  /\ h.stage = "receive" /\ h.msg.item \in Block
  /\ Finish(h)
  /\ UNCHANGED <<channel, known, pools, unborn>>

\* TransactionPool.Push: a new transaction is announced as the host's own,
\* under the lock of the pool.
ReceiveTransaction(h) ==
  /\ h.stage = "receive" /\ h.msg.item \in Transaction
  /\ h.at \notin locked
  /\ IF h.msg.item \in pooled[h.at]
     THEN Move(h, "forward") /\ UNCHANGED <<known, pooled, locked>>
     ELSE PoolTransaction(h.at, h.msg.item) /\ Move(h, "announce")
  /\ UNCHANGED <<channel, sending, fetches, unborn>>

Room(n, k) == Len(channel[n][k]) < Capacity

\* BroadcastQueue.Add and AddTransaction of message m: one at the highest level
\* is dropped, another waits for room in the channel.
Enqueue(n, m) ==
  IF m.level < MaxLevel
  THEN /\ Room(n, KindOf(m.item))
       /\ channel' = [channel EXCEPT ![n][KindOf(m.item)] = Append(@, m)]
  ELSE UNCHANGED channel

\* The message as a local caller or Push sends it: level 0 and no addresses.
Announce(h) ==
  /\ h.stage = "announce"
  /\ Enqueue(h.at, [h.msg EXCEPT !.level = 0, !.addresses = {}])
  /\ locked' = IF h.msg.item \in Transaction THEN locked \ {h.at} ELSE locked
  /\ IF h.from = h.at THEN Finish(h) ELSE Move(h, "forward") /\ UNCHANGED sending
  /\ UNCHANGED <<known, pooled, fetches, unborn>>

Raised(m) == [m EXCEPT !.level = @ + 1]

\* The message as it came, one level up.
Forward(h) ==
  /\ h.stage = "forward"
  /\ Enqueue(h.at, Raised(h.msg))
  /\ Finish(h)
  /\ UNCHANGED <<known, pools, unborn>>

HandlerStep(n) ==
  \E h \in {x \in BagToSet(handlers) : x.at = n} :
    ReceiveBlock(h) \/ ReceiveTransaction(h) \/ Announce(h) \/ Forward(h)
----------------------------------------------------------------------------
(* The loop of host n, broadcastBlockSend and broadcastTransactionSend *)

Targets(m, n) == (Neighbors(n) \ m.addresses) \ {n}
Addressed(m, n) == [m EXCEPT !.addresses = @ \cup Targets(m, n)]

\* The select takes from either channel; without targets there is no call.
Take(n, k) ==
  /\ sending[n] = Idle
  /\ channel[n][k] # <<>>
  /\ LET m == Head(channel[n][k])
     IN sending' = [sending EXCEPT ![n] =
          IF Targets(m, n) = {} THEN Idle
          ELSE [msg |-> Addressed(m, n), left |-> Targets(m, n), waiting |-> FALSE]]
  /\ channel' = [channel EXCEPT ![n][k] = Tail(@)]
  /\ UNCHANGED <<handlers, known, pools, unborn>>

\* NetworkClient.BroadcastBlock: the call reaches host t.
Send(n, t) ==
  /\ ~sending[n].waiting /\ t \in sending[n].left
  /\ Start([at |-> t, from |-> n, msg |-> sending[n].msg, awaited |-> TRUE,
            stage |-> "receive"])
  /\ sending' = [sending EXCEPT ![n].left = @ \ {t}, ![n].waiting = TRUE]
  /\ UNCHANGED <<channel, known, pools, unborn>>

\* No connection to t: the call returns without having reached it.
Lose(n, t) ==
  /\ t \in Failing
  /\ ~sending[n].waiting /\ t \in sending[n].left
  /\ sending' = [sending EXCEPT ![n] = AfterCall([sending[n] EXCEPT !.left = @ \ {t}])]
  /\ UNCHANGED <<channel, handlers, known, pools, unborn>>

\* The context of the call, maxPing long, is done before the call is.
Timeout(n) ==
  /\ sending[n].waiting
  /\ \E h \in BagToSet(handlers) :
       /\ h.from = n /\ h.awaited
       /\ handlers' = (handlers (-) SetToBag({h}))
                      (+) SetToBag({[h EXCEPT !.awaited = FALSE]})
  /\ sending' = [sending EXCEPT ![n] = AfterCall(@)]
  /\ UNCHANGED <<channel, known, pools, unborn>>

LoopStep(n) == (\E k \in Kind : Take(n, k)) \/ (\E t \in Host : Send(n, t))
----------------------------------------------------------------------------
Next ==
  \/ \E i \in Item : MineBlock(i) \/ EnterTransaction(i)
  \/ \E n \in Host : HandlerStep(n) \/ LoopStep(n) \/ Timeout(n) \/ Fetch(n)
  \/ \E n, t \in Host : Lose(n, t)
  \/ \E h \in BagToSet(handlers) : RefuseBlock(h)

Spec == Init /\ [][Next /\ UNCHANGED network]_<<vars, network>>

\* The goroutines of a host run, and a context with a timeout is done in the
\* end.  Calls need not fail and items need not appear.
FairSpec ==
  /\ Spec
  /\ \A n \in Host : WF_vars(HandlerStep(n)) /\ WF_vars(LoopStep(n)) /\ WF_vars(Timeout(n))
----------------------------------------------------------------------------
InFlight == {h.msg : h \in BagToSet(handlers)}
            \cup UNION {{channel[n][k][j] : j \in DOMAIN channel[n][k]} :
                        n \in Host, k \in Kind}

\* Every hop reached somebody the message had not been sent to before: no path
\* is longer than the number of hosts, whatever maxBroadcastLevel is.
HopsAddressed == \A m \in InFlight : m.level <= Cardinality(m.addresses)

\* A host that has fetched a transaction announces it again when a copy comes
\* late or as an echo, and so may the next host: gossip goes on as long as hosts
\* fetch what it brings.  It comes to its end when they stop, which they do here
\* after MaxFetches times: nothing is sent any more.
GossipDies ==
  <>[](handlers = EmptyBag /\ \A n \in Host :
         sending[n] = Idle /\ \A k \in Kind : channel[n][k] = <<>>)

\* However full the channels are, and although hosts wait for each other in
\* circles then, every loop comes back to its channels.
LoopReturns == \A n \in Host : sending[n] # Idle ~> sending[n] = Idle

\* The hosts at most d hops from n on a way through hosts that do not fail.
Within[d \in Nat, n \in Host] ==
  IF d = 0 THEN {n}
  ELSE Within[d - 1, n] \cup UNION {Neighbors(x) \ Failing : x \in Within[d - 1, n]}

\* An item reaches every host within maxBroadcastLevel hops of its origin,
\* although nobody is sent it who was sent it on the way, and although calls time
\* out and others fail.
Reaches ==
  \A i \in Item, n \in Host :
    (/\ i \in network.items \ unborn
     /\ n \in Within[MaxLevel, Origin[i]]) ~> i \in known[n]
=============================================================================
