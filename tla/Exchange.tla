------------------------------ MODULE Exchange ------------------------------
(***************************************************************************)
(* The way of a transaction and of a block through the hosts: a user makes *)
(* up a transaction with the methods of HippoTransaction, or with the form *)
(* of the web interface, and passes it to a host; hosts exchange it, put   *)
(* it into the blocks they build, sign and solve, and exchange these.      *)
(* Everything that travels is encoded by its sender and decoded and        *)
(* checked by its receiver.                                                *)
(*                                                                         *)
(* Abstractions.  Every stored block is verified as soon as its ancestors  *)
(* are (module Storage has the steps to that, and the blocks they miss);   *)
(* how messages travel is in Broadcast, how the pool is locked in          *)
(* TransactionPool, how jobs are handed over in Mining.  A message may     *)
(* come at any time, again and again, or never.  The clocks of the hosts   *)
(* do not agree, and neither do their balances, which may change between   *)
(* any two looks at them.                                                  *)
(***************************************************************************)
EXTENDS Blocks, FiniteSets

CONSTANTS Host,       \* the keys of the hosts
          NoBlock,
          Senders,    \* the lists of senders and of receivers a user names,
          Receivers,  \* as records [addresses, amounts]
          Times,      \* what the clocks of the hosts may show
          MaxBlocks   \* bound: on the blocks that are found

ASSUME ExchangeAssumption ==
  /\ Host \subseteq Key /\ MaxBlocks \in Nat /\ Times \subseteq Int
  /\ Senders \cup Receivers \subseteq [addresses : Seq(Key), amounts : Seq(Amount)]

VARIABLES
  draft,     \* the transaction of the user
  pool,      \* HippoTransactionPool of each host
  gossip,    \* the encoded transactions that have been sent
  stage,     \* where each host is with its next block
  parent,    \* prevBlock of WatchSendNewBlock
  template,  \* the block it mines
  stored,    \* HippoStorage.blocks of each host
  found,     \* the blocks that have been solved, as their miner has them
  sent       \* the encoded blocks that have been sent

user  == <<draft, pool, gossip>>
miner == <<stage, parent, template>>
vars  == <<user, miner, stored, found, sent>>

\* HippoHost.Run mines a genesis block of the host's own first.
Init ==
  /\ draft = NewTransaction
  /\ pool = [h \in Host |-> {}] /\ gossip = {}
  /\ stage = [h \in Host |-> "genesis"]
  /\ parent = [h \in Host |-> NoBlock]
  /\ template = [h \in Host |-> NoBlock]
  /\ stored = [h \in Host |-> {}]
  /\ found = {} /\ sent = {}
----------------------------------------------------------------------------
\* Mistaken forms of the actions below, used by none of them: see "mutants" in
\* PROJECT.json.

\* A template that is signed before its transactions are in.
SignFirst(h, numBytes, time, transactions) ==
  SetTransactions(
    SignBlock(NewBlock(Hash(parent[h]), numBytes, parent[h].level + 1,
                       parent[h].balance, time), h), transactions)

\* A difficulty made from the block that GetLastInterval looked at.
RateOther(h, top) == BasicDifficulty(top.numBytes, GetLastInterval(stored[h], top))
----------------------------------------------------------------------------
(* The user *)

\* Bound: the user is done before the first block is mined, with no transaction
\* half made (see Genesis).
Drafting == \A h \in Host : stage[h] = "genesis"

Redraft(t) == /\ Drafting /\ t # draft
              /\ draft' = t
              /\ UNCHANGED <<pool, gossip, miner, stored, found, sent>>

\* The methods of HippoTransaction, in any order.
Edit ==
  \/ \E s \in Senders : Redraft(SetSender(draft, s.addresses, s.amounts))
  \/ \E r \in Receivers : Redraft(SetReceiver(draft, r.addresses, r.amounts))
  \/ Redraft(UpdateFee(draft))
  \/ \E key \in Key : Redraft(Sign(draft, key))
  \/ \E key \in Key :
       \E signature \in Range(draft.signatures) \cup {Signature(key, Digest(draft))} :
         Redraft(SetSignature(draft, key, signature))

\* HippoTransactionPool.Push: what is new to the pool is broadcast.
Push(h, t) ==
  /\ CheckWithoutBalance(t)
  /\ IF \E p \in pool[h] : Digest(p) = Digest(t)
     THEN UNCHANGED <<pool, gossip>>
     ELSE /\ pool' = [pool EXCEPT ![h] = @ \cup {UpdateFee(t)}]
          /\ gossip' = gossip \cup {EncodeTransaction(UpdateFee(t))}

\* HippoHost.AddTransaction.
AddTransaction(h) ==
  /\ Drafting
  /\ Push(h, draft)
  /\ draft' = NewTransaction
  /\ UNCHANGED <<miner, stored, found, sent>>

\* The form: New, SetSender, SetReceiver, UpdateFee, whose result only changes
\* the answer, a Sign for every key, each of which must be a sender's, and
\* AddTransaction.
TransferPost(h, s, r, keys) ==
  LET filled == UpdateFee(SetReceiver(SetSender(NewTransaction, s.addresses, s.amounts),
                                      r.addresses, r.amounts))
      signed == FoldLeft(Sign, filled, keys)
  IN  /\ Drafting /\ draft = NewTransaction
      /\ Range(keys) \subseteq Range(filled.senders)
      /\ Push(h, signed)
      /\ UNCHANGED draft
      /\ UNCHANGED <<miner, stored, found, sent>>

UserStep ==
  \/ Edit
  \/ \E h \in Host : AddTransaction(h)
  \/ \E h \in Host, s \in Senders, r \in Receivers :
       \E keys \in [DOMAIN s.addresses -> Key] : TransferPost(h, s, r, keys)
----------------------------------------------------------------------------
(* The miner of a host *)

\* Bound: on the blocks that are found, one less if there are transactions; with as
\* many transactions as that, no more templates.
MayMine == /\ Cardinality(gossip) < MaxBlocks
           /\ Cardinality(found) < MaxBlocks - IF gossip = {} THEN 0 ELSE 1

Mine(h, b) == /\ template' = [template EXCEPT ![h] = b]
              /\ stage' = [stage EXCEPT ![h] = "mining"]

Genesis(h) ==
  /\ stage[h] = "genesis" /\ MayMine
  /\ draft = NewTransaction
  /\ \E time \in Times : Mine(h, CreateGenesisBlock(h, time))
  /\ UNCHANGED <<user, parent, stored, found, sent>>

\* The blocks of a host whose ancestors it has all.
Verified(h) ==
  LET of[n \in Nat] ==
        {b \in stored[h] :
           /\ b.level = n
           /\ IF n = 0 THEN b.parent = NoHash
                       ELSE \E p \in of[n - 1] : Hash(p) = b.parent}
  IN  {b \in stored[h] : b \in of[b.level]}

\* GetTopBlock.
Tops(h) == {b \in Verified(h) : \A c \in Verified(h) : c.level <= b.level}

GetTopBlock(h) ==
  /\ stage[h] = "idle"
  /\ \E b \in Tops(h) : parent' = [parent EXCEPT ![h] = b]
  /\ stage' = [stage EXCEPT ![h] = "rate"]
  /\ UNCHANGED <<user, template, stored, found, sent>>

\* The difficulty is that of the parent, changed by the interval of a top block
\* that is looked up again.
Rate(h, top) == BasicDifficulty(parent[h].numBytes, GetLastInterval(stored[h], top))

\* New, Fetch, Sign: the signature is over the transactions too.
NewTemplate(h, numBytes, time, transactions) ==
  SignBlock(
    SetTransactions(NewBlock(Hash(parent[h]), numBytes, parent[h].level + 1,
                             parent[h].balance, time), transactions), h)

\* Fetch takes what can be paid when it is looked at; the rest stays in the pool.
Build(h) ==
  /\ stage[h] = "rate" /\ MayMine
  /\ \E look \in [pool[h] -> Balances] :
       LET payable == {t \in pool[h] : Check(t, TRUE, look[t])}
       IN  /\ \E top \in Tops(h), time \in Times :
                Mine(h, NewTemplate(h, Rate(h, top), time, SetToSeq(payable)))
           /\ pool' = [pool EXCEPT ![h] = @ \ payable]
  /\ UNCHANGED <<draft, gossip, parent, stored, found, sent>>

Idle(h) == /\ stage' = [stage EXCEPT ![h] = "idle"]
           /\ template' = [template EXCEPT ![h] = NoBlock]
           /\ parent' = [parent EXCEPT ![h] = NoBlock]

\* The job is cancelled: by a block as high as the top that Add was called with,
\* verified or not, or by HippoMining.Cancel.  Module Mining has them.
GiveUp(h) ==
  /\ stage[h] = "mining" /\ MayMine
  /\ Idle(h)
  /\ UNCHANGED <<user, stored, found, sent>>

\* HippoStorage.Add: it returns false for a block that fails the check against
\* the balances it finds, and true, changing nothing, for one whose hash it has.
\* Whether it has the parent does not matter.
Accepts(b, look) == CheckBlock(SetBalance(b), look)
Known(h, b) == \E c \in stored[h] : Hash(c) = Hash(b)
Store(h, b) ==
  stored' = [stored EXCEPT ![h] = IF Known(h, b) THEN @ ELSE @ \cup {SetBalance(b)}]

\* MiningCallbackBroadcastSave: a block that the own storage accepts is sent; one
\* that it does not accept any more is gone.
Find(h) ==
  /\ stage[h] = "mining" /\ Solvable(template[h]) /\ MayMine
  /\ LET b == Solve(template[h])
     IN  /\ found' = found \cup {b}
         /\ \E look \in Looks(Len(b.transactions)) :
              IF Accepts(b, look)
              THEN Store(h, b) /\ sent' = sent \cup {EncodeBlock(b)}
              ELSE UNCHANGED <<stored, sent>>
  /\ Idle(h)
  /\ UNCHANGED user
----------------------------------------------------------------------------
(* What the server of a host receives *)

\* BroadcastTransaction.Decode, with the transaction template of the server.
DecodeBroadcast(e) == CopyVariables(CloneConstants(NewTransaction), e)

\* P2PServer.BroadcastTransaction.
ReceiveTransaction(h, e) ==
  /\ Push(h, DecodeBroadcast(e))
  /\ UNCHANGED <<draft, miner, stored, found, sent>>

\* P2PServer.BroadcastBlock, or a block that SyncBlocks has fetched.  One that is
\* known or refused changes nothing; one that was refused may come again.
ReceiveBlock(h, e) ==
  LET b == DecodeBlock(e)
  IN  /\ ~Known(h, b)
      /\ \E look \in Looks(Len(b.transactions)) : Accepts(b, look)
      /\ Store(h, b)
      /\ UNCHANGED <<user, miner, found, sent>>

Next ==
  \/ UserStep
  \/ \E h \in Host : Genesis(h) \/ GetTopBlock(h) \/ Build(h) \/ GiveUp(h) \/ Find(h)
  \/ \E h \in Host, e \in gossip : ReceiveTransaction(h, e)
  \/ \E h \in Host, e \in sent : ReceiveBlock(h, e)

Spec == Init /\ [][Next]_vars
----------------------------------------------------------------------------
\* The transactions that a host has taken.
Taken == (UNION {pool[h] : h \in Host}) \cup (UNION {Range(b.transactions) : b \in found})

\* An address that is named twice among the senders has a place for a signature
\* that nothing fills: whatever methods are called, a host takes transactions
\* only whose senders are all different.  Module Ledger relies on it.
SenderOnce == \A t \in Taken : IsInjective(t.senders)

\* Everything that a block names, in whole numbers.
Volume(b) ==
  Reward + SumFunction([i \in DOMAIN b.transactions |->
                          SumFunction(b.transactions[i].senderAmounts)
                          + SumFunction(b.transactions[i].receiverAmounts)])

\* A block whose amounts fit together in int64 gives its miner the reward and
\* otherwise moves what is there, to the coin, with its fees as they are computed
\* again and again, whatever fee it came with, and with addresses that both pay and
\* get.  Other blocks may make coins and lose them (see module Ledger).
Conserved ==
  \A b \in found :
    Volume(b) < 2 ^ (Width - 1) => SumFunction(BlockBalanceChange(b)) = Reward

\* A block that was found is refused, by the storage of its miner or on the other
\* side of encoding and decoding by anybody else's, only because a sender's balance
\* is too low then and there: nothing else about it changes on the way, neither its
\* hash nor what it changes.
OnlyBalancesRefuse ==
  \A b \in found :
    LET arrived == DecodeBlock(EncodeBlock(b))
        n == Len(b.transactions)
    IN  /\ \A look \in Looks(n) :
             LET paid == \A i \in 1 .. n : CheckBalance(b.transactions[i], TRUE, look[i])
             IN  /\ CheckBlock(SetBalance(b), look) <=> paid
                 /\ CheckBlock(arrived, look) <=> paid
        /\ Hash(arrived) = Hash(b)
        /\ BlockBalanceChange(arrived) = BlockBalanceChange(b)

\* Different blocks may have one hash, but never on different levels: whatever
\* block any host has under the hash a block builds on, it is one level below.
\* Module BlockTree relies on it.
LevelsFit ==
  LET added == UNION {stored[h] : h \in Host}
      mined  == {template[h] : h \in {k \in Host : stage[k] = "mining"}}
  IN  \A b \in added \cup mined, p \in added :
        b.level > 0 /\ Hash(p) = b.parent => b.level = p.level + 1

\* The difficulty of a chain moves one step at a time and stays in its range,
\* even when the top block whose interval is looked at is another than the one
\* the template is built on.
DifficultySteps ==
  \A h \in Host : stage[h] = "rate" =>
    \A top \in Tops(h) : /\ Rate(h, top) \in 0 .. MaxBytes
                         /\ Rate(h, top) - parent[h].numBytes \in -1 .. 1
=============================================================================
