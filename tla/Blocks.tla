------------------------------- MODULE Blocks -------------------------------
(***************************************************************************)
(* HippoBlock with its hash, signature, nonce, encoding and difficulty, on *)
(* the transactions of module Transactions.                                *)
(*                                                                         *)
(* The hash of a block is made from its time, its level and its            *)
(* transactions, and from nothing else: two blocks of one second and level *)
(* with the same transactions have one hash, whoever mined them and        *)
(* whatever they build on.  (Module BlockTree is about blocks that differ  *)
(* in their hashes.)                                                       *)
(***************************************************************************)
EXTENDS Transactions

CONSTANTS MaxBytes,      \* the easiest difficulty, 255
          GenesisBytes,  \* the difficulty of a genesis block, 235
          BaseInterval,  \* mining-interval of the configuration, in seconds
          Reward         \* basicReward, of levels below 1000

ASSUME BlocksAssumption == /\ MaxBytes \in Nat /\ GenesisBytes \in 0 .. MaxBytes
                           /\ BaseInterval \in Nat /\ Reward \in Nat

NoHash == <<>>
NoNonce == [over |-> NoHash, digits |-> 0]

\* balance is whether the block has been given the balances to check against.
NewBlock(parent, numBytes, level, hasBalance, time) ==
  [transactions |-> <<>>, parent |-> parent, numBytes |-> numBytes,
   nonce |-> NoNonce, level |-> level, time |-> time,
   miner |-> NoSignature, signature |-> NoSignature,
   curve |-> TRUE, balance |-> hasBalance]

SetTransactions(b, transactions) == [b EXCEPT !.transactions = transactions]
SetBalance(b) == [b EXCEPT !.balance = TRUE]

HashTransactions(b) == [i \in DOMAIN b.transactions |-> HashSignatures(b.transactions[i])]
----------------------------------------------------------------------------
\* Mistaken forms of what follows, used by none of it: see "mutants" in
\* PROJECT.json.

\* A hash that leaves the level out.
HashWithoutLevel(b) == <<b.time, HashTransactions(b)>>
----------------------------------------------------------------------------
Hash(b) == <<b.time, b.level, HashTransactions(b)>>

\* What the nonce is looked for: the hash with the signature of the miner.
HashSignature(b) == <<Hash(b), b.signature>>

SignBlock(b, key) ==
  [b EXCEPT !.signature = Signature(key, Hash(b)), !.miner = key]

\* CreateGenesisBlock: no parent, no balance to check against.
CreateGenesisBlock(key, time) ==
  SignBlock(NewBlock(NoHash, GenesisBytes, 0, FALSE, time), key)

\* A nonce that is just good enough, found for the difficulty of the block; at
\* difficulty 0 there is none.
Solvable(b) == b.numBytes > 0
Solve(b) == [b EXCEPT !.nonce = [over |-> HashSignature(b), digits |-> b.numBytes - 1]]

CheckSignature(b) == b.curve /\ CheckSign(b.miner, Hash(b), b.signature)

\* The balances are locked for one transaction at a time: each is checked against
\* those it finds.
Looks(n) == [1 .. n -> Balances]

CheckTransactions(b, look) ==
  \A i \in DOMAIN b.transactions : Check(b.transactions[i], b.balance, look[i])

CheckNonce(b) == b.nonce.over = HashSignature(b) /\ b.nonce.digits < b.numBytes

CheckBlock(b, look) == CheckSignature(b) /\ CheckTransactions(b, look) /\ CheckNonce(b)

\* The changes of the transactions, their fees and the reward for the miner, added
\* as int64.
BlockBalanceChange(b) ==
  [a \in Key |->
     Signed(SumFunction([i \in DOMAIN b.transactions |->
                           GetBalanceChange(b.transactions[i], a)
                           + IF a = b.miner THEN UpdateFee(b.transactions[i]).fee ELSE 0])
            + IF a = b.miner THEN Reward ELSE 0)]

\* BlockEncoding: the JSON of the block has its exported fields only; the
\* transactions are encoded beside it.
EncodeBlock(b) ==
  [block |-> [b EXCEPT !.transactions = <<>>, !.curve = FALSE, !.balance = FALSE],
   transactions |-> [i \in DOMAIN b.transactions |-> EncodeTransaction(b.transactions[i])]]

\* DecodeBlock with the block template of the receiving host, which has its
\* balance, curve and hash function.
DecodeBlock(e) ==
  [e.block EXCEPT !.curve = TRUE, !.balance = TRUE,
     !.transactions = [i \in DOMAIN e.transactions |-> DecodeTransaction(e.transactions[i])]]

\* HippoStorage.GetLastInterval, for the block GetTopBlock gave it.
GetLastInterval(stored, top) ==
  LET prev == {b \in stored : Hash(b) = top.parent}
  IN  IF top.level = 0 \/ prev = {} THEN -1
      ELSE top.time - (CHOOSE b \in prev : TRUE).time

\* BasicDifficulty: a larger number is easier.
BasicDifficulty(numBytes, lastInterval) ==
  IF lastInterval = -1 THEN numBytes
  ELSE IF lastInterval > BaseInterval \div 2 /\ numBytes < MaxBytes THEN numBytes + 1
  ELSE IF lastInterval < 2 * BaseInterval /\ numBytes > 0 THEN numBytes - 1
  ELSE numBytes
=============================================================================
