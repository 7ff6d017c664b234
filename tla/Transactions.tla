---------------------------- MODULE Transactions ----------------------------
(***************************************************************************)
(* HippoTransaction, method by method: a transaction is a record, a method *)
(* that changes it is an operator that returns the new record.             *)
(*                                                                         *)
(* Abstractions.  A key is its own address.  A hash is what it was made    *)
(* from and a signature is the key and the hash it signs: hashes do not    *)
(* collide and nobody signs for another key.  ECDSA is randomised; here a  *)
(* key signs a hash in one way only.  Amounts and sums have Width bits, 64 *)
(* in the code.                                                            *)
(***************************************************************************)
EXTENDS Integers, Sequences, SequencesExt, Functions

CONSTANTS Key,          \* the keys, each the address of its owner
          NoSignature,  \* the empty string
          Width,        \* of an amount, in bits
          Balances      \* the balances a host may have when it looks at them:
                        \* each has its own, and they change (module Ledger)

Amount == 0 .. 2 ^ Width - 1

\* What is signed in a transaction.
Digests == Seq(Key) \X Seq(Amount) \X Seq(Key) \X Seq(Amount)

ASSUME TransactionsAssumption ==
  /\ IsFiniteSet(Key)
  /\ Width \in Nat \ {0}
  /\ 2 ^ (Width - 1) \in Nat \ {0} /\ 2 ^ Width = 2 * 2 ^ (Width - 1)
  /\ Balances \subseteq [Key -> Amount]
  /\ NoSignature \notin [by : Key, over : Digests]

Wrap(n) == n % 2 ^ Width

\* What the code makes of a number when it converts uint64 to int64.
Signed(n) == Wrap(n + 2 ^ (Width - 1)) - 2 ^ (Width - 1)

\* HippoTransaction.New, of one moment in time.
NewTransaction ==
  [senders   |-> <<>>, senderAmounts   |-> <<>>,
   receivers |-> <<>>, receiverAmounts |-> <<>>,
   fee |-> 0, signatures |-> <<>>, curve |-> TRUE]
----------------------------------------------------------------------------
\* Mistaken forms of what follows, used by none of it: see "mutants" in
\* PROJECT.json.

\* A signature that goes wherever the address is, not to the first place only.
\* (What is signed is Digest, below.)
SignEverywhere(t, key) ==
  LET digest == <<t.senders, t.senderAmounts, t.receivers, t.receiverAmounts>>
  IN  [t EXCEPT !.signatures =
         [i \in DOMAIN t.senders |-> IF t.senders[i] = key
                                     THEN [by |-> key, over |-> digest]
                                     ELSE t.signatures[i]]]

\* The change of an address that is in the list twice: only the last amount.
LastOnly(addresses, amounts, a) ==
  LET last == SelectLastInSeq(addresses, LAMBDA x : x = a)
  IN  IF last = 0 THEN 0 ELSE amounts[last]
----------------------------------------------------------------------------
\* Both return false, and change nothing, for lists of different lengths, and
\* SetSender for empty ones.
SetSender(t, addresses, amounts) ==
  IF Len(addresses) = Len(amounts) /\ addresses # <<>>
  THEN [t EXCEPT !.senders = addresses, !.senderAmounts = amounts,
                 !.signatures = [i \in DOMAIN addresses |-> NoSignature]]
  ELSE t

SetReceiver(t, addresses, amounts) ==
  IF Len(addresses) = Len(amounts)
  THEN [t EXCEPT !.receivers = addresses, !.receiverAmounts = amounts]
  ELSE t

SenderSum(t)   == Wrap(SumFunction(t.senderAmounts))
ReceiverSum(t) == Wrap(SumFunction(t.receiverAmounts))

\* The fee stays as it was when the senders pay too little.
UpdateFee(t) ==
  IF SenderSum(t) < ReceiverSum(t) THEN t
  ELSE [t EXCEPT !.fee = SenderSum(t) - ReceiverSum(t)]

CheckFee(t) == SenderSum(t) = Wrap(ReceiverSum(t) + UpdateFee(t).fee)

\* Each sender by itself; hasBalance is that the balance is not nil.
CheckBalance(t, hasBalance, balance) ==
  /\ hasBalance
  /\ \A i \in DOMAIN t.senders : t.senderAmounts[i] <= balance[t.senders[i]]

\* What is signed: neither the fee nor the signatures are in it.
Digest(t) == <<t.senders, t.senderAmounts, t.receivers, t.receiverAmounts>>

\* What a block's hash is made from.
HashSignatures(t) == <<Digest(t), t.signatures>>

Signature(key, hash) == [by |-> key, over |-> hash]

\* Key.LoadAddress and Key.CheckSignString.
CheckSign(key, hash, signature) == signature = Signature(key, hash)

\* The first place of the address, 0 if there is none.
FindAddress(t, address) == SelectInSeq(t.senders, LAMBDA x : x = address)

SetSignature(t, address, signature) ==
  LET pos == FindAddress(t, address)
  IN  IF pos # 0 /\ CheckSign(address, Digest(t), signature)
      THEN [t EXCEPT !.signatures[pos] = signature]
      ELSE t

Sign(t, key) ==
  LET pos == FindAddress(t, key)
  IN  IF pos # 0 THEN [t EXCEPT !.signatures[pos] = Signature(key, Digest(t))]
                 ELSE t

CheckSignatures(t) ==
  /\ t.curve
  /\ \A i \in DOMAIN t.senders : CheckSign(t.senders[i], Digest(t), t.signatures[i])

CheckWithoutBalance(t) == CheckFee(t) /\ CheckSignatures(t)

Check(t, hasBalance, balance) ==
  CheckWithoutBalance(t) /\ CheckBalance(t, hasBalance, balance)

\* What the list of amounts gives an address altogether.
Sum(addresses, amounts, a) ==
  SumFunctionOnSet(amounts, {i \in DOMAIN addresses : addresses[i] = a})

\* The change of an address in int64, without the fee, which goes to the miner.
GetBalanceChange(t, a) ==
  Signed(Sum(t.receivers, t.receiverAmounts, a) - Sum(t.senders, t.senderAmounts, a))

\* JSON has the exported fields.  The transactions of a block are decoded with
\* the curve and the hash function of the receiver.
EncodeTransaction(t) == [t EXCEPT !.curve = FALSE]
DecodeTransaction(e) == [e EXCEPT !.curve = TRUE]

\* A transaction that is broadcast is copied into a clone of the receiver's
\* template, which has these as well.
CloneConstants(t) == [NewTransaction EXCEPT !.curve = t.curve]

CopyVariables(t, e) == [e EXCEPT !.curve = t.curve]
=============================================================================
