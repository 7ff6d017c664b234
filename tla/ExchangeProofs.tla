--------------------------- MODULE ExchangeProofs ---------------------------
(***************************************************************************)
(* Theorems about Exchange, for every finite set of keys, lists of senders *)
(* and receivers of any length, any clocks and any number of blocks.       *)
(*                                                                         *)
(* A transaction that CheckSignatures lets pass has a signature at every   *)
(* place, and the methods only ever sign the first place of an address: no *)
(* address is in it twice.  A block that was signed stays what it was when *)
(* a nonce is found, when it is encoded and when it is decoded: the        *)
(* balances of a host are all that can make it refuse the block.  What the *)
(* code computes with uint64 and int64 differs from the whole numbers by   *)
(* multiples of 2^Width, and where the amounts of a block fit, by nothing: *)
(* then its changes together are its reward.                               *)
(***************************************************************************)
EXTENDS Exchange, Sums, SequenceTheorems

----------------------------------------------------------------------------
(* Transactions *)

Signatures == [by : Key, over : Digests] \cup {NoSignature}

\* What the methods of HippoTransaction make.
HippoTransaction ==
  {t \in [senders : Seq(Key), senderAmounts : Seq(Amount),
          receivers : Seq(Key), receiverAmounts : Seq(Amount),
          fee : Int, signatures : Seq(Signatures), curve : BOOLEAN] :
     /\ Len(t.senderAmounts) = Len(t.senders)
     /\ Len(t.signatures) = Len(t.senders)
     /\ Len(t.receiverAmounts) = Len(t.receivers)}

\* Only the first place of an address is ever filled.
FilledFirst(t) ==
  \A i, j \in DOMAIN t.senders :
    i < j /\ t.senders[i] = t.senders[j] => t.signatures[j] = NoSignature

Made == {t \in HippoTransaction : FilledFirst(t) /\ t.curve}

\* What a host takes.
Takable == {t \in Made : CheckWithoutBalance(t)}

\* Nothing is signed and nobody sends.
LEMMA NewIsMade == NewTransaction \in Made
BY DEF NewTransaction, Made, HippoTransaction, FilledFirst

\* The digest of a transaction.
LEMMA DigestType ==
  ASSUME NEW t \in HippoTransaction
  PROVE  Digest(t) \in Digests
BY DEF HippoTransaction, Digest, Digests

\* A transaction that CheckSignatures lets pass has a signature at every place, so no
\* address twice.
LEMMA TakableOnce ==
  ASSUME NEW t \in Takable
  PROVE  IsInjective(t.senders)
<1>1. t \in HippoTransaction /\ FilledFirst(t)
  BY DEF Takable, Made
<1>2. \A i \in DOMAIN t.senders : t.signatures[i] = [by |-> t.senders[i], over |-> Digest(t)]
  BY DEF Takable, CheckWithoutBalance, CheckSignatures, CheckSign, Signature
<1>3. \A i \in DOMAIN t.senders : i \in Int /\ t.senders[i] \in Key
  BY <1>1 DEF HippoTransaction
<1>4. \A i \in DOMAIN t.senders : t.signatures[i] # NoSignature
  <2>1. \A k \in Key, d \in Digests : [by |-> k, over |-> d] # NoSignature
    BY TransactionsAssumption
  <2>2. Digest(t) \in Digests
    BY <1>1, DigestType
  <2> QED BY <1>2, <1>3, <2>1, <2>2
<1>5. \A i, j \in DOMAIN t.senders : t.senders[i] = t.senders[j] => ~(i < j) /\ ~(j < i)
  BY <1>1, <1>4 DEF FilledFirst
<1> QED BY <1>3, <1>5 DEF IsInjective

\* The lists that the methods set.
LEMMA SetSenderMakes ==
  ASSUME NEW t \in Made, NEW addresses \in Seq(Key), NEW amounts \in Seq(Amount)
  PROVE  SetSender(t, addresses, amounts) \in Made
<1> DEFINE none == [i \in DOMAIN addresses |-> NoSignature]
<1>1. none \in Seq(Signatures) /\ Len(none) = Len(addresses)
  BY DEF Signatures
<1>2. \A i \in DOMAIN addresses : none[i] = NoSignature
  OBVIOUS
<1> HIDE DEF none
<1>3. CASE Len(addresses) = Len(amounts) /\ addresses # <<>>
  <2>1. SetSender(t, addresses, amounts) =
          [t EXCEPT !.senders = addresses, !.senderAmounts = amounts, !.signatures = none]
    BY <1>3 DEF SetSender, none
  <2> QED BY <1>1, <1>2, <1>3, <2>1 DEF Made, HippoTransaction, FilledFirst
<1>4. CASE ~(Len(addresses) = Len(amounts) /\ addresses # <<>>)
  BY <1>4 DEF SetSender
<1> QED BY <1>3, <1>4

\* Setting the receivers leaves the signatures where they are.
LEMMA SetReceiverMakes ==
  ASSUME NEW t \in Made, NEW addresses \in Seq(Key), NEW amounts \in Seq(Amount)
  PROVE  SetReceiver(t, addresses, amounts) \in Made
BY DEF SetReceiver, Made, HippoTransaction, FilledFirst

\* The place that FindAddress returns is the first of the address.
LEMMA FirstPlace ==
  ASSUME NEW t \in HippoTransaction, NEW a, FindAddress(t, a) # 0
  PROVE  /\ FindAddress(t, a) \in DOMAIN t.senders
         /\ t.senders[FindAddress(t, a)] = a
         /\ \A i \in DOMAIN t.senders : i < FindAddress(t, a) => t.senders[i] # a
<1> DEFINE I == {i \in 1 .. Len(t.senders) : t.senders[i] = a}
<1>1. DOMAIN t.senders = 1 .. Len(t.senders) /\ Len(t.senders) \in Nat
  BY DEF HippoTransaction
<1>2. I # {} /\ FindAddress(t, a) = Min(I)
  BY DEF FindAddress, SelectInSeq
<1>3. /\ I \in SUBSET Nat
      /\ \A i \in I : i \in DOMAIN t.senders /\ t.senders[i] = a
      /\ \A i \in DOMAIN t.senders : i \in Nat /\ (t.senders[i] = a => i \in I)
  BY <1>1
<1> HIDE DEF I
<1>4. \E n \in I : \A m \in I : n <= m
  BY <1>2, <1>3, Least
<1>5. Min(I) \in I /\ \A m \in I : Min(I) <= m
  BY <1>4 DEF Min
<1> DEFINE m == Min(I)
<1>6. m \in DOMAIN t.senders /\ t.senders[m] = a
  BY <1>3, <1>5
<1>7. \A i \in DOMAIN t.senders : i < m => t.senders[i] # a
  <2>1. m \in Nat /\ \A n \in I : m <= n /\ n \in Nat
    BY <1>3, <1>5
  <2> HIDE DEF m
  <2> QED BY <1>3, <2>1
<1> QED BY <1>2, <1>6, <1>7

\* Signing fills the first place of an address.
LEMMA SignMakes ==
  ASSUME NEW t \in Made, NEW key \in Key
  PROVE  Sign(t, key) \in Made /\ Sign(t, key).senders = t.senders
<1> DEFINE pos == FindAddress(t, key)
           s == Signature(key, Digest(t))
<1>1. CASE pos = 0
  BY <1>1 DEF Sign
<1>2. CASE pos # 0
  <2>1. t \in HippoTransaction
    BY DEF Made
  <2>2. /\ pos \in DOMAIN t.senders /\ t.senders[pos] = key
        /\ \A i \in DOMAIN t.senders : i < pos => t.senders[i] # key
    BY <1>2, <2>1, FirstPlace
  <2>3. s \in Signatures
    BY <2>1, DigestType DEF Signature, Signatures
  <2>4. Sign(t, key) = [t EXCEPT !.signatures[pos] = s]
    BY <1>2 DEF Sign
  <2> HIDE DEF pos, s
  <2> DEFINE filled == [t.signatures EXCEPT ![pos] = s]
  <2>5. /\ filled \in Seq(Signatures) /\ Len(filled) = Len(t.senders)
        /\ \A i \in DOMAIN t.senders : i # pos => filled[i] = t.signatures[i]
    BY <2>1, <2>2, <2>3 DEF HippoTransaction
  <2>6. Sign(t, key) = [t EXCEPT !.signatures = filled]
    BY <2>4
  <2> HIDE DEF filled
  <2> DEFINE u == [t EXCEPT !.signatures = filled]
  <2>7. /\ u \in HippoTransaction /\ u.curve
        /\ u.senders = t.senders /\ u.signatures = filled
    BY <2>1, <2>5 DEF Made, HippoTransaction
  <2> HIDE DEF u
  <2>8. FilledFirst(u)
    <3>1. \A i \in DOMAIN t.senders : i \in Int
      BY <2>1 DEF HippoTransaction
    <3>2. FilledFirst(t)
      BY DEF Made
    <3> QED BY <2>2, <2>5, <2>7, <3>1, <3>2 DEF FilledFirst
  <2> QED BY <2>6, <2>7, <2>8 DEF Made, u
<1> QED BY <1>1, <1>2

\* So does a signature made elsewhere.
LEMMA SetSignatureMakes ==
  ASSUME NEW t \in Made, NEW key \in Key, NEW signature
  PROVE  SetSignature(t, key, signature) \in Made
<1>1. SetSignature(t, key, signature) \in {t, Sign(t, key)}
  BY DEF SetSignature, Sign, CheckSign
<1> QED BY <1>1, SignMakes

\* The fee is no part of what is signed, and computed again it is the same.
LEMMA UpdateFeeMakes ==
  ASSUME NEW t \in Made
  PROVE  /\ UpdateFee(t) \in Made
         /\ CheckWithoutBalance(t) => CheckWithoutBalance(UpdateFee(t))
<1>1. t \in HippoTransaction
  BY DEF Made
<1>2. SenderSum(t) \in Int /\ ReceiverSum(t) \in Int
  <2>1. IsFiniteSet(DOMAIN t.senderAmounts) /\ IsFiniteSet(DOMAIN t.receiverAmounts)
    <3>1. /\ DOMAIN t.senderAmounts = 1 .. Len(t.senderAmounts) /\ Len(t.senderAmounts) \in Nat
          /\ DOMAIN t.receiverAmounts = 1 .. Len(t.receiverAmounts)
          /\ Len(t.receiverAmounts) \in Nat
      BY <1>1 DEF HippoTransaction
    <3>2. IsFiniteSet(1 .. Len(t.senderAmounts))
      BY <3>1, FS_Interval
    <3>3. IsFiniteSet(1 .. Len(t.receiverAmounts))
      BY <3>1, FS_Interval
    <3> QED BY <3>1, <3>2, <3>3
  <2>2. /\ \A i \in DOMAIN t.senderAmounts : t.senderAmounts[i] \in Int
        /\ \A i \in DOMAIN t.receiverAmounts : t.receiverAmounts[i] \in Int
    BY <1>1, TransactionsAssumption DEF HippoTransaction, Amount
  <2>3. /\ SumFunctionOnSet(t.senderAmounts, DOMAIN t.senderAmounts) \in Int
        /\ SumFunctionOnSet(t.receiverAmounts, DOMAIN t.receiverAmounts) \in Int
    BY <2>1, <2>2, SumType
  <2> QED BY <2>3, TransactionsAssumption DEF SenderSum, ReceiverSum, SumFunction, Wrap
<1> DEFINE u == UpdateFee(t)
<1>3. /\ u \in HippoTransaction /\ u.curve = t.curve /\ Digest(u) = Digest(t)
      /\ u.senders = t.senders /\ u.signatures = t.signatures
      /\ SenderSum(u) = SenderSum(t) /\ ReceiverSum(u) = ReceiverSum(t)
  <2>1. PICK f \in Int : u = [t EXCEPT !.fee = f]
    <3>1. t = [t EXCEPT !.fee = t.fee] /\ t.fee \in Int
      BY <1>1 DEF HippoTransaction
    <3> QED BY <1>2, <3>1 DEF UpdateFee
  <2> HIDE DEF u
  <2>2. /\ u \in HippoTransaction /\ u.curve = t.curve
        /\ u.senders = t.senders /\ u.senderAmounts = t.senderAmounts
        /\ u.receivers = t.receivers /\ u.receiverAmounts = t.receiverAmounts
        /\ u.signatures = t.signatures
    BY <1>1, <2>1 DEF HippoTransaction
  <2> QED BY <2>2 DEF Digest, SenderSum, ReceiverSum
<1>4. UpdateFee(u).fee = u.fee
  <2>1. CASE SenderSum(t) < ReceiverSum(t)
    BY <2>1 DEF UpdateFee
  <2>2. CASE ~(SenderSum(t) < ReceiverSum(t))
    <3>1. u.fee = SenderSum(t) - ReceiverSum(t)
      BY <1>1, <2>2 DEF UpdateFee, HippoTransaction
    <3> HIDE DEF u
    <3>2. UpdateFee(u).fee = SenderSum(t) - ReceiverSum(t)
      BY <1>3, <2>2 DEF UpdateFee, HippoTransaction
    <3> QED BY <3>1, <3>2
  <2> QED BY <2>1, <2>2
<1>5. u \in Made
  BY <1>3 DEF Made, FilledFirst
<1> HIDE DEF u
<1>6. CheckWithoutBalance(t) => CheckWithoutBalance(u)
  <2>1. CheckFee(t) => CheckFee(u)
    BY <1>3, <1>4 DEF CheckFee, u
  <2>2. CheckSignatures(t) => CheckSignatures(u)
    BY <1>3 DEF CheckSignatures
  <2> QED BY <2>1, <2>2 DEF CheckWithoutBalance
<1> QED BY <1>5, <1>6 DEF u

\* The last of some places.
LEMMA LastIn ==
  ASSUME NEW n \in Nat, NEW s \in SUBSET (1 .. n), s # {}
  PROVE  Max(s) \in s /\ \A j \in s : j <= Max(s)
<1> DEFINE back == {n - i : i \in s}
<1>1. back \in SUBSET Nat /\ back # {}
  OBVIOUS
<1> HIDE DEF back
<1>2. PICK m \in back : \A k \in back : m <= k
  BY <1>1, Least
<1>3. PICK i \in s : m = n - i
  BY DEF back
<1>4. \A j \in s : n - j \in back /\ m <= n - j
  BY <1>2 DEF back
<1>5. \A j \in s : i >= j
  BY <1>3, <1>4
<1> QED BY <1>5 DEF Max

\* The function with which FoldLeft signs with the keys of some places.
IsSigning(g, t, keys) ==
  g = [s \in SUBSET (DOMAIN keys) |->
         IF s = {} THEN t ELSE Sign(g[s \ {Max(s)}], keys[Max(s)])]

\* FoldLeft, with its local function named.
LEMMA SignAllDef ==
  ASSUME NEW t, NEW keys
  PROVE  FoldLeft(Sign, t, keys) = (CHOOSE g : IsSigning(g, t, keys))[DOMAIN keys]
BY DEF FoldLeft, MapThenFoldSet, IsSigning

\* What signing with all keys makes: by induction over the number of places, the
\* function exists; by induction over the sets of places, its values are made by
\* HippoTransaction.
LEMMA SignAllMakes ==
  ASSUME NEW t \in Made, NEW n \in Nat, NEW keys \in [1 .. n -> Key]
  PROVE  FoldLeft(Sign, t, keys) \in Made
<1> DEFINE Upto(m) == SUBSET (1 .. m)
           Signs(g, m) == /\ DOMAIN g = Upto(m)
                          /\ \A s \in Upto(m) :
                               g[s] = IF s = {} THEN t
                                      ELSE Sign(g[s \ {Max(s)}], keys[Max(s)])
           bad == {m \in Nat : m <= n /\ ~\E g : Signs(g, m)}
<1>0. \A m \in Nat : m <= n /\ m \notin bad => \E g : Signs(g, m)
  <2> HIDE DEF Signs
  <2> QED OBVIOUS
<1>1. \A m \in Nat : \A s \in Upto(m) :
        s # {} => Max(s) \in s /\ s \ {Max(s)} \in Upto(m)
  BY LastIn
<1>2. bad = {}
  <2>1. SUFFICES ASSUME bad # {} PROVE FALSE
    OBVIOUS
  <2>2. PICK m \in bad : \A k \in bad : m <= k
    <3>1. bad \in SUBSET Nat
      OBVIOUS
    <3> HIDE DEF bad
    <3> QED BY <2>1, <3>1, Least
  <2>3. CASE m = 0
    <3> DEFINE g == [s \in Upto(0) |-> t]
    <3>1. \A s \in Upto(0) : s = {}
      OBVIOUS
    <3>2. Signs(g, 0)
      BY <3>1
    <3> QED BY <2>2, <2>3, <3>2
  <2>4. CASE m # 0
    <3>1. m \in Nat /\ m - 1 \in Nat /\ m - 1 \notin bad /\ m <= n
      <4>1. m \in Nat /\ m <= n
        OBVIOUS
      <4> HIDE DEF bad
      <4>2. m - 1 \in bad => m <= m - 1
        BY <2>2
      <4> QED BY <2>4, <4>1, <4>2
    <3>2. PICK g : Signs(g, m - 1)
      <4>1. m - 1 <= n
        BY <3>1
      <4> HIDE DEF Signs, bad
      <4> QED BY <1>0, <3>1, <4>1
    <3> DEFINE h == [s \in Upto(m) |-> IF s = {} THEN t
                                       ELSE Sign(g[s \ {Max(s)}], keys[Max(s)])]
    <3>3. \A s \in Upto(m) : s # {} => s \ {Max(s)} \in Upto(m - 1)
      <4>1. ASSUME NEW s \in Upto(m), s # {} PROVE s \ {Max(s)} \in Upto(m - 1)
        <5>1. Max(s) \in s /\ \A j \in s : j <= Max(s)
          BY <3>1, <4>1, LastIn
        <5>2. \A j \in s \ {Max(s)} : j \in 1 .. m - 1
          <6>1. \A j \in s : j \in 1 .. m
            OBVIOUS
          <6> DEFINE k == Max(s)
          <6>2. k \in 1 .. m /\ \A j \in s : j <= k /\ j \in 1 .. m
            BY <5>1, <6>1
          <6> HIDE DEF k, bad
          <6>3. \A j \in s \ {k} : j \in 1 .. m - 1
            BY <3>1, <6>2
          <6> QED BY <6>3 DEF k
        <5> QED BY <5>2
      <4> QED BY <4>1
    <3>4. \A s \in Upto(m - 1) : s \in Upto(m) /\ h[s] = g[s]
      <4>1. \A s \in Upto(m - 1) : s \in Upto(m)
        BY <3>1
      <4>2. \A s \in Upto(m - 1) :
              g[s] = IF s = {} THEN t ELSE Sign(g[s \ {Max(s)}], keys[Max(s)])
        BY <3>2
      <4> QED BY <4>1, <4>2
    <3>5. \A s \in Upto(m) :
            h[s] = IF s = {} THEN t ELSE Sign(h[s \ {Max(s)}], keys[Max(s)])
      <4>1. \A s \in Upto(m) : s # {} => h[s \ {Max(s)}] = g[s \ {Max(s)}]
        BY <3>3, <3>4
      <4>2. \A s \in Upto(m) :
              h[s] = IF s = {} THEN t ELSE Sign(g[s \ {Max(s)}], keys[Max(s)])
        OBVIOUS
      <4> HIDE DEF h
      <4> QED BY <4>1, <4>2
    <3>6. Signs(h, m)
      <4>1. DOMAIN h = Upto(m)
        OBVIOUS
      <4> HIDE DEF h
      <4> QED BY <3>5, <4>1
    <3> QED BY <2>2, <3>6
  <2> QED BY <2>3, <2>4
<1>3. PICK f : Signs(f, n)
  <2> HIDE DEF Signs, bad
  <2> QED BY <1>0, <1>2
<1> DEFINE h == [s \in SUBSET (1 .. n) |-> f[s]]
<1>4. IsSigning(h, t, keys)
  <2>1. DOMAIN keys = 1 .. n
    OBVIOUS
  <2>2. \A s \in SUBSET (1 .. n) : s \ {Max(s)} \in SUBSET (1 .. n)
    OBVIOUS
  <2>3. \A s \in SUBSET (1 .. n) :
          h[s] = IF s = {} THEN t ELSE Sign(h[s \ {Max(s)}], keys[Max(s)])
    BY <1>3, <2>2
  <2>4. h = [s \in SUBSET (1 .. n) |->
              IF s = {} THEN t ELSE Sign(h[s \ {Max(s)}], keys[Max(s)])]
    BY <2>3
  <2> QED BY <2>1, <2>4 DEF IsSigning
<1> DEFINE g == CHOOSE x : IsSigning(x, t, keys)
<1>5. IsSigning(g, t, keys)
  BY <1>4
<1>6. FoldLeft(Sign, t, keys) = g[1 .. n]
  <2>1. DOMAIN keys = 1 .. n
    OBVIOUS
  <2> QED BY <2>1, SignAllDef
<1> HIDE DEF g
<1>7. \A s \in SUBSET (1 .. n) :
        g[s] = IF s = {} THEN t ELSE Sign(g[s \ {Max(s)}], keys[Max(s)])
  BY <1>5 DEF IsSigning
<1> DEFINE G == {s \in SUBSET (1 .. n) : g[s] \in Made}
<1>8. {} \in G
  BY <1>7
<1>9. ASSUME NEW s \in SUBSET (1 .. n), s # {}, \A x \in s : s \ {x} \in G
      PROVE  s \in G
  <2>1. Max(s) \in s
    BY <1>1, <1>9
  <2>2. g[s \ {Max(s)}] \in Made /\ keys[Max(s)] \in Key
    BY <1>9, <2>1
  <2>3. g[s] = Sign(g[s \ {Max(s)}], keys[Max(s)])
    BY <1>7, <1>9
  <2>4. g[s] \in Made
    BY <2>2, <2>3, SignMakes
  <2> QED BY <2>4
<1> HIDE DEF G
<1>10. IsFiniteSet(1 .. n)
  BY FS_Interval
<1>11. 1 .. n \in G
  <2> DEFINE T == 1 .. n
  <2>1. \A s \in SUBSET T : s # {} /\ (\A x \in s : s \ {x} \in G) => s \in G
    BY <1>9
  <2>3. IsFiniteSet(T) /\ {} \in G
    BY <1>8, <1>10
  <2> HIDE DEF T
  <2>2. \A s \in SUBSET T : s \in G
    BY <2>1, <2>3, SubsetInduction
  <2> QED BY <2>2 DEF T
<1> QED BY <1>6, <1>11 DEF G
----------------------------------------------------------------------------
(* Blocks *)

Fields == {"transactions", "parent", "numBytes", "nonce", "level", "time", "miner",
           "signature", "curve", "balance"}

\* A block as its miner signs it: the first part of the hash it builds on is that of
\* a block one level below.
SignedBlock(b) ==
  /\ DOMAIN b = Fields
  /\ b.transactions \in Seq(Takable)
  /\ b.numBytes \in 0 .. MaxBytes /\ b.level \in Nat /\ b.time \in Int
  /\ b.miner \in Key /\ b.signature = Signature(b.miner, Hash(b))
  /\ b.curve
  /\ b.level > 0 => b.parent[2] = b.level - 1

\* With a nonce.
SolvedBlock(b) == SignedBlock(b) /\ CheckNonce(b)

\* The balance a block is checked against is not part of it.
LEMMA BalanceApart ==
  ASSUME NEW b, SignedBlock(b)
  PROVE  /\ SignedBlock(SetBalance(b)) /\ Hash(SetBalance(b)) = Hash(b)
         /\ SetBalance(b).balance = TRUE /\ SetBalance(b).transactions = b.transactions
         /\ SetBalance(b).miner = b.miner
         /\ CheckNonce(b) => CheckNonce(SetBalance(b))
<1> DEFINE c == SetBalance(b)
<1>1. /\ DOMAIN c = Fields /\ c.balance = TRUE
      /\ c.transactions = b.transactions /\ c.parent = b.parent /\ c.numBytes = b.numBytes
      /\ c.nonce = b.nonce /\ c.level = b.level /\ c.time = b.time /\ c.miner = b.miner
      /\ c.signature = b.signature /\ c.curve = b.curve
  BY DEF SetBalance, SignedBlock, Fields
<1> HIDE DEF c
<1>2. Hash(c) = Hash(b)
  BY <1>1 DEF Hash, HashTransactions
<1>3. SignedBlock(c)
  BY <1>1, <1>2 DEF SignedBlock
<1>4. CheckNonce(b) => CheckNonce(c)
  BY <1>1, <1>2 DEF CheckNonce, HashSignature
<1> QED BY <1>1, <1>2, <1>3, <1>4 DEF c

\* A solved block is the block that was signed, with a nonce.
LEMMA SolveSolves ==
  ASSUME NEW b, SignedBlock(b), Solvable(b)
  PROVE  SolvedBlock(Solve(b))
<1> DEFINE c == Solve(b)
           nonce == [over |-> HashSignature(b), digits |-> b.numBytes - 1]
<1>1. /\ DOMAIN c = Fields /\ c.nonce = nonce
      /\ c.transactions = b.transactions /\ c.parent = b.parent /\ c.numBytes = b.numBytes
      /\ c.level = b.level /\ c.time = b.time /\ c.miner = b.miner
      /\ c.signature = b.signature /\ c.curve = b.curve
  BY DEF Solve, SignedBlock, Fields
<1>2. nonce.over = HashSignature(b) /\ nonce.digits < b.numBytes
  BY BlocksAssumption DEF SignedBlock
<1> HIDE DEF c, nonce
<1>3. Hash(c) = Hash(b) /\ HashSignature(c) = HashSignature(b)
  BY <1>1 DEF Hash, HashTransactions, HashSignature
<1>4. SignedBlock(c)
  BY <1>1, <1>3 DEF SignedBlock
<1> QED BY <1>1, <1>2, <1>3, <1>4 DEF SolvedBlock, CheckNonce, c

\* What arrives is the block that was sent, with the balance of the receiver.
LEMMA DecodeEncode ==
  ASSUME NEW b, SignedBlock(b)
  PROVE  DecodeBlock(EncodeBlock(b)) = SetBalance(b)
<1> DEFINE e == EncodeBlock(b)
           txs == [i \in DOMAIN e.transactions |-> DecodeTransaction(e.transactions[i])]
<1>1. txs = b.transactions
  <2>1. /\ DOMAIN e.transactions = DOMAIN b.transactions
        /\ \A i \in DOMAIN b.transactions :
             e.transactions[i] = EncodeTransaction(b.transactions[i])
    BY DEF EncodeBlock
  <2>2. ASSUME NEW t \in Takable PROVE DecodeTransaction(EncodeTransaction(t)) = t
    BY DEF DecodeTransaction, EncodeTransaction, Takable, Made, HippoTransaction
  <2>3. b.transactions \in Seq(Takable)
    BY DEF SignedBlock
  <2>4. \A i \in DOMAIN b.transactions : b.transactions[i] \in Takable
    BY <2>3
  <2> HIDE DEF e
  <2>5. /\ DOMAIN txs = DOMAIN b.transactions
        /\ \A i \in DOMAIN b.transactions : txs[i] = b.transactions[i]
    BY <2>1, <2>2, <2>4
  <2>6. txs = [i \in DOMAIN txs |-> txs[i]]
    OBVIOUS
  <2>7. b.transactions = [i \in DOMAIN b.transactions |-> b.transactions[i]]
    BY <2>3
  <2> HIDE DEF txs
  <2> QED BY <2>5, <2>6, <2>7
<1>2. e.block = [b EXCEPT !.transactions = <<>>, !.curve = FALSE, !.balance = FALSE]
  BY DEF EncodeBlock
<1>3. DecodeBlock(e) = [e.block EXCEPT !.curve = TRUE, !.balance = TRUE, !.transactions = txs]
  BY DEF DecodeBlock
<1>4. DOMAIN b = Fields /\ b.curve = TRUE
  BY DEF SignedBlock
<1>5. SetBalance(b) = [b EXCEPT !.balance = TRUE]
  BY DEF SetBalance
<1> HIDE DEF e, txs
<1>6. DecodeBlock(e) = SetBalance(b)
  <2> DEFINE block == e.block
             d == [block EXCEPT !.curve = TRUE, !.balance = TRUE, !.transactions = txs]
             s == [b EXCEPT !.balance = TRUE]
  <2>1. DOMAIN block = Fields /\ \A x \in Fields :
          x \notin {"transactions", "curve", "balance"} => block[x] = b[x]
    BY <1>2, <1>4 DEF Fields
  <2> HIDE DEF block
  <2>2. DOMAIN d = Fields /\ DOMAIN s = Fields
    BY <1>4, <2>1
  <2>3. \A x \in Fields : d[x] = s[x]
    BY <1>1, <1>4, <2>1 DEF Fields
  <2>4. d = [x \in DOMAIN d |-> d[x]] /\ s = [x \in DOMAIN s |-> s[x]]
    OBVIOUS
  <2>5. DecodeBlock(e) = d /\ SetBalance(b) = s
    BY <1>3, <1>5 DEF block
  <2> HIDE DEF d, s
  <2> QED BY <2>2, <2>3, <2>4, <2>5
<1> QED BY <1>6 DEF e

\* Whoever checks a solved block against balances only finds out whether it can be
\* paid.
LEMMA SolvedIsPaid ==
  ASSUME NEW b, SolvedBlock(b), NEW look
  PROVE  CheckBlock(SetBalance(b), look) <=>
           \A i \in 1 .. Len(b.transactions) : CheckBalance(b.transactions[i], TRUE, look[i])
<1> DEFINE c == SetBalance(b)
           paid == \A i \in 1 .. Len(b.transactions) :
                     CheckBalance(b.transactions[i], TRUE, look[i])
<1>1. /\ SignedBlock(c) /\ CheckNonce(c) /\ c.balance = TRUE
      /\ c.transactions = b.transactions
  BY BalanceApart DEF SolvedBlock
<1> HIDE DEF c
<1>2. CheckSignature(c)
  BY <1>1 DEF CheckSignature, CheckSign, SignedBlock
<1>3. CheckTransactions(c, look) <=> paid
  <2>1. b.transactions \in Seq(Takable)
    BY <1>1 DEF SignedBlock
  <2>2. /\ DOMAIN b.transactions = 1 .. Len(b.transactions)
        /\ \A i \in 1 .. Len(b.transactions) : b.transactions[i] \in Takable
    BY <2>1
  <2>3. \A i \in 1 .. Len(b.transactions) : CheckWithoutBalance(b.transactions[i])
    BY <2>2 DEF Takable
  <2> QED BY <1>1, <2>2, <2>3 DEF CheckTransactions, Check
<1> QED BY <1>1, <1>2, <1>3 DEF CheckBlock, c
----------------------------------------------------------------------------
(* The invariant *)

BlocksSigned ==
  /\ stage \in [Host -> {"genesis", "idle", "rate", "mining"}]
  /\ \A h \in Host : \A b \in stored[h] : SignedBlock(b)
  /\ \A h \in Host : stage[h] = "rate" => parent[h] \in stored[h]
  /\ \A h \in Host : stage[h] = "mining" => SignedBlock(template[h])
  /\ \A b \in found : SolvedBlock(b)
  /\ \A e \in sent : SolvedBlock(DecodeBlock(e))

TransfersSigned ==
  /\ draft \in Made
  /\ \A h \in Host : pool[h] \subseteq Takable /\ IsFiniteSet(pool[h])
  /\ \A e \in gossip : DecodeBroadcast(e) \in Takable

\* Each host has a pool, a storage and a miner.
OfHosts == /\ DOMAIN pool = Host /\ DOMAIN stored = Host
           /\ DOMAIN parent = Host /\ DOMAIN template = Host

IInv == BlocksSigned /\ TransfersSigned /\ OfHosts

\* Nothing has been made but an empty transaction.
LEMMA InitIInv == Init => IInv
<1> SUFFICES ASSUME Init PROVE IInv
  OBVIOUS
<1>1. BlocksSigned
  BY DEF Init, BlocksSigned
<1>2. TransfersSigned
  BY NewIsMade, FS_EmptySet DEF Init, TransfersSigned
<1>3. OfHosts
  BY DEF Init, OfHosts
<1> QED BY <1>1, <1>2, <1>3 DEF IInv
----------------------------------------------------------------------------
(* The transactions on their way *)

\* What a pool takes it broadcasts, with the fee that it has computed.
LEMMA PushKeeps ==
  ASSUME IInv, NEW h \in Host, NEW t \in Made, Push(h, t)
  PROVE  /\ DOMAIN pool' = Host
         /\ \A k \in Host : pool'[k] \subseteq Takable /\ IsFiniteSet(pool'[k])
         /\ \A e \in gossip' : DecodeBroadcast(e) \in Takable
<1> DEFINE u == UpdateFee(t)
<1>1. u \in Takable
  BY UpdateFeeMakes DEF Push, Takable
<1>2. DecodeBroadcast(EncodeTransaction(u)) = u
  <2>1. DecodeBroadcast(EncodeTransaction(u)) = [[u EXCEPT !.curve = FALSE] EXCEPT !.curve = TRUE]
    BY DEF DecodeBroadcast, EncodeTransaction, CopyVariables, CloneConstants, NewTransaction
  <2> HIDE DEF u
  <2> QED BY <1>1, <2>1 DEF Takable, Made, HippoTransaction
<1>3. /\ DOMAIN pool = Host /\ \A k \in Host : pool[k] \subseteq Takable /\ IsFiniteSet(pool[k])
      /\ \A e \in gossip : DecodeBroadcast(e) \in Takable
  BY DEF IInv, TransfersSigned, OfHosts
<1>4. CASE UNCHANGED <<pool, gossip>>
  BY <1>3, <1>4
<1>5. CASE /\ pool' = [pool EXCEPT ![h] = @ \cup {u}]
           /\ gossip' = gossip \cup {EncodeTransaction(u)}
  <2>1. IsFiniteSet(pool[h] \cup {u})
    BY <1>3, FS_AddElement
  <2> HIDE DEF u
  <2> QED BY <1>1, <1>2, <1>3, <1>5, <2>1
<1> QED BY <1>4, <1>5 DEF Push

\* A user's edits.
LEMMA EditKeeps ==
  ASSUME IInv, Edit
  PROVE  draft' \in Made /\ UNCHANGED <<pool, gossip>>
<1>1. draft \in Made
  BY DEF IInv, TransfersSigned
<1>2. \A s \in Senders \cup Receivers : s.addresses \in Seq(Key) /\ s.amounts \in Seq(Amount)
  BY ExchangeAssumption
<1>3. ASSUME NEW s \in Senders, Redraft(SetSender(draft, s.addresses, s.amounts))
      PROVE  draft' \in Made
  BY <1>1, <1>2, <1>3, SetSenderMakes DEF Redraft
<1>4. ASSUME NEW r \in Receivers, Redraft(SetReceiver(draft, r.addresses, r.amounts))
      PROVE  draft' \in Made
  BY <1>1, <1>2, <1>4, SetReceiverMakes DEF Redraft
<1>5. ASSUME Redraft(UpdateFee(draft)) PROVE draft' \in Made
  BY <1>1, <1>5, UpdateFeeMakes DEF Redraft
<1>6. ASSUME NEW key \in Key, Redraft(Sign(draft, key)) PROVE draft' \in Made
  BY <1>1, <1>6, SignMakes DEF Redraft
<1>7. ASSUME NEW key \in Key, NEW signature, Redraft(SetSignature(draft, key, signature))
      PROVE  draft' \in Made
  BY <1>1, <1>7, SetSignatureMakes DEF Redraft
<1>8. draft' \in Made
  BY <1>3, <1>4, <1>5, <1>6, <1>7 DEF Edit
<1>9. UNCHANGED <<pool, gossip>>
  BY DEF Edit, Redraft
<1> QED BY <1>8, <1>9

\* The form.
LEMMA PostKeeps ==
  ASSUME IInv, NEW h \in Host, NEW s \in Senders, NEW r \in Receivers,
         NEW keys \in [DOMAIN s.addresses -> Key], TransferPost(h, s, r, keys)
  PROVE  /\ draft' = draft /\ DOMAIN pool' = Host
         /\ \A k \in Host : pool'[k] \subseteq Takable /\ IsFiniteSet(pool'[k])
         /\ \A e \in gossip' : DecodeBroadcast(e) \in Takable
<1> DEFINE filled == UpdateFee(SetReceiver(SetSender(NewTransaction, s.addresses, s.amounts),
                                           r.addresses, r.amounts))
           signed == FoldLeft(Sign, filled, keys)
<1>1. /\ s.addresses \in Seq(Key) /\ s.amounts \in Seq(Amount)
      /\ r.addresses \in Seq(Key) /\ r.amounts \in Seq(Amount)
  BY ExchangeAssumption
<1>2. filled \in Made
  BY <1>1, NewIsMade, SetSenderMakes, SetReceiverMakes, UpdateFeeMakes
<1>3. Len(s.addresses) \in Nat /\ DOMAIN s.addresses = 1 .. Len(s.addresses)
  BY <1>1
<1>4. Push(h, signed) /\ draft' = draft
  BY DEF TransferPost
<1> HIDE DEF filled
<1>5. signed \in Made
  BY <1>2, <1>3, SignAllMakes
<1> HIDE DEF signed
<1> QED BY <1>4, <1>5, PushKeeps

\* Whatever the user does, what a host takes from him is signed.
LEMMA UserKeeps ==
  ASSUME IInv, UserStep
  PROVE  IInv'
<1>1. UNCHANGED <<miner, stored, found, sent>>
  BY DEF UserStep, Edit, Redraft, AddTransaction, TransferPost
<1>2. BlocksSigned'
  BY <1>1 DEF IInv, BlocksSigned, miner
<1>3. TransfersSigned' /\ DOMAIN pool' = Host
  <2>1. CASE Edit
    BY <2>1, EditKeeps DEF IInv, TransfersSigned, OfHosts
  <2>2. ASSUME NEW h \in Host, AddTransaction(h) PROVE TransfersSigned' /\ DOMAIN pool' = Host
    <3>1. draft \in Made
      BY DEF IInv, TransfersSigned
    <3>2. Push(h, draft) /\ draft' = NewTransaction
      BY <2>2 DEF AddTransaction
    <3> QED BY <3>1, <3>2, PushKeeps, NewIsMade DEF TransfersSigned
  <2>3. ASSUME NEW h \in Host, NEW s \in Senders, NEW r \in Receivers,
               NEW keys \in [DOMAIN s.addresses -> Key], TransferPost(h, s, r, keys)
        PROVE  TransfersSigned' /\ DOMAIN pool' = Host
    <3>1. draft \in Made
      BY DEF IInv, TransfersSigned
    <3> QED BY <2>3, <3>1, PostKeeps DEF TransfersSigned
  <2> QED BY <2>1, <2>2, <2>3 DEF UserStep
<1>4. OfHosts'
  BY <1>1, <1>3 DEF IInv, OfHosts, miner
<1> QED BY <1>2, <1>3, <1>4 DEF IInv

\* A transaction that arrives is one that was sent.
LEMMA ReceiveTransactionKeeps ==
  ASSUME IInv, NEW h \in Host, NEW e \in gossip, ReceiveTransaction(h, e)
  PROVE  IInv'
<1>1. Push(h, DecodeBroadcast(e)) /\ UNCHANGED <<draft, miner, stored, found, sent>>
  BY DEF ReceiveTransaction
<1>2. DecodeBroadcast(e) \in Made
  BY DEF IInv, TransfersSigned, Takable
<1>3. TransfersSigned' /\ DOMAIN pool' = Host
  BY <1>1, <1>2, PushKeeps DEF IInv, TransfersSigned
<1>4. BlocksSigned'
  BY <1>1 DEF IInv, BlocksSigned, miner
<1>5. OfHosts'
  BY <1>1, <1>3 DEF IInv, OfHosts, miner
<1> QED BY <1>3, <1>4, <1>5 DEF IInv
----------------------------------------------------------------------------
(* The blocks on their way *)

\* A block that is filled and then signed.
LEMMA SignBlockSigns ==
  ASSUME NEW b, DOMAIN b = Fields, b.curve = TRUE, NEW key \in Key,
         b.transactions \in Seq(Takable),
         b.numBytes \in 0 .. MaxBytes, b.level \in Nat, b.time \in Int,
         b.level > 0 => b.parent[2] = b.level - 1
  PROVE  SignedBlock(SignBlock(b, key))
<1> DEFINE c == SignBlock(b, key)
           signature == Signature(key, Hash(b))
<1>1. /\ DOMAIN c = Fields /\ c.miner = key /\ c.signature = signature
      /\ c.transactions = b.transactions /\ c.parent = b.parent /\ c.numBytes = b.numBytes
      /\ c.level = b.level /\ c.time = b.time /\ c.curve = b.curve
  BY DEF SignBlock, Fields
<1> HIDE DEF c
<1>2. Hash(c) = Hash(b)
  BY <1>1 DEF Hash, HashTransactions
<1>3. SignedBlock(c)
  BY <1>1, <1>2 DEF SignedBlock
<1> QED BY <1>3 DEF c

\* A genesis block builds on nothing.
LEMMA GenesisSigned ==
  ASSUME NEW key \in Key, NEW time \in Int
  PROVE  SignedBlock(CreateGenesisBlock(key, time))
<1> DEFINE b == NewBlock(NoHash, GenesisBytes, 0, FALSE, time)
<1>1. /\ DOMAIN b = Fields /\ b.curve = TRUE /\ b.transactions \in Seq(Takable)
      /\ b.numBytes \in 0 .. MaxBytes /\ b.level \in Nat /\ b.time \in Int
      /\ ~(b.level > 0)
  BY BlocksAssumption DEF NewBlock, Fields
<1> HIDE DEF b
<1>2. SignedBlock(SignBlock(b, key))
  BY <1>1, SignBlockSigns
<1> QED BY <1>2 DEF CreateGenesisBlock, b

\* A template builds on the hash of its parent.
LEMMA TemplateSigned ==
  ASSUME NEW h \in Host, SignedBlock(parent[h]), NEW numBytes \in 0 .. MaxBytes,
         NEW time \in Int, NEW transactions \in Seq(Takable)
  PROVE  SignedBlock(NewTemplate(h, numBytes, time, transactions))
<1> DEFINE p == parent[h]
           b == SetTransactions(NewBlock(Hash(p), numBytes, p.level + 1, p.balance, time),
                                transactions)
<1>1. /\ DOMAIN b = Fields /\ b.curve = TRUE /\ b.transactions = transactions
      /\ b.numBytes = numBytes /\ b.level = p.level + 1 /\ b.time = time /\ b.parent = Hash(p)
  BY DEF SetTransactions, NewBlock, Fields
<1>2. p.level \in Nat /\ Hash(p)[2] = p.level
  BY DEF SignedBlock, Hash
<1> HIDE DEF b, p
<1>3. b.level > 0 => b.parent[2] = b.level - 1
  BY <1>1, <1>2
<1>4. SignedBlock(SignBlock(b, h))
  <2>1. h \in Key
    BY ExchangeAssumption
  <2>2. /\ b.transactions \in Seq(Takable)
        /\ b.numBytes \in 0 .. MaxBytes /\ b.level \in Nat /\ b.time \in Int
    BY <1>1, <1>2
  <2> QED BY <1>1, <1>3, <2>1, <2>2, SignBlockSigns
<1> QED BY <1>4 DEF NewTemplate, b, p

\* The sequence of a finite set.
LEMMA SequenceOf ==
  ASSUME NEW T, NEW S \in SUBSET T, IsFiniteSet(S)
  PROVE  SetToSeq(S) \in Seq(T)
<1> DEFINE n == Cardinality(S)
<1>1. n \in Nat /\ ExistsBijection(1 .. n, S)
  BY FS_CardinalityType
<1>2. \E f \in [1 .. n -> S] : IsInjective(f)
  BY <1>1 DEF ExistsBijection, Bijection, Injection
<1>3. SetToSeq(S) \in [1 .. n -> S]
  BY <1>2 DEF SetToSeq
<1> HIDE DEF n
<1> QED BY <1>1, <1>3

\* The difficulty of the next block is in its range and one step from that of the
\* parent at most, whichever block the interval is of.
LEMMA RateStep ==
  ASSUME IInv, NEW h \in Host, stage[h] = "rate", NEW t \in Tops(h)
  PROVE  /\ Rate(h, t) \in 0 .. MaxBytes
         /\ Rate(h, t) - parent[h].numBytes \in -1 .. 1
<1> DEFINE n == parent[h].numBytes
           interval == GetLastInterval(stored[h], t)
<1>1. SignedBlock(parent[h]) /\ SignedBlock(t) /\ \A b \in stored[h] : SignedBlock(b)
  BY DEF IInv, BlocksSigned, Tops, Verified
<1>2. n \in 0 .. MaxBytes /\ MaxBytes \in Nat /\ BaseInterval \in Nat
  BY <1>1, BlocksAssumption DEF SignedBlock
<1>3. interval \in Int
  <2> DEFINE prev == {b \in stored[h] : Hash(b) = t.parent}
  <2>1. CASE t.level = 0 \/ prev = {}
    BY <2>1 DEF GetLastInterval
  <2>2. CASE ~(t.level = 0 \/ prev = {})
    <3>1. interval = t.time - (CHOOSE b \in prev : TRUE).time
      BY <2>2 DEF GetLastInterval
    <3>2. (CHOOSE b \in prev : TRUE) \in stored[h]
      BY <2>2
    <3> QED BY <1>1, <3>1, <3>2 DEF SignedBlock
  <2> QED BY <2>1, <2>2
<1>4. Rate(h, t) = BasicDifficulty(n, interval)
  BY DEF Rate
<1> HIDE DEF n, interval
<1>5. BasicDifficulty(n, interval) \in 0 .. MaxBytes /\ BasicDifficulty(n, interval) - n \in -1 .. 1
  BY <1>2, <1>3 DEF BasicDifficulty
<1> QED BY <1>4, <1>5 DEF n

\* A host mines what it has signed; the storages and the blocks on their way are as
\* they were.
LEMMA MineKeeps ==
  ASSUME IInv, NEW h \in Host, NEW b, SignedBlock(b), Mine(h, b),
         UNCHANGED <<parent, stored, found, sent>>
  PROVE  BlocksSigned' /\ DOMAIN template' = Host
<1>1. /\ stage' = [stage EXCEPT ![h] = "mining"] /\ template' = [template EXCEPT ![h] = b]
      /\ stage \in [Host -> {"genesis", "idle", "rate", "mining"}] /\ DOMAIN template = Host
  BY DEF Mine, IInv, BlocksSigned, OfHosts
<1>2. \A k \in Host : stage'[k] = "mining" => SignedBlock(template'[k])
  BY <1>1 DEF IInv, BlocksSigned
<1>3. \A k \in Host : stage'[k] = "rate" => parent'[k] \in stored'[k]
  BY <1>1 DEF IInv, BlocksSigned
<1> QED BY <1>1, <1>2, <1>3 DEF IInv, BlocksSigned

\* The genesis block of the host.
LEMMA GenesisKeeps ==
  ASSUME IInv, NEW h \in Host, Genesis(h)
  PROVE  IInv'
<1>1. PICK time \in Times : Mine(h, CreateGenesisBlock(h, time))
  BY DEF Genesis
<1>2. UNCHANGED <<user, parent, stored, found, sent>>
  BY DEF Genesis
<1>3. SignedBlock(CreateGenesisBlock(h, time))
  BY GenesisSigned, ExchangeAssumption
<1>4. BlocksSigned' /\ DOMAIN template' = Host
  BY <1>1, <1>2, <1>3, MineKeeps
<1>5. TransfersSigned' /\ OfHosts'
  BY <1>2, <1>4 DEF IInv, TransfersSigned, OfHosts, user
<1> QED BY <1>4, <1>5 DEF IInv

\* The watcher looks up the block to build on.
LEMMA TopKeeps ==
  ASSUME IInv, NEW h \in Host, GetTopBlock(h)
  PROVE  IInv'
<1>1. PICK t \in Tops(h) : parent' = [parent EXCEPT ![h] = t]
  BY DEF GetTopBlock
<1>2. /\ stage' = [stage EXCEPT ![h] = "rate"]
      /\ UNCHANGED <<user, template, stored, found, sent>>
  BY DEF GetTopBlock
<1>3. t \in stored[h]
  BY DEF Tops, Verified
<1>4. BlocksSigned'
  BY <1>1, <1>2, <1>3 DEF IInv, BlocksSigned, OfHosts
<1>5. TransfersSigned' /\ OfHosts'
  BY <1>1, <1>2 DEF IInv, TransfersSigned, OfHosts, user
<1> QED BY <1>4, <1>5 DEF IInv

\* The next block of the host: of its pool it takes what can be paid.
LEMMA BuildKeeps ==
  ASSUME IInv, NEW h \in Host, Build(h)
  PROVE  IInv'
<1>1. PICK look \in [pool[h] -> Balances] :
        LET payable == {t \in pool[h] : Check(t, TRUE, look[t])}
        IN  /\ \E top \in Tops(h), time \in Times :
                 Mine(h, NewTemplate(h, Rate(h, top), time, SetToSeq(payable)))
            /\ pool' = [pool EXCEPT ![h] = @ \ payable]
  BY DEF Build
<1> DEFINE payable == {t \in pool[h] : Check(t, TRUE, look[t])}
<1>2. /\ stage[h] = "rate"
      /\ pool' = [pool EXCEPT ![h] = @ \ payable]
      /\ UNCHANGED <<draft, gossip, parent, stored, found, sent>>
  BY <1>1 DEF Build
<1>10. PICK t \in Tops(h), time \in Times :
        Mine(h, NewTemplate(h, Rate(h, t), time, SetToSeq(payable)))
  BY <1>1
<1>3. SetToSeq(payable) \in Seq(Takable)
  <2>1. payable \in SUBSET Takable /\ IsFiniteSet(payable)
    <3>1. pool[h] \subseteq Takable /\ IsFiniteSet(pool[h])
      BY DEF IInv, TransfersSigned
    <3>2. IsFiniteSet(payable)
      BY <3>1, FS_Subset
    <3> QED BY <3>1, <3>2
  <2> HIDE DEF payable
  <2> QED BY <2>1, SequenceOf
<1> HIDE DEF payable
<1>4. Rate(h, t) \in 0 .. MaxBytes
  BY <1>2, RateStep
<1>5. SignedBlock(parent[h]) /\ time \in Int
  BY <1>2, ExchangeAssumption DEF IInv, BlocksSigned
<1>6. SignedBlock(NewTemplate(h, Rate(h, t), time, SetToSeq(payable)))
  BY <1>3, <1>4, <1>5, TemplateSigned
<1>7. BlocksSigned' /\ DOMAIN template' = Host
  BY <1>2, <1>6, <1>10, MineKeeps
<1>8. TransfersSigned'
  <2>1. ASSUME NEW k \in Host PROVE pool'[k] \subseteq Takable /\ IsFiniteSet(pool'[k])
    <3>1. pool'[k] \subseteq pool[k]
      BY <1>2 DEF IInv, OfHosts
    <3>2. pool[k] \subseteq Takable /\ IsFiniteSet(pool[k])
      BY DEF IInv, TransfersSigned
    <3> QED BY <3>1, <3>2, FS_Subset
  <2> QED BY <1>2, <2>1 DEF IInv, TransfersSigned
<1>9. OfHosts'
  BY <1>2, <1>7 DEF IInv, OfHosts
<1> QED BY <1>7, <1>8, <1>9 DEF IInv

\* A host that has no block to mine any more.
LEMMA IdleKeeps ==
  ASSUME IInv, NEW h \in Host, Idle(h)
  PROVE  /\ stage' \in [Host -> {"genesis", "idle", "rate", "mining"}]
         /\ \A k \in Host : stage'[k] \in {"rate", "mining"} =>
              /\ stage'[k] = stage[k] /\ parent'[k] = parent[k] /\ template'[k] = template[k]
         /\ DOMAIN parent' = Host /\ DOMAIN template' = Host
BY DEF Idle, IInv, BlocksSigned, OfHosts

\* The job is cancelled.
LEMMA GiveUpKeeps ==
  ASSUME IInv, NEW h \in Host, GiveUp(h)
  PROVE  IInv'
<1>1. Idle(h) /\ UNCHANGED <<user, stored, found, sent>>
  BY DEF GiveUp
<1>2. BlocksSigned'
  BY <1>1, IdleKeeps DEF IInv, BlocksSigned
<1>3. TransfersSigned' /\ OfHosts'
  BY <1>1, IdleKeeps DEF IInv, TransfersSigned, OfHosts, user
<1> QED BY <1>2, <1>3 DEF IInv

\* A storage keeps the blocks it has and a signed block that it is given.
LEMMA StoreKeeps ==
  ASSUME IInv, NEW h \in Host, NEW b, SignedBlock(b), Store(h, b)
  PROVE  /\ DOMAIN stored' = Host
         /\ \A k \in Host : stored[k] \subseteq stored'[k]
         /\ \A k \in Host : \A c \in stored'[k] : SignedBlock(c)
<1>1. stored' = [stored EXCEPT ![h] = IF Known(h, b) THEN @ ELSE @ \cup {SetBalance(b)}]
  BY DEF Store
<1>2. DOMAIN stored = Host /\ \A k \in Host : \A c \in stored[k] : SignedBlock(c)
  BY DEF IInv, OfHosts, BlocksSigned
<1>3. SignedBlock(SetBalance(b))
  BY BalanceApart
<1>4. \A k \in Host : stored'[k] \in {stored[k], stored[k] \cup {SetBalance(b)}}
  BY <1>1, <1>2
<1>5. DOMAIN stored' = Host
  BY <1>1, <1>2
<1> QED BY <1>2, <1>3, <1>4, <1>5

\* A nonce is found; if the own storage accepts the block, it is sent.
LEMMA FindKeeps ==
  ASSUME IInv, NEW h \in Host, Find(h)
  PROVE  IInv'
<1> DEFINE b == Solve(template[h])
<1>1. /\ stage[h] = "mining" /\ Solvable(template[h]) /\ Idle(h) /\ UNCHANGED user
      /\ found' = found \cup {b}
  BY DEF Find
<1>2. \/ Store(h, b) /\ sent' = sent \cup {EncodeBlock(b)}
      \/ UNCHANGED <<stored, sent>>
  BY DEF Find
<1>3. SolvedBlock(b)
  BY <1>1, SolveSolves DEF IInv, BlocksSigned
<1> HIDE DEF b
<1>4. /\ DOMAIN stored' = Host /\ \A k \in Host : stored[k] \subseteq stored'[k]
      /\ \A k \in Host : \A c \in stored'[k] : SignedBlock(c)
  <2>1. CASE Store(h, b)
    BY <1>3, <2>1, StoreKeeps DEF SolvedBlock
  <2>2. CASE UNCHANGED stored
    BY <2>2 DEF IInv, BlocksSigned, OfHosts
  <2> QED BY <1>2, <2>1, <2>2
<1>5. \A e \in sent' : SolvedBlock(DecodeBlock(e))
  <2>1. SolvedBlock(DecodeBlock(EncodeBlock(b)))
    BY <1>3, DecodeEncode, BalanceApart DEF SolvedBlock
  <2>2. \A e \in sent : SolvedBlock(DecodeBlock(e))
    BY DEF IInv, BlocksSigned
  <2> QED BY <1>2, <2>1, <2>2
<1>6. BlocksSigned'
  BY <1>1, <1>3, <1>4, <1>5, IdleKeeps DEF IInv, BlocksSigned
<1>7. TransfersSigned' /\ OfHosts'
  BY <1>1, <1>4, IdleKeeps DEF IInv, TransfersSigned, OfHosts, user
<1> QED BY <1>6, <1>7 DEF IInv

\* A block that arrives.
LEMMA ReceiveBlockKeeps ==
  ASSUME IInv, NEW h \in Host, NEW e \in sent, ReceiveBlock(h, e)
  PROVE  IInv'
<1> DEFINE b == DecodeBlock(e)
<1>1. Store(h, b) /\ UNCHANGED <<user, miner, found, sent>>
  BY DEF ReceiveBlock
<1>2. SignedBlock(b)
  BY DEF IInv, BlocksSigned, SolvedBlock
<1> HIDE DEF b
<1>3. /\ DOMAIN stored' = Host /\ \A k \in Host : stored[k] \subseteq stored'[k]
      /\ \A k \in Host : \A c \in stored'[k] : SignedBlock(c)
  BY <1>1, <1>2, StoreKeeps
<1>4. BlocksSigned'
  BY <1>1, <1>3 DEF IInv, BlocksSigned, miner
<1>5. TransfersSigned' /\ OfHosts'
  BY <1>1, <1>3 DEF IInv, TransfersSigned, OfHosts, user, miner
<1> QED BY <1>4, <1>5 DEF IInv

\* Every step keeps the invariant.
LEMMA NextIInv == IInv /\ [Next]_vars => IInv'
<1> SUFFICES ASSUME IInv, [Next]_vars PROVE IInv'
  OBVIOUS
<1>1. CASE UNCHANGED vars
  BY <1>1 DEF vars, user, miner, IInv, BlocksSigned, TransfersSigned, OfHosts
<1> QED BY <1>1, UserKeeps, GenesisKeeps, TopKeeps, BuildKeeps, GiveUpKeeps, FindKeeps,
           ReceiveTransactionKeeps, ReceiveBlockKeeps DEF Next

\* IInv is an invariant of Exchange.
THEOREM SpecIInv == Spec => []IInv
BY InitIInv, NextIInv, PTL DEF Spec
----------------------------------------------------------------------------
\* A host takes transactions only whose senders are all different, in whatever order
\* the methods of HippoTransaction have been called: a second place of an address is
\* never signed.
THEOREM SendersDiffer == Spec => []SenderOnce
<1>1. IInv => SenderOnce
  <2> SUFFICES ASSUME IInv, NEW t, t \in Taken PROVE IsInjective(t.senders)
    BY DEF SenderOnce
  <2>1. t \in Takable
    <3>1. CASE \E h \in Host : t \in pool[h]
      BY <3>1 DEF IInv, TransfersSigned
    <3>2. ASSUME NEW b \in found, t \in Range(b.transactions) PROVE t \in Takable
      <4>1. b.transactions \in Seq(Takable)
        BY DEF IInv, BlocksSigned, SolvedBlock, SignedBlock
      <4> QED BY <3>2, <4>1 DEF Range
    <3>3. (\E h \in Host : t \in pool[h]) \/ (\E b \in found : t \in Range(b.transactions))
      <4> DEFINE A == UNION {pool[h] : h \in Host}
                 B == UNION {Range(b.transactions) : b \in found}
      <4>1. t \in A => \E h \in Host : t \in pool[h]
        OBVIOUS
      <4>2. t \in B => \E b \in found : t \in Range(b.transactions)
        OBVIOUS
      <4>3. t \in A \cup B
        BY Zenon DEF Taken
      <4> HIDE DEF A, B
      <4> QED BY <4>1, <4>2, <4>3
    <3> QED BY <3>1, <3>2, <3>3
  <2> QED BY <2>1, TakableOnce
<1> QED BY SpecIInv, <1>1, PTL

\* Whatever a host stores or mines builds on the level below, although hashes leave
\* out so much that two blocks may share one.
THEOREM LevelsBuildUp == Spec => []LevelsFit
<1>1. IInv => LevelsFit
  <2> SUFFICES ASSUME IInv,
                      NEW b, \/ \E h \in Host : b \in stored[h]
                             \/ \E h \in Host : stage[h] = "mining" /\ b = template[h],
                      NEW p, \E h \in Host : p \in stored[h],
                      b.level > 0, Hash(p) = b.parent
               PROVE  b.level = p.level + 1
    BY DEF LevelsFit
  <2>1. SignedBlock(b) /\ SignedBlock(p)
    BY DEF IInv, BlocksSigned
  <2>2. b.parent[2] = b.level - 1 /\ Hash(p)[2] = p.level
    BY <2>1 DEF SignedBlock, Hash
  <2> QED BY <2>1, <2>2 DEF SignedBlock
<1> QED BY SpecIInv, <1>1, PTL

\* A block that was found is refused, by its miner or by a receiver, only for a
\* balance: signing, solving, encoding and decoding leave it one that passes the rest
\* of Check, with the same hash and the same changes.
THEOREM BlocksAreAccepted == Spec => []OnlyBalancesRefuse
<1>1. IInv => OnlyBalancesRefuse
  <2> SUFFICES ASSUME IInv, NEW b \in found
               PROVE  LET arrived == DecodeBlock(EncodeBlock(b))
                          n == Len(b.transactions)
                      IN  /\ \A look \in Looks(n) :
                               LET paid == \A i \in 1 .. n :
                                             CheckBalance(b.transactions[i], TRUE, look[i])
                               IN  /\ CheckBlock(SetBalance(b), look) <=> paid
                                   /\ CheckBlock(arrived, look) <=> paid
                          /\ Hash(arrived) = Hash(b)
                          /\ BlockBalanceChange(arrived) = BlockBalanceChange(b)
    BY DEF OnlyBalancesRefuse
  <2>1. SolvedBlock(b) /\ SignedBlock(b)
    BY DEF IInv, BlocksSigned, SolvedBlock
  <2>2. DecodeBlock(EncodeBlock(b)) = SetBalance(b)
    BY <2>1, DecodeEncode
  <2>3. \A look : CheckBlock(SetBalance(b), look) <=>
                    \A i \in 1 .. Len(b.transactions) :
                      CheckBalance(b.transactions[i], TRUE, look[i])
    BY <2>1, SolvedIsPaid
  <2>4. /\ Hash(SetBalance(b)) = Hash(b)
        /\ SetBalance(b).transactions = b.transactions /\ SetBalance(b).miner = b.miner
    BY <2>1, BalanceApart
  <2>5. BlockBalanceChange(SetBalance(b)) = BlockBalanceChange(b)
    BY <2>4 DEF BlockBalanceChange
  <2> QED BY <2>2, <2>3, <2>4, <2>5
<1> QED BY SpecIInv, <1>1, PTL

\* Two lookups of the top block that find different blocks, clocks that differ and
\* blocks with one hash: the difficulty still moves one step at a time.
THEOREM DifficultyMovesByOne == Spec => []DifficultySteps
<1>1. IInv => DifficultySteps
  BY RateStep DEF DifficultySteps
<1> QED BY SpecIInv, <1>1, PTL
----------------------------------------------------------------------------
(* Coins in the arithmetic of the code *)

\* Two numbers that Wrap makes one.
Congruent(x, y) == \E k \in Int : x = y + k * 2 ^ Width

\* Wrap takes whole turns away.
LEMMA WrapCongruent ==
  ASSUME NEW x \in Int
  PROVE  Wrap(x) \in 0 .. 2 ^ Width - 1 /\ Congruent(Wrap(x), x)
<1> DEFINE M == 2 ^ Width
<1>1. M \in Nat /\ M > 0
  BY TransactionsAssumption
<1>2. Wrap(x) = x % M
  BY DEF Wrap
<1> HIDE DEF M
<1>3. x \div M \in Int /\ x % M \in 0 .. M - 1
  BY <1>1
<1>4. x = (M * (x \div M)) + (x % M)
  BY <1>1
<1> DEFINE q == x \div M
           r == x % M
<1>5. q \in Int /\ r \in Int /\ x = (M * q) + r
  BY <1>3, <1>4
<1>6. 0 - q \in Int /\ r = x + (0 - q) * M
  <2> HIDE DEF q, r
  <2> QED BY <1>1, <1>5
<1> QED BY <1>2, <1>3, <1>6 DEF Congruent, M

\* Congruence is symmetric.
LEMMA CongruentSwap ==
  ASSUME NEW x \in Int, NEW y \in Int, Congruent(x, y)
  PROVE  Congruent(y, x)
<1> DEFINE M == 2 ^ Width
<1>1. M \in Int
  BY TransactionsAssumption
<1>2. PICK k \in Int : x = y + k * M
  BY DEF Congruent
<1> HIDE DEF M
<1>3. y = x + (0 - k) * M
  BY <1>1, <1>2
<1> QED BY <1>3 DEF Congruent, M

\* And transitive.
LEMMA CongruentTrans ==
  ASSUME NEW x \in Int, NEW y \in Int, Congruent(x, y), NEW z \in Int, Congruent(y, z)
  PROVE  Congruent(x, z)
<1> DEFINE M == 2 ^ Width
<1>1. M \in Int
  BY TransactionsAssumption
<1>2. PICK k \in Int : x = y + k * M
  BY DEF Congruent
<1>3. PICK l \in Int : y = z + l * M
  BY DEF Congruent
<1> HIDE DEF M
<1>4. x = z + (k + l) * M
  BY <1>1, <1>2, <1>3
<1> QED BY <1>4 DEF Congruent, M

\* Congruent numbers are added.
LEMMA CongruentAdd ==
  ASSUME NEW x \in Int, NEW y \in Int, Congruent(x, y),
         NEW u \in Int, NEW v \in Int, Congruent(u, v)
  PROVE  Congruent(x + u, y + v)
<1> DEFINE M == 2 ^ Width
<1>1. M \in Int
  BY TransactionsAssumption
<1>2. PICK k \in Int : x = y + k * M
  BY DEF Congruent
<1>3. PICK l \in Int : u = v + l * M
  BY DEF Congruent
<1> HIDE DEF M
<1> DEFINE kM == k * M
           lM == l * M
<1>4. kM \in Int /\ lM \in Int /\ (k + l) * M = kM + lM
  BY <1>1
<1>5. x = y + kM /\ u = v + lM
  BY <1>2, <1>3
<1> HIDE DEF kM, lM
<1>6. x + u = (y + v) + (k + l) * M
  BY <1>4, <1>5
<1> QED BY <1>6 DEF Congruent, M

\* Congruent numbers are one number to the code.
LEMMA CongruentWraps ==
  ASSUME NEW x \in Int, NEW y \in Int, Congruent(x, y)
  PROVE  Wrap(x) = Wrap(y)
<1> DEFINE M == 2 ^ Width
           u == Wrap(x)
           v == Wrap(y)
<1>1. M \in Nat /\ M > 0
  BY TransactionsAssumption
<1>2. u \in 0 .. M - 1 /\ v \in 0 .. M - 1 /\ Congruent(u, x) /\ Congruent(v, y)
  BY WrapCongruent
<1> HIDE DEF u, v
<1>3. Congruent(u, v)
  <2>1. u \in Int /\ v \in Int
    BY <1>1, <1>2
  <2>2. Congruent(u, y) /\ Congruent(y, v)
    BY <1>2, <2>1, CongruentTrans, CongruentSwap
  <2> QED BY <2>1, <2>2, CongruentTrans
<1>4. PICK k \in Int : u = v + k * M
  BY <1>3 DEF Congruent
<1> HIDE DEF M
<1>5. k >= 1 => k * M >= M
  BY <1>1
<1>6. k <= -1 => k * M <= 0 - M
  BY <1>1
<1>7. k * M \in Int /\ (k = 0 => k * M = 0)
  BY <1>1
<1>8. k = 0 \/ k >= 1 \/ k <= -1
  OBVIOUS
<1>9. u = v
  BY <1>1, <1>2, <1>4, <1>5, <1>6, <1>7, <1>8
<1> QED BY <1>9 DEF u, v

\* Half of the range of uint64.
Half == 2 ^ (Width - 1)

\* Conversion to int64 takes whole turns away, and nothing from what fits.
LEMMA SignedValue ==
  ASSUME NEW x \in Int
  PROVE  /\ Signed(x) \in Int /\ Congruent(Signed(x), x)
         /\ -Half <= x /\ x < Half => Signed(x) = x
<1> DEFINE M == 2 ^ Width
           y == x + Half
<1>1. Half \in Nat \ {0} /\ M = 2 * Half /\ M \in Int
  BY TransactionsAssumption DEF Half
<1>2. Signed(x) = Wrap(y) - Half
  BY DEF Signed, Half
<1> HIDE DEF M
<1>3. y \in Int /\ y = x + Half
  BY <1>1
<1> HIDE DEF y
<1>4. Wrap(y) \in 0 .. M - 1 /\ Congruent(Wrap(y), y)
  BY <1>3, WrapCongruent DEF M
<1>5. PICK k \in Int : Wrap(y) = y + k * M
  BY <1>4 DEF Congruent, M
<1>6. Congruent(Signed(x), x)
  <2>1. k * M \in Int
    BY <1>1
  <2>2. Signed(x) = x + k * M
    BY <1>1, <1>2, <1>3, <1>5, <2>1
  <2> QED BY <2>2 DEF Congruent, M
<1>7. ASSUME -Half <= x, x < Half PROVE Signed(x) = x
  <2>1. y \in 0 .. M - 1
    BY <1>1, <1>3, <1>7
  <2>2. y % M = y
    BY <1>1, <2>1
  <2>3. Wrap(y) = y
    BY <2>2 DEF Wrap, M
  <2> QED BY <1>1, <1>2, <1>3, <2>3
<1>8. Signed(x) \in Int
  BY <1>1, <1>2, <1>4
<1> QED BY <1>6, <1>7, <1>8

\* Congruent numbers are one number when they are converted.
LEMMA CongruentSigns ==
  ASSUME NEW x \in Int, NEW y \in Int, Congruent(x, y)
  PROVE  Signed(x) = Signed(y)
<1>1. Half \in Int
  BY TransactionsAssumption DEF Half
<1>2. Congruent(Half, Half)
  <2> DEFINE M == 2 ^ Width
  <2>1. M \in Int
    BY TransactionsAssumption
  <2> HIDE DEF M
  <2>2. Half = Half + 0 * M
    BY <1>1, <2>1
  <2> QED BY <2>2 DEF Congruent, M
<1>3. Congruent(x + Half, y + Half)
  BY <1>1, <1>2, CongruentAdd
<1>4. x + Half \in Int /\ y + Half \in Int
  BY <1>1
<1>5. Wrap(x + Half) = Wrap(y + Half)
  BY <1>3, <1>4, CongruentWraps
<1> QED BY <1>5 DEF Signed, Half

\* Sums of congruent numbers are congruent.
LEMMA CongruentSums ==
  ASSUME NEW D, IsFiniteSet(D), NEW f, NEW g,
         \A x \in D : f[x] \in Int /\ g[x] \in Int /\ Congruent(f[x], g[x])
  PROVE  Congruent(SumFunctionOnSet(f, D), SumFunctionOnSet(g, D))
<1> DEFINE M == 2 ^ Width
           k == [x \in D |-> CHOOSE n \in Int : f[x] = g[x] + n * M]
           h == [x \in D |-> k[x] * M]
           n == SumFunctionOnSet(k, D)
<1>1. M \in Int
  BY TransactionsAssumption
<1>2. \A x \in D : k[x] \in Int /\ f[x] = g[x] + k[x] * M
  BY DEF Congruent
<1> HIDE DEF M, k
<1>3. \A x \in D : k[x] \in Int /\ h[x] = k[x] * M
  BY <1>2
<1>4. \A x \in D : g[x] \in Int /\ h[x] \in Int /\ f[x] = g[x] + h[x]
  BY <1>1, <1>2
<1>5. n \in Int
  BY <1>3, SumType
<1> HIDE DEF h
<1>6. SumFunctionOnSet(h, D) = n * M
  BY <1>1, <1>3, SumTimes
<1>7. SumFunctionOnSet(f, D) = SumFunctionOnSet(g, D) + SumFunctionOnSet(h, D)
  BY <1>4, SumAdd
<1> HIDE DEF n
<1> QED BY <1>5, <1>6, <1>7 DEF Congruent, M

\* What a list of amounts gives to all addresses together.
LEMMA SumOfAll ==
  ASSUME NEW addresses \in Seq(Key), NEW amounts \in Seq(Amount),
         Len(addresses) = Len(amounts), NEW h,
         \A a \in Key : h[a] = Sum(addresses, amounts, a)
  PROVE  /\ \A a \in Key : h[a] \in 0 .. SumFunction(amounts)
         /\ SumFunction(amounts) \in Nat
         /\ SumFunctionOnSet(h, Key) = SumFunction(amounts)
<1> DEFINE I == DOMAIN addresses
<1>1. IsFiniteSet(I) /\ I = DOMAIN amounts
  <2>1. I = 1 .. Len(addresses) /\ Len(addresses) \in Nat
    OBVIOUS
  <2>2. IsFiniteSet(1 .. Len(addresses))
    BY <2>1, FS_Interval
  <2> QED BY <2>1, <2>2
<1>2. \A i \in I : amounts[i] \in Nat /\ amounts[i] \in Int /\ addresses[i] \in Key
  <2>1. \A i \in I : amounts[i] \in Amount
    BY <1>1
  <2>2. \A n \in Amount : n \in Nat /\ n \in Int
    BY TransactionsAssumption DEF Amount
  <2> QED BY <2>1, <2>2
<1>3. SumFunction(amounts) = SumFunctionOnSet(amounts, I)
  BY <1>1 DEF SumFunction
<1>4. \A a \in Key : h[a] = SumFunctionOnSet(amounts, {i \in I : addresses[i] = a})
  BY DEF Sum
<1>5. SumFunctionOnSet(amounts, I) \in Nat
  BY <1>1, <1>2, SumPart
<1>6. \A a \in Key : h[a] \in 0 .. SumFunctionOnSet(amounts, I)
  <2>1. ASSUME NEW a \in Key PROVE h[a] \in 0 .. SumFunctionOnSet(amounts, I)
    <3> DEFINE J == {i \in I : addresses[i] = a}
    <3>1. J \in SUBSET I
      OBVIOUS
    <3>2. h[a] = SumFunctionOnSet(amounts, J)
      BY <1>4
    <3>3. \A i \in I : amounts[i] \in Nat
      BY <1>2
    <3>4. IsFiniteSet(I)
      BY <1>1
    <3> HIDE DEF J, I
    <3> QED BY <3>1, <3>2, <3>3, <3>4, SumPart
  <2> QED BY <2>1
<1>7. IsFiniteSet(Key)
  BY TransactionsAssumption
<1> DEFINE group == [a \in Key |-> {i \in I : addresses[i] = a}]
<1>8. \A a \in Key : group[a] \in SUBSET I
  OBVIOUS
<1>9. \A a \in Key, i \in I : i \in group[a] <=> addresses[i] = a
  OBVIOUS
<1>10. \A a \in Key : h[a] = SumFunctionOnSet(amounts, group[a])
  BY <1>4
<1>11. IsFiniteSet(I)
  BY <1>1
<1> HIDE DEF I, group
<1>12. SumFunctionOnSet(h, Key) = SumFunctionOnSet(amounts, I)
  BY <1>2, <1>7, <1>8, <1>9, <1>10, <1>11, SumGroups
<1> QED BY <1>3, <1>5, <1>6, <1>12

\* What a transaction takes and gives, in whole numbers.
Pays(t) == SumFunction(t.senderAmounts)
Gets(t) == SumFunction(t.receiverAmounts)

\* What it moves to an address, with what the senders pay too much for the
\* miner m.
Moves(t, m, a) ==
  (Sum(t.receivers, t.receiverAmounts, a) - Sum(t.senders, t.senderAmounts, a))
  + IF a = m THEN Pays(t) - Gets(t) ELSE 0

\* The same as the code has it.
Changes(t, m, a) ==
  GetBalanceChange(t, a) + IF a = m THEN UpdateFee(t).fee ELSE 0

\* What the receivers of a transaction get, and what the senders pay.
LEMMA TransferSums ==
  ASSUME NEW t \in Takable
  PROVE  /\ Pays(t) \in Nat /\ Gets(t) \in Nat
         /\ \A a \in Key : /\ Sum(t.receivers, t.receiverAmounts, a) \in 0 .. Gets(t)
                           /\ Sum(t.senders, t.senderAmounts, a) \in 0 .. Pays(t)
         /\ \A gets : (\A a \in Key : gets[a] = Sum(t.receivers, t.receiverAmounts, a))
                        => SumFunctionOnSet(gets, Key) = Gets(t)
         /\ \A pays : (\A a \in Key : pays[a] = Sum(t.senders, t.senderAmounts, a))
                        => SumFunctionOnSet(pays, Key) = Pays(t)
<1> DEFINE gets == [a \in Key |-> Sum(t.receivers, t.receiverAmounts, a)]
           pays == [a \in Key |-> Sum(t.senders, t.senderAmounts, a)]
<1>1. /\ t.senders \in Seq(Key) /\ t.senderAmounts \in Seq(Amount)
      /\ t.receivers \in Seq(Key) /\ t.receiverAmounts \in Seq(Amount)
      /\ Len(t.senders) = Len(t.senderAmounts) /\ Len(t.receivers) = Len(t.receiverAmounts)
  BY DEF Takable, Made, HippoTransaction
<1>2. /\ \A a \in Key : gets[a] = Sum(t.receivers, t.receiverAmounts, a)
      /\ \A a \in Key : pays[a] = Sum(t.senders, t.senderAmounts, a)
  OBVIOUS
<1> HIDE DEF gets, pays
<1>3. /\ \A a \in Key : gets[a] \in 0 .. Gets(t)
      /\ Gets(t) \in Nat
  BY <1>1, <1>2, SumOfAll DEF Gets
<1>4. /\ \A a \in Key : pays[a] \in 0 .. Pays(t)
      /\ Pays(t) \in Nat
  BY <1>1, <1>2, SumOfAll DEF Pays
<1>5. ASSUME NEW g, \A a \in Key : g[a] = Sum(t.receivers, t.receiverAmounts, a)
      PROVE  SumFunctionOnSet(g, Key) = Gets(t)
  BY <1>1, <1>5, SumOfAll DEF Gets
<1>6. ASSUME NEW p, \A a \in Key : p[a] = Sum(t.senders, t.senderAmounts, a)
      PROVE  SumFunctionOnSet(p, Key) = Pays(t)
  BY <1>1, <1>6, SumOfAll DEF Pays
<1> QED BY <1>2, <1>3, <1>4, <1>5, <1>6

\* The fee of a transaction that is taken is what the senders pay too much, but for
\* whole turns: CheckFee.
LEMMA FeeValue ==
  ASSUME NEW t \in Takable
  PROVE  UpdateFee(t).fee \in Int /\ Congruent(UpdateFee(t).fee, Pays(t) - Gets(t))
<1> DEFINE R == Gets(t)
           S == Pays(t)
           fee == UpdateFee(t).fee
           M == 2 ^ Width
<1>1. R \in Int /\ S \in Int /\ M \in Int
  BY TransferSums, TransactionsAssumption
<1>2. fee \in Int /\ Wrap(S) = Wrap(Wrap(R) + fee)
  <2>1. UpdateFee(t) \in Made
    BY UpdateFeeMakes DEF Takable
  <2>2. fee \in Int
    BY <2>1 DEF Made, HippoTransaction
  <2>3. CheckFee(t)
    BY DEF Takable, CheckWithoutBalance
  <2> QED BY <2>2, <2>3 DEF CheckFee, SenderSum, ReceiverSum, Pays, Gets
<1> HIDE DEF R, S, fee, M
<1> DEFINE u == Wrap(S)
           v == Wrap(R)
           w == Wrap(v + fee)
<1>3. u \in Int /\ v \in Int /\ Congruent(u, S) /\ Congruent(v, R)
  BY <1>1, WrapCongruent DEF M
<1>4. v + fee \in Int
  BY <1>2, <1>3
<1> HIDE DEF v
<1>5. w \in Int /\ Congruent(w, v + fee)
  BY <1>1, <1>4, WrapCongruent DEF M
<1>6. u = w
  BY <1>2 DEF v
<1> HIDE DEF u, w
<1>7. PICK k \in Int : u = S + k * M
  BY <1>3 DEF Congruent, M
<1>8. PICK l \in Int : v = R + l * M
  BY <1>3 DEF Congruent, M
<1>9. PICK n \in Int : w = (v + fee) + n * M
  BY <1>5 DEF Congruent, M
<1> DEFINE kM == k * M
           lM == l * M
           nM == n * M
<1>10. kM \in Int /\ lM \in Int /\ nM \in Int
  BY <1>1
<1>11. (k - l) - n \in Int /\ ((k - l) - n) * M = (kM - lM) - nM
  BY <1>1
<1>12. u = S + kM /\ v = R + lM /\ w = (v + fee) + nM
  BY <1>7, <1>8, <1>9
<1> HIDE DEF kM, lM, nM
<1>13. fee = (S - R) + ((kM - lM) - nM)
  <2>1. v \in Int /\ w \in Int /\ fee \in Int
    BY <1>2, <1>3, <1>5
  <2>2. fee = (w - v) - nM
    BY <1>10, <1>12, <2>1
  <2>3. w = S + kM /\ v = R + lM
    BY <1>6, <1>12
  <2> QED BY <1>1, <1>10, <2>2, <2>3
<1>14. fee = (S - R) + ((k - l) - n) * M
  BY <1>11, <1>13
<1>15. Congruent(fee, S - R)
  BY <1>11, <1>14 DEF Congruent, M
<1> QED BY <1>2, <1>15 DEF fee, R, S

\* A transaction that is taken moves what is there, and no address gets or loses more
\* than it names; what the code has differs by whole turns.
LEMMA TransferMoves ==
  ASSUME NEW t \in Takable, NEW m \in Key
  PROVE  /\ Pays(t) + Gets(t) \in Nat
         /\ \A a \in Key : /\ Moves(t, m, a) \in Int /\ Changes(t, m, a) \in Int
                           /\ Moves(t, m, a) <= Pays(t) + Gets(t)
                           /\ 0 - (Pays(t) + Gets(t)) <= Moves(t, m, a)
                           /\ Congruent(Changes(t, m, a), Moves(t, m, a))
         /\ \A e : (\A a \in Key : e[a] = Moves(t, m, a)) => SumFunctionOnSet(e, Key) = 0
<1> DEFINE R == Gets(t)
           S == Pays(t)
           gets == [a \in Key |-> Sum(t.receivers, t.receiverAmounts, a)]
           pays == [a \in Key |-> Sum(t.senders, t.senderAmounts, a)]
           over == [a \in Key |-> IF a = m THEN S - R ELSE 0]
           d == [a \in Key |-> gets[a] - pays[a]]
           fee == UpdateFee(t).fee
<1>1. /\ R \in Nat /\ S \in Nat
      /\ \A a \in Key : gets[a] \in 0 .. R /\ pays[a] \in 0 .. S
      /\ SumFunctionOnSet(gets, Key) = R /\ SumFunctionOnSet(pays, Key) = S
  <2>1. /\ \A a \in Key : gets[a] = Sum(t.receivers, t.receiverAmounts, a)
        /\ \A a \in Key : pays[a] = Sum(t.senders, t.senderAmounts, a)
    OBVIOUS
  <2> HIDE DEF gets, pays
  <2> QED BY <2>1, TransferSums
<1>2. \A a \in Key : Moves(t, m, a) = d[a] + over[a]
  BY DEF Moves
<1>3. \A a \in Key : Changes(t, m, a) = Signed(d[a]) + IF a = m THEN fee ELSE 0
  BY DEF Changes, GetBalanceChange
<1>4. fee \in Int /\ Congruent(fee, S - R)
  BY FeeValue
<1>5. over[m] = S - R /\ \A a \in Key : a # m => over[a] = 0
  OBVIOUS
<1>6. \A a \in Key : gets[a] \in Int /\ pays[a] \in Int /\ d[a] = gets[a] - pays[a]
  <2>1. \A a \in Key : d[a] = gets[a] - pays[a]
    OBVIOUS
  <2> HIDE DEF gets, pays, d
  <2> QED BY <1>1, <2>1
<1> HIDE DEF R, S, gets, pays, over, d, fee
<1>7. \A a \in Key : d[a] \in Int /\ over[a] \in Int
  BY <1>1, <1>5, <1>6
<1>8. ASSUME NEW a \in Key
      PROVE  /\ Moves(t, m, a) \in Int /\ Changes(t, m, a) \in Int
             /\ Moves(t, m, a) <= S + R /\ 0 - (S + R) <= Moves(t, m, a)
             /\ Congruent(Changes(t, m, a), Moves(t, m, a))
  <2>1. gets[a] \in 0 .. R /\ pays[a] \in 0 .. S /\ d[a] = gets[a] - pays[a]
    BY <1>1, <1>6
  <2>2. Signed(d[a]) \in Int /\ Congruent(Signed(d[a]), d[a])
    BY <1>7, SignedValue
  <2>3. CASE a = m
    <3>1. Moves(t, m, a) = d[a] + (S - R) /\ Changes(t, m, a) = Signed(d[a]) + fee
      BY <1>2, <1>3, <1>5, <2>3
    <3>2. Congruent(Signed(d[a]) + fee, d[a] + (S - R))
      <4>1. S - R \in Int /\ fee \in Int /\ Congruent(fee, S - R)
        BY <1>1, <1>4
      <4>2. d[a] \in Int /\ Signed(d[a]) \in Int /\ Congruent(Signed(d[a]), d[a])
        BY <1>7, <2>2
      <4> QED BY <4>1, <4>2, CongruentAdd
    <3> QED BY <1>1, <1>4, <1>7, <2>1, <2>2, <3>1, <3>2
  <2>4. CASE a # m
    <3>1. Moves(t, m, a) = d[a] /\ Changes(t, m, a) = Signed(d[a])
      BY <1>2, <1>3, <1>5, <1>7, <2>2, <2>4
    <3> QED BY <1>1, <2>1, <2>2, <3>1
  <2> QED BY <2>3, <2>4
<1>9. ASSUME NEW e, \A a \in Key : e[a] = Moves(t, m, a)
      PROVE  SumFunctionOnSet(e, Key) = 0
  <2>1. IsFiniteSet(Key)
    BY TransactionsAssumption
  <2>2. \A a \in Key : d[a] \in Int /\ over[a] \in Int /\ e[a] = d[a] + over[a]
    BY <1>2, <1>7, <1>9
  <2>3. SumFunctionOnSet(e, Key) = SumFunctionOnSet(d, Key) + SumFunctionOnSet(over, Key)
    BY <2>1, <2>2, SumAdd
  <2>4. \A a \in Key : d[a] \in Int /\ pays[a] \in Int /\ gets[a] = d[a] + pays[a]
    BY <1>6, <1>7
  <2>5. SumFunctionOnSet(gets, Key) = SumFunctionOnSet(d, Key) + SumFunctionOnSet(pays, Key)
    BY <2>1, <2>4, SumAdd
  <2>6. SumFunctionOnSet(over, Key) = S - R
    BY <1>5, <1>7, <2>1, SumOne
  <2>7. SumFunctionOnSet(d, Key) \in Int
    BY <1>7, <2>1, SumType
  <2> DEFINE x == SumFunctionOnSet(d, Key)
  <2>8. R = x + S /\ SumFunctionOnSet(e, Key) = x + (S - R) /\ x \in Int
    BY <1>1, <2>3, <2>5, <2>6, <2>7
  <2> HIDE DEF x
  <2> QED BY <1>1, <2>8
<1>10. S + R \in Nat
  BY <1>1
<1> QED BY <1>8, <1>9, <1>10 DEF S, R

\* What a block whose amounts fit gives to all addresses together is the reward.  The
\* rows of the table are what an address gets from each transaction, fees included;
\* its columns come to nothing.
LEMMA ChangesAreReward ==
  ASSUME NEW b, SignedBlock(b), Volume(b) < Half
  PROVE  SumFunction(BlockBalanceChange(b)) = Reward
<1> DEFINE txs == b.transactions
           m == b.miner
           I == DOMAIN txs
           coded == [a \in Key |-> [i \in I |-> Changes(txs[i], m, a)]]
           table == [a \in Key |-> [i \in I |-> Moves(txs[i], m, a)]]
           turned == [i \in I |-> [a \in Key |-> Moves(txs[i], m, a)]]
           sums == [a \in Key |-> SumFunctionOnSet(coded[a], I)]
           rows == [a \in Key |-> SumFunctionOnSet(table[a], I)]
           columns == [i \in I |-> SumFunctionOnSet(turned[i], Key)]
           own == [a \in Key |-> IF a = m THEN Reward ELSE 0]
           total == [a \in Key |-> rows[a] + own[a]]
           names == [i \in I |-> Pays(txs[i]) + Gets(txs[i])]
           less == [i \in I |-> 0 - names[i]]
           N == SumFunctionOnSet(names, I)
           change == BlockBalanceChange(b)
<1>1. IsFiniteSet(Key) /\ Reward \in Nat /\ Reward \in Int /\ m \in Key
  BY TransactionsAssumption, BlocksAssumption DEF SignedBlock
<1>2. IsFiniteSet(I) /\ \A i \in I : txs[i] \in Takable
  <2>1. txs \in Seq(Takable)
    BY DEF SignedBlock
  <2> HIDE DEF txs
  <2>2. I = 1 .. Len(txs) /\ Len(txs) \in Nat /\ \A i \in I : txs[i] \in Takable
    BY <2>1
  <2>3. IsFiniteSet(1 .. Len(txs))
    BY <2>2, FS_Interval
  <2> QED BY <2>2, <2>3
<1>3. /\ \A i \in I : names[i] \in Nat /\ names[i] = Pays(txs[i]) + Gets(txs[i])
      /\ \A i \in I : less[i] = 0 - names[i]
  <2>1. /\ \A i \in I : names[i] = Pays(txs[i]) + Gets(txs[i])
        /\ \A i \in I : less[i] = 0 - names[i]
    OBVIOUS
  <2> HIDE DEF names, less
  <2> QED BY <1>1, <1>2, <2>1, TransferMoves
<1>4. /\ \A a \in Key, i \in I : coded[a][i] = Changes(txs[i], m, a)
      /\ \A a \in Key, i \in I : table[a][i] = Moves(txs[i], m, a)
      /\ \A a \in Key, i \in I : turned[i][a] = table[a][i]
  OBVIOUS
<1>5. /\ \A a \in Key : sums[a] = SumFunctionOnSet(coded[a], I)
      /\ \A a \in Key : rows[a] = SumFunctionOnSet(table[a], I)
      /\ \A i \in I : columns[i] = SumFunctionOnSet(turned[i], Key)
  OBVIOUS
<1>6. /\ \A a \in Key : a # m => own[a] = 0
      /\ own[m] = Reward
      /\ \A a \in Key : own[a] \in Int /\ 0 <= own[a] /\ own[a] <= Reward
  BY <1>1
<1>7. \A a \in Key : total[a] = rows[a] + own[a]
  OBVIOUS
<1>8. Volume(b) = Reward + N
  <2>1. DOMAIN names = I /\ N = SumFunction(names)
    BY DEF SumFunction
  <2> QED BY <2>1 DEF Volume, Pays, Gets
<1>9. DOMAIN change = Key /\ \A a \in Key : change[a] = Signed(sums[a] + own[a])
  <2>1. \A a \in Key : DOMAIN coded[a] = I
    OBVIOUS
  <2> QED BY <2>1 DEF BlockBalanceChange, SumFunction, Changes
<1>10. DOMAIN table = Key /\ \A a \in Key : DOMAIN table[a] = I /\ table[a] = [i \in I |-> table[a][i]]
  OBVIOUS
<1>11. DOMAIN turned = I /\ \A i \in I : turned[i] = [a \in Key |-> turned[i][a]]
  OBVIOUS
<1>12. table = [a \in Key |-> table[a]] /\ turned = [i \in I |-> turned[i]]
  OBVIOUS
<1> HIDE DEF txs, m, I, coded, table, turned, sums, rows, columns, own, total, names, less, change
<1>13. ASSUME NEW a \in Key, NEW i \in I
       PROVE  /\ coded[a][i] \in Int /\ table[a][i] \in Int
              /\ Congruent(coded[a][i], table[a][i])
              /\ table[a][i] <= names[i] /\ less[i] <= table[a][i]
  BY <1>1, <1>2, <1>3, <1>4, TransferMoves
<1>14. \A i \in I : names[i] \in Int /\ less[i] \in Int /\ less[i] = names[i] * (-1)
  BY <1>3
<1>15. N \in Int /\ SumFunctionOnSet(less, I) = 0 - N
  <2>1. N \in Int
    BY <1>2, <1>14, SumType
  <2>2. SumFunctionOnSet(less, I) = N * (-1)
    BY <1>2, <1>14, SumTimes
  <2> HIDE DEF N
  <2> QED BY <2>1, <2>2
<1> HIDE DEF N
<1>16. ASSUME NEW a \in Key
       PROVE  /\ sums[a] \in Int /\ rows[a] \in Int /\ Congruent(sums[a], rows[a])
              /\ rows[a] <= N /\ 0 - N <= rows[a]
  <2> DEFINE f == coded[a]
             g == table[a]
  <2>1. \A i \in I : /\ f[i] \in Int /\ g[i] \in Int /\ Congruent(f[i], g[i])
                     /\ g[i] <= names[i] /\ less[i] <= g[i]
                     /\ names[i] \in Int /\ less[i] \in Int
    BY <1>13, <1>14
  <2>2. sums[a] = SumFunctionOnSet(f, I) /\ rows[a] = SumFunctionOnSet(g, I)
    BY <1>5
  <2> HIDE DEF f, g
  <2>3. sums[a] \in Int /\ rows[a] \in Int
    BY <1>2, <2>1, <2>2, SumType
  <2>4. Congruent(sums[a], rows[a])
    BY <1>2, <2>1, <2>2, CongruentSums
  <2>5. rows[a] <= SumFunctionOnSet(names, I)
    BY <1>2, <2>1, <2>2, SumGrows
  <2>6. SumFunctionOnSet(less, I) <= rows[a]
    BY <1>2, <2>1, <2>2, SumGrows
  <2> QED BY <1>15, <2>3, <2>4, <2>5, <2>6 DEF N
<1>17. ASSUME NEW a \in Key PROVE total[a] \in Int /\ change[a] = total[a]
  <2>1. /\ sums[a] \in Int /\ rows[a] \in Int /\ own[a] \in Int
        /\ total[a] = rows[a] + own[a]
    BY <1>6, <1>7, <1>16
  <2>2. -Half <= total[a] /\ total[a] < Half
    <3>1. Half \in Int
      BY TransactionsAssumption DEF Half
    <3>2. rows[a] <= N /\ 0 - N <= rows[a] /\ 0 <= own[a] /\ own[a] <= Reward
      BY <1>6, <1>16
    <3>3. Reward + N < Half
      BY <1>8
    <3> QED BY <1>1, <1>15, <2>1, <3>1, <3>2, <3>3
  <2>3. Congruent(own[a], own[a])
    <3> DEFINE M == 2 ^ Width
    <3>1. M \in Int
      BY TransactionsAssumption
    <3> HIDE DEF M
    <3>2. own[a] = own[a] + 0 * M
      BY <2>1, <3>1
    <3> QED BY <3>2 DEF Congruent, M
  <2>4. Congruent(sums[a], rows[a])
    BY <1>16
  <2>5. Congruent(sums[a] + own[a], rows[a] + own[a])
    BY <2>1, <2>3, <2>4, CongruentAdd
  <2>6. total[a] \in Int /\ sums[a] + own[a] \in Int
    BY <2>1
  <2>7. Signed(sums[a] + own[a]) = Signed(total[a])
    BY <2>1, <2>5, <2>6, CongruentSigns
  <2>8. Signed(total[a]) = total[a]
    BY <2>2, <2>6, SignedValue
  <2> QED BY <1>9, <2>6, <2>7, <2>8
<1>18. SumFunctionOnSet(rows, Key) = SumFunctionOnSet(columns, I)
  <2>1. table \in [Key -> [I -> Int]]
    <3>1. \A a \in Key : table[a] \in [I -> Int]
      BY <1>10, <1>13
    <3> QED BY <1>12, <3>1
  <2>2. turned \in [I -> [Key -> Int]]
    <3>1. \A i \in I : turned[i] \in [Key -> Int]
      BY <1>4, <1>11, <1>13
    <3> QED BY <1>12, <3>1
  <2>3. IsTable(table, Key, I) /\ IsTable(turned, I, Key)
    BY <2>1, <2>2 DEF IsTable
  <2>4. Transposed(table, turned, Key, I)
    BY <1>4 DEF Transposed
  <2>5. RowSums(rows, table, Key, I) /\ RowSums(columns, turned, I, Key)
    BY <1>5 DEF RowSums
  <2> QED BY <1>1, <1>2, <2>3, <2>4, <2>5, SumSwap
<1>19. SumFunctionOnSet(columns, I) = 0
  <2>1. ASSUME NEW i \in I PROVE columns[i] = 0
    <3>1. \A a \in Key : turned[i][a] = Moves(txs[i], m, a)
      BY <1>4
    <3>2. SumFunctionOnSet(turned[i], Key) = 0
      BY <1>1, <1>2, <3>1, TransferMoves
    <3> QED BY <1>5, <3>2
  <2> QED BY <1>2, <2>1, SumZero
<1>20. SumFunctionOnSet(own, Key) = Reward
  BY <1>1, <1>6, SumOne
<1>21. SumFunctionOnSet(total, Key) = SumFunctionOnSet(rows, Key) + SumFunctionOnSet(own, Key)
  <2>1. \A a \in Key : rows[a] \in Int /\ own[a] \in Int /\ total[a] = rows[a] + own[a]
    BY <1>6, <1>7, <1>16
  <2> QED BY <1>1, <2>1, SumAdd
<1>22. SumFunctionOnSet(change, Key) = SumFunctionOnSet(total, Key)
  BY <1>1, <1>17, SumSame
<1>23. SumFunction(change) = SumFunctionOnSet(change, Key)
  BY <1>9 DEF SumFunction
<1>24. SumFunction(change) = 0 + Reward
  BY <1>18, <1>19, <1>20, <1>21, <1>22, <1>23
<1> QED BY <1>1, <1>24 DEF change

\* A block whose amounts fit together in int64 gives its miner the reward and
\* otherwise moves what is there: lists with an address twice and on both sides, and
\* fees that come in with the transactions and are computed again, and still no coin
\* is made or lost.
THEOREM CoinsAreKept == Spec => []Conserved
<1>1. IInv => Conserved
  BY ChangesAreReward DEF IInv, BlocksSigned, SolvedBlock, Conserved, Half
<1> QED BY SpecIInv, <1>1, PTL
=============================================================================
