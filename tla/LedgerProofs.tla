---------------------------- MODULE LedgerProofs ----------------------------
(***************************************************************************)
(* Theorems about Ledger, for every finite set of addresses, any amounts,  *)
(* blocks and chains of any size, and any width of the integers.  Whatever *)
(* the updates leave out while the amounts fit, they leave out what would  *)
(* be taken away, so a balance is never less than what the chain gives its *)
(* address; and what a block gives to all addresses together is its        *)
(* reward, because its transactions pay their fees to its miner.           *)
(***************************************************************************)
EXTENDS Ledger, Sums

\* What the blocks of a chain give to all addresses together, in whole numbers,
\* is its rewards.
ExactIsMinted == \A c \in Branch : Total(exact[c]) = minted[c]

IInv == TypeOK /\ NobodyShort /\ ExactIsMinted
----------------------------------------------------------------------------
\* Total sums over the whole domain of the amounts.
LEMMA TotalIsSum ==
  ASSUME NEW f
  PROVE  Total(f) = SumFunctionOnSet(f, DOMAIN f)
BY DEF Total, FoldFunction, SumFunctionOnSet

\* The amounts are numbers.
LEMMA AmountsAreInt == \A n \in Amount : n \in Int
BY LedgerAssumption

\* The rewards are powers of ten.
LEMMA RewardType ==
  ASSUME NEW level \in Nat
  PROVE  Reward(level) \in Nat
<1> DEFINE k == level \div Era
<1>1. k \in Nat
  BY LedgerAssumption
<1>2. Reward(level) = IF k < 3 THEN 10 ^ (3 - k) ELSE 1
  BY DEF Reward
<1> HIDE DEF k
<1>3. 10 ^ 3 = 1000 /\ 10 ^ 2 = 100 /\ 10 ^ 1 = 10
  OBVIOUS
<1>4. k = 0 => 10 ^ (3 - k) \in Nat
  <2>1. k = 0 => 3 - k = 3
    OBVIOUS
  <2> QED BY <1>3, <2>1
<1>5. k = 1 => 10 ^ (3 - k) \in Nat
  <2>1. k = 1 => 3 - k = 2
    OBVIOUS
  <2> QED BY <1>3, <2>1
<1>6. k = 2 => 10 ^ (3 - k) \in Nat
  <2>1. k = 2 => 3 - k = 1
    OBVIOUS
  <2> QED BY <1>3, <2>1
<1>7. k < 3 => k = 0 \/ k = 1 \/ k = 2
  BY <1>1
<1> QED BY <1>2, <1>4, <1>5, <1>6, <1>7

\* A transaction gives to all addresses together what it takes, less its fee.
LEMMA TransferSum ==
  ASSUME NEW t \in Transaction, NEW f,
         \A a \in Address : f[a] = t.gets[a] - t.pays[a]
  PROVE  /\ Fee(t) \in Int
         /\ SumFunctionOnSet(f, Address) = 0 - Fee(t)
<1>1. /\ t.gets \in [Address -> Amount] /\ t.pays \in [Address -> Amount]
      /\ \A a \in Address : t.gets[a] \in Int /\ t.pays[a] \in Int /\ f[a] \in Int
      /\ \A a \in Address : t.gets[a] = f[a] + t.pays[a]
  <2>1. t.gets \in [Address -> Amount] /\ t.pays \in [Address -> Amount]
    BY DEF Transaction
  <2>2. \A a \in Address : t.gets[a] \in Amount /\ t.pays[a] \in Amount
    BY <2>1
  <2>3. \A n \in Amount : n \in Int
    BY AmountsAreInt
  <2> QED BY <2>1, <2>2, <2>3
<1>2. SumFunctionOnSet(t.gets, Address)
        = SumFunctionOnSet(f, Address) + SumFunctionOnSet(t.pays, Address)
  BY <1>1, LedgerAssumption, SumAdd
<1>3. /\ SumFunctionOnSet(t.pays, Address) \in Int
      /\ SumFunctionOnSet(t.gets, Address) \in Int
      /\ SumFunctionOnSet(f, Address) \in Int
  BY <1>1, LedgerAssumption, SumType
<1>4. Fee(t) = SumFunctionOnSet(t.pays, Address) - SumFunctionOnSet(t.gets, Address)
  BY <1>1, TotalIsSum DEF Fee
<1> QED BY <1>2, <1>3, <1>4

\* What a block changes in whole numbers: an integer for each address, together its reward.
LEMMA ChangeIsReward ==
  ASSUME NEW b \in Block, NEW level \in Nat
  PROVE  /\ Changes(b, level) \in [Address -> Int]
         /\ Total(Changes(b, level)) = Reward(level)
<1> DEFINE txs == b.transactions
           I == DOMAIN txs
           table == [a \in Address |-> [i \in I |-> txs[i].gets[a] - txs[i].pays[a]]]
           rows == [a \in Address |-> SumFunctionOnSet(table[a], I)]
           columns == [i \in I |-> SumFunctionOnSet([a \in Address |-> table[a][i]], Address)]
           fees == [i \in I |-> Fee(txs[i])]
           own == [a \in Address |-> IF a = b.miner
                                     THEN SumFunctionOnSet(fees, I) + Reward(level) ELSE 0]
           change == Changes(b, level)
<1>1. /\ IsFiniteSet(I) /\ b.miner \in Address
      /\ \A i \in I : txs[i] \in Transaction
  <2>1. PICK n \in 0 .. MaxTransactions : txs \in [1 .. n -> Transaction]
    BY DEF Block
  <2>2. n \in Nat /\ I = 1 .. n
    BY <2>1, LedgerAssumption
  <2>3. IsFiniteSet(1 .. n)
    BY <2>2, FS_Interval
  <2>4. \A i \in 1 .. n : txs[i] \in Transaction
    BY <2>1
  <2>5. b.miner \in Address
    BY DEF Block
  <2> HIDE DEF I
  <2> QED BY <2>2, <2>3, <2>4, <2>5
<1>2. IsFiniteSet(Address) /\ Reward(level) \in Int
  BY LedgerAssumption, RewardType
<1>3. \A a \in Address, i \in I : table[a][i] \in Int
  <2>1. ASSUME NEW i \in I, NEW a \in Address PROVE table[a][i] \in Int
    <3>1. txs[i].gets \in [Address -> Amount] /\ txs[i].pays \in [Address -> Amount]
      BY <1>1 DEF Transaction
    <3>2. txs[i].gets[a] \in Amount /\ txs[i].pays[a] \in Amount
      BY <3>1
    <3>3. \A n \in Amount : n \in Int
      BY AmountsAreInt
    <3> QED BY <3>2, <3>3
  <2> QED BY <2>1
<1>4. \A i \in I : fees[i] \in Int /\ columns[i] = 0 - fees[i]
  <2>1. ASSUME NEW i \in I PROVE fees[i] \in Int /\ columns[i] = 0 - fees[i]
    <3> DEFINE f == [a \in Address |-> table[a][i]]
    <3>1. \A a \in Address : f[a] = txs[i].gets[a] - txs[i].pays[a]
      OBVIOUS
    <3>2. txs[i] \in Transaction
      BY <1>1
    <3> HIDE DEF f
    <3>3. Fee(txs[i]) \in Int /\ SumFunctionOnSet(f, Address) = 0 - Fee(txs[i])
      BY <3>1, <3>2, TransferSum
    <3> QED BY <3>3 DEF f
  <2> QED BY <2>1
<1>5. \A a \in Address : change[a] = rows[a] + own[a]
  <2>1. ASSUME NEW a \in Address PROVE change[a] = rows[a] + own[a]
    <3>1. Total([i \in I |-> txs[i].gets[a] - txs[i].pays[a]]) = rows[a]
      BY TotalIsSum
    <3>2. Total([i \in I |-> Fee(txs[i])]) = SumFunctionOnSet(fees, I)
      BY TotalIsSum
    <3>3. rows[a] \in Int /\ SumFunctionOnSet(fees, I) \in Int
      BY <1>1, <1>3, <1>4, SumType
    <3>4. change[a] = Total([i \in I |-> txs[i].gets[a] - txs[i].pays[a]])
            + IF a = b.miner
              THEN Total([i \in I |-> Fee(txs[i])]) + Reward(level) ELSE 0
      BY DEF Changes
    <3>5. own[a] = IF a = b.miner THEN SumFunctionOnSet(fees, I) + Reward(level) ELSE 0
      OBVIOUS
    <3> HIDE DEF rows, own, fees
    <3> QED BY <3>1, <3>2, <3>4, <3>5 DEF fees
  <2> QED BY <2>1
<1>6. DOMAIN change = Address /\ change = [a \in Address |-> change[a]]
  BY DEF Changes
<1> HIDE DEF I, txs, change
<1>7. SumFunctionOnSet(columns, I) + SumFunctionOnSet(fees, I) = 0
  <2> DEFINE zero == [i \in I |-> 0]
  <2>1. \A i \in I : columns[i] \in Int /\ fees[i] \in Int /\ zero[i] = columns[i] + fees[i]
    BY <1>4
  <2>2. \A i \in I : zero[i] = 0
    OBVIOUS
  <2> HIDE DEF columns, fees, zero
  <2>3. SumFunctionOnSet(zero, I) = SumFunctionOnSet(columns, I) + SumFunctionOnSet(fees, I)
    BY <1>1, <2>1, SumAdd
  <2>4. SumFunctionOnSet(zero, I) = 0
    BY <1>1, <2>2, SumZero
  <2> QED BY <2>3, <2>4
<1>8. /\ SumFunctionOnSet(columns, I) \in Int /\ SumFunctionOnSet(fees, I) \in Int
      /\ \A a \in Address : rows[a] \in Int /\ own[a] \in Int
  <2>1. \A i \in I : columns[i] \in Int /\ fees[i] \in Int
    BY <1>4
  <2>2. SumFunctionOnSet(fees, I) \in Int /\ SumFunctionOnSet(columns, I) \in Int
    <3> HIDE DEF columns, fees
    <3> QED BY <1>1, <2>1, SumType
  <2>3. \A a \in Address : SumFunctionOnSet(table[a], I) \in Int
    <3> HIDE DEF table
    <3> QED BY <1>1, <1>3, SumType
  <2> QED BY <1>2, <2>2, <2>3
<1>9. SumFunctionOnSet(own, Address) = SumFunctionOnSet(fees, I) + Reward(level)
  <2>1. /\ own[b.miner] = SumFunctionOnSet(fees, I) + Reward(level)
        /\ \A a \in Address : a # b.miner => own[a] = 0
        /\ own[b.miner] \in Int
    BY <1>1, <1>8
  <2> HIDE DEF own
  <2> QED BY <1>1, <1>2, <2>1, SumOne
<1>10. SumFunctionOnSet(rows, Address) = SumFunctionOnSet(columns, I)
  <2> DEFINE turned == [i \in I |-> [a \in Address |-> table[a][i]]]
  <2>1. \A a \in Address : rows[a] = SumFunctionOnSet(table[a], I)
    OBVIOUS
  <2>2. \A i \in I : columns[i] = SumFunctionOnSet(turned[i], Address)
    OBVIOUS
  <2>3. \A a \in Address, i \in I : turned[i][a] = table[a][i]
    OBVIOUS
  <2>4. table \in [Address -> [I -> Int]] /\ turned \in [I -> [Address -> Int]]
    BY <1>3
  <2> HIDE DEF rows, columns, table, turned
  <2>5. IsFiniteSet(Address) /\ IsFiniteSet(I)
    BY <1>1, <1>2
  <2>6. IsTable(table, Address, I) /\ IsTable(turned, I, Address)
    BY <2>4 DEF IsTable
  <2>7. Transposed(table, turned, Address, I)
    BY <2>3 DEF Transposed
  <2>8. RowSums(rows, table, Address, I) /\ RowSums(columns, turned, I, Address)
    BY <2>1, <2>2 DEF RowSums
  <2> QED BY <2>5, <2>6, <2>7, <2>8, SumSwap
<1>11. SumFunctionOnSet(change, Address)
         = SumFunctionOnSet(rows, Address) + SumFunctionOnSet(own, Address)
  <2> HIDE DEF rows, own
  <2> QED BY <1>2, <1>5, <1>8, SumAdd
<1>12. Total(change) = Reward(level)
  <2>1. Total(change) = SumFunctionOnSet(change, Address)
    BY <1>6, TotalIsSum
  <2> DEFINE x == SumFunctionOnSet(columns, I)
             y == SumFunctionOnSet(fees, I)
  <2>2. Total(change) = x + (y + Reward(level))
    BY <1>9, <1>10, <1>11, <2>1
  <2>3. x \in Int /\ y \in Int /\ x + y = 0
    BY <1>7, <1>8
  <2> HIDE DEF x, y
  <2> QED BY <1>2, <2>2, <2>3
<1>13. \A a \in Address : change[a] \in Int
  <2> HIDE DEF rows, own
  <2> QED BY <1>5, <1>8
<1> QED BY <1>6, <1>12, <1>13 DEF change

\* An int64 has its range, and what fits in it stays what it is.
LEMMA Int64Value ==
  ASSUME NEW x \in Int
  PROVE  /\ Int64(x) \in -Limit .. (Limit - 1)
         /\ x >= -Limit /\ x < Limit => Int64(x) = x
<1> DEFINE M == 2 ^ Width
           y == x + Limit
<1>1. Limit \in Nat \ {0} /\ M = 2 * Limit
  BY LedgerAssumption DEF Limit
<1>2. Int64(x) = (y % M) - Limit
  BY DEF Int64
<1> HIDE DEF M, y
<1>3. y = x + Limit /\ y \in Int
  BY <1>1 DEF y
<1>4. M \in Nat /\ M > 0
  BY <1>1
<1>5. y % M \in 0 .. M - 1
  BY <1>3, <1>4
<1>6. y \in 0 .. M - 1 => y % M = y
  BY <1>3, <1>4
<1> QED BY <1>1, <1>2, <1>3, <1>5, <1>6

\* The balances and changes of one update, when the amounts fit.
Fitting(v, d) == d >= -Limit /\ d < Limit /\ v + d < Limit

\* An update leaves a balance in the range of int64; it makes the change, or
\* leaves out one that takes away, if the amounts fit.
LEMMA UpdateGrows ==
  ASSUME NEW v \in 0 .. (Limit - 1), NEW d \in Int
  PROVE  /\ UpdateUnsafe(v, Int64(d)) \in 0 .. (Limit - 1)
         /\ Fitting(v, d) => UpdateUnsafe(v, Int64(d)) >= v + d
<1> DEFINE e == Int64(d)
           s == Int64(Int64(v) + e)
<1>1. Limit \in Nat \ {0}
  BY LedgerAssumption DEF Limit
<1>2. e \in -Limit .. (Limit - 1) /\ (d >= -Limit /\ d < Limit => e = d)
  BY Int64Value
<1>3. Int64(v) = v
  BY <1>1, Int64Value
<1> HIDE DEF e
<1>4. v + e \in Int
  BY <1>1, <1>2
<1>5. s \in -Limit .. (Limit - 1) /\ (v + e >= -Limit /\ v + e < Limit => s = v + e)
  BY <1>3, <1>4, Int64Value
<1>6. UpdateUnsafe(v, e) = IF s > 0 THEN s ELSE v
  BY DEF UpdateUnsafe
<1> HIDE DEF s
<1>7. UpdateUnsafe(v, e) \in 0 .. (Limit - 1)
  BY <1>1, <1>5, <1>6
<1>8. ASSUME Fitting(v, d) PROVE UpdateUnsafe(v, e) >= v + d
  <2>1. e = d /\ v + d < Limit
    BY <1>2, <1>8 DEF Fitting
  <2>2. v + e >= -Limit /\ v + e < Limit
    BY <1>1, <1>2, <2>1
  <2>3. s = v + d
    BY <1>5, <2>1, <2>2
  <2> QED BY <1>1, <1>6, <2>3
<1> QED BY <1>7, <1>8 DEF e

\* Chains without blocks have no coins.
LEMMA InitIInv == Init => IInv
<1> SUFFICES ASSUME Init PROVE IInv
  OBVIOUS
<1> USE LedgerAssumption DEF Init
<1>1. TypeOK
  <2>1. 0 \in 0 .. (Limit - 1) /\ 0 \in 0 .. MaxHeight
    BY DEF Limit
  <2> QED BY <2>1 DEF TypeOK
<1>2. NobodyShort
  BY DEF NobodyShort
<1>3. ExactIsMinted
  <2>1. ASSUME NEW c \in Branch PROVE Total(exact[c]) = minted[c]
    <3>1. DOMAIN exact[c] = Address /\ \A a \in Address : exact[c][a] = 0
      OBVIOUS
    <3>2. SumFunctionOnSet(exact[c], Address) = 0
      BY <3>1, SumZero
    <3> QED BY <3>1, <3>2, TotalIsSum
  <2> QED BY <2>1 DEF ExactIsMinted
<1> QED BY <1>1, <1>2, <1>3 DEF IInv

\* A block of any chain keeps the invariant, whether it is checked against the
\* balances of its own chain or of another.
LEMMA NextIInv == IInv /\ [Next]_vars => IInv'
<1> SUFFICES ASSUME IInv, [Next]_vars PROVE IInv'
  OBVIOUS
<1> USE LedgerAssumption
<1>1. ASSUME NEW c \in Branch, NEW b \in Block, Add(c, b) PROVE IInv'
  <2> DEFINE change == Changes(b, height[c])
             reward == Reward(height[c])
  <2>1. height[c] \in Nat /\ height[c] < MaxHeight
    BY <1>1 DEF IInv, TypeOK, Add
  <2>2. change \in [Address -> Int] /\ Total(change) = reward /\ reward \in Nat
    BY <2>1, ChangeIsReward, RewardType
  <2>3. /\ ledger' = [ledger EXCEPT ![c] = [a \in Address |-> UpdateUnsafe(ledger[c][a], Int64(change[a]))]]
        /\ exact' = [exact EXCEPT ![c] = [a \in Address |-> exact[c][a] + change[a]]]
        /\ minted' = [minted EXCEPT ![c] = minted[c] + reward]
        /\ fits' = [fits EXCEPT ![c] = fits[c] /\ Fits(c, b)]
        /\ height' = [height EXCEPT ![c] = height[c] + 1]
        /\ top' \in Branch
    BY <1>1 DEF Add, GetBalanceChange
  <2>f. Fits(c, b) => \A a \in Address : Fitting(ledger[c][a], change[a])
    BY DEF Fits, Fitting
  <2> HIDE DEF change, reward
  <2>4. /\ ledger \in [Branch -> [Address -> 0 .. (Limit - 1)]]
        /\ exact \in [Branch -> [Address -> Int]]
        /\ minted \in [Branch -> Nat]
        /\ fits \in [Branch -> BOOLEAN]
        /\ height \in [Branch -> 0 .. MaxHeight]
    BY DEF IInv, TypeOK
  <2>5. \A a \in Address :
          /\ UpdateUnsafe(ledger[c][a], Int64(change[a])) \in 0 .. (Limit - 1)
          /\ Fitting(ledger[c][a], change[a]) =>
               UpdateUnsafe(ledger[c][a], Int64(change[a])) >= ledger[c][a] + change[a]
    <3>1. \A a \in Address : ledger[c][a] \in 0 .. (Limit - 1) /\ change[a] \in Int
      BY <2>2, <2>4
    <3>2. ASSUME NEW v \in 0 .. (Limit - 1), NEW d \in Int
          PROVE  /\ UpdateUnsafe(v, Int64(d)) \in 0 .. (Limit - 1)
                 /\ Fitting(v, d) => UpdateUnsafe(v, Int64(d)) >= v + d
      BY UpdateGrows
    <3> QED BY <3>1, <3>2, Zenon
  <2>6. TypeOK'
    <3>1. ledger' \in [Branch -> [Address -> 0 .. (Limit - 1)]]
      BY <2>3, <2>4, <2>5
    <3>2. exact' \in [Branch -> [Address -> Int]]
      BY <2>2, <2>3, <2>4
    <3>3. minted' \in [Branch -> Nat] /\ height' \in [Branch -> 0 .. MaxHeight]
      BY <2>1, <2>2, <2>3, <2>4
    <3>4. fits' \in [Branch -> BOOLEAN]
      BY <2>3, <2>4, Zenon DEF Fits
    <3> QED BY <2>3, <3>1, <3>2, <3>3, <3>4 DEF TypeOK
  <2>7. NobodyShort'
    <3>1. ASSUME NEW x \in Branch, fits'[x], NEW a \in Address
          PROVE  ledger'[x][a] >= exact'[x][a]
      <4>0. fits[x] /\ (x = c => Fits(c, b))
        <5>1. CASE x = c
          BY <2>3, <2>4, <3>1, <5>1
        <5>2. CASE x # c
          BY <2>3, <2>4, <3>1, <5>2
        <5> QED BY <5>1, <5>2
      <4>1. ledger[x][a] >= exact[x][a]
        BY <4>0 DEF IInv, NobodyShort
      <4>2. CASE x = c
        <5>1. /\ ledger'[x][a] = UpdateUnsafe(ledger[c][a], Int64(change[a]))
              /\ exact'[x][a] = exact[c][a] + change[a]
          BY <2>3, <2>4, <4>2
        <5>2. ledger[c][a] \in Int /\ exact[c][a] \in Int /\ change[a] \in Int
          BY <2>2, <2>4
        <5>3. Fitting(ledger[c][a], change[a])
          BY <2>f, <4>0, <4>2
        <5>4. UpdateUnsafe(ledger[c][a], Int64(change[a])) >= ledger[c][a] + change[a]
          BY <2>5, <5>3
        <5>5. UpdateUnsafe(ledger[c][a], Int64(change[a])) \in Int
          BY <2>5
        <5> QED BY <4>1, <4>2, <5>1, <5>2, <5>4, <5>5
      <4>3. CASE x # c
        BY <2>3, <2>4, <4>1, <4>3
      <4> QED BY <4>2, <4>3
    <3> QED BY <3>1 DEF NobodyShort
  <2>8. ExactIsMinted'
    <3>1. ASSUME NEW x \in Branch PROVE Total(exact'[x]) = minted'[x]
      <4>1. Total(exact[x]) = minted[x]
        BY DEF IInv, ExactIsMinted
      <4>2. CASE x = c
        <5> DEFINE e == [a \in Address |-> exact[c][a] + change[a]]
        <5>1. \A a \in Address : /\ exact[c][a] \in Int /\ change[a] \in Int
                                 /\ e[a] = exact[c][a] + change[a]
          BY <2>2, <2>4
        <5>2. DOMAIN e = Address /\ DOMAIN exact[c] = Address /\ DOMAIN change = Address
          BY <2>2, <2>4
        <5>3. exact'[x] = e /\ minted'[x] = minted[c] + reward
          BY <2>3, <2>4, <4>2
        <5> HIDE DEF e
        <5>4. SumFunctionOnSet(e, Address)
                = SumFunctionOnSet(exact[c], Address) + SumFunctionOnSet(change, Address)
          BY <5>1, SumAdd
        <5>5. Total(e) = Total(exact[c]) + Total(change)
          BY <5>2, <5>4, TotalIsSum
        <5> QED BY <2>2, <4>1, <4>2, <5>3, <5>5
      <4>3. CASE x # c
        BY <2>3, <2>4, <4>1, <4>3
      <4> QED BY <4>2, <4>3
    <3> QED BY <3>1 DEF ExactIsMinted
  <2> QED BY <2>6, <2>7, <2>8 DEF IInv
<1>2. CASE UNCHANGED vars
  BY <1>2 DEF IInv, TypeOK, NobodyShort, ExactIsMinted, vars
<1> QED BY <1>1, <1>2 DEF Next

\* The inductive invariant holds of every behaviour.
THEOREM SpecIInv == Spec => []IInv
BY InitIInv, NextIInv, PTL DEF Spec

\* Every variable keeps its type; in particular no balance is ever negative or
\* beyond int64, whatever amounts the transactions name.
THEOREM TypeCorrect == Spec => []TypeOK
<1>1. IInv => TypeOK
  BY DEF IInv
<1> QED BY SpecIInv, <1>1, PTL

\* UpdateUnsafe leaves nobody with less than the transactions and rewards of the
\* chain give him as long as the amounts of the chain fit, whatever balances the
\* blocks were checked against.
THEOREM NobodyIsShort == Spec => []NobodyShort
<1>1. IInv => NobodyShort
  BY DEF IInv
<1> QED BY SpecIInv, <1>1, PTL

\* GetBalanceChange, which adds int64, loses no coin and makes none: if what a
\* block changes fits in int64, it gives to all addresses together exactly the
\* reward of the block.
THEOREM RewardsAreAll ==
  ASSUME NEW b \in Block, NEW level \in Nat,
         \A a \in Address : Changes(b, level)[a] \in -Limit .. (Limit - 1)
  PROVE  Total(GetBalanceChange(b, level)) = Reward(level)
<1>1. /\ Changes(b, level) \in [Address -> Int]
      /\ Total(Changes(b, level)) = Reward(level)
  BY ChangeIsReward
<1>2. Limit \in Nat \ {0}
  BY LedgerAssumption DEF Limit
<1>3. \A a \in Address : Int64(Changes(b, level)[a]) = Changes(b, level)[a]
  BY <1>1, <1>2, Int64Value
<1>4. GetBalanceChange(b, level) = Changes(b, level)
  BY <1>1, <1>3 DEF GetBalanceChange
<1> QED BY <1>1, <1>4

\* A chain whose amounts fit holds at least its rewards.
THEOREM SupplyIsCovered == Spec => []SupplyCovered
<1>1. IInv => SupplyCovered
  <2> SUFFICES ASSUME IInv, NEW c \in Branch, fits[c]
               PROVE  Total(ledger[c]) >= minted[c]
    BY DEF SupplyCovered
  <2>1. /\ DOMAIN ledger[c] = Address /\ DOMAIN exact[c] = Address
        /\ minted[c] \in Int
        /\ \A a \in Address : /\ exact[c][a] \in Int /\ ledger[c][a] \in Int
                              /\ exact[c][a] <= ledger[c][a]
    BY DEF IInv, TypeOK, NobodyShort
  <2>2. SumFunctionOnSet(exact[c], Address) <= SumFunctionOnSet(ledger[c], Address)
    BY <2>1, LedgerAssumption, SumGrows
  <2>3. SumFunctionOnSet(ledger[c], Address) \in Int
    BY <2>1, LedgerAssumption, SumType
  <2>4. SumFunctionOnSet(exact[c], Address) = minted[c]
    BY <2>1, TotalIsSum DEF IInv, ExactIsMinted
  <2>5. Total(ledger[c]) = SumFunctionOnSet(ledger[c], Address)
    BY <2>1, TotalIsSum
  <2> QED BY <2>1, <2>2, <2>3, <2>4, <2>5
<1> QED BY SpecIInv, <1>1, PTL
=============================================================================
