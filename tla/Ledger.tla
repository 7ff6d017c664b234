------------------------------- MODULE Ledger -------------------------------
(***************************************************************************)
(* The amounts: what a block of transactions does to the balances, and     *)
(* against which balances its transactions are checked.                    *)
(*                                                                         *)
(* HippoStorage.Add checks a block against the balances of the top chain,  *)
(* whichever chain the block belongs to, and then computes the balances    *)
(* again along the chain that is the top chain now (module Storage has the *)
(* order in which that happens, and what overlapping calls do to it).      *)
(* Computing along a chain from its genesis block on is the same as        *)
(* keeping the balances of every chain up to date, which is what ledger    *)
(* does here.                                                              *)
(*                                                                         *)
(* Abstractions.  A transaction is what each address pays and gets in it   *)
(* (its lists name an address once); signatures are correct.  Amounts are  *)
(* uint64 and are added and compared as such: the form of the user         *)
(* interface takes negative numbers and makes huge amounts of them.        *)
(* Changes of balances are int64.                                          *)
(***************************************************************************)
EXTENDS Integers, Sequences, FiniteSets, Functions

CONSTANTS Address,
          Branch,           \* the chains, each from a genesis block of its own
          Width,            \* of uint64 and int64: 64 bits
          Amount,           \* the amounts a transaction names
          MaxTransactions,  \* bound: of a block
          MaxHeight,        \* bound: of a chain
          Era               \* levels with the same reward, 1000 in the code

ASSUME LedgerAssumption == /\ IsFiniteSet(Address)
                           /\ Branch # {}
                           /\ Width \in Nat
                           /\ 2 ^ (Width - 1) \in Nat \ {0}
                           /\ 2 ^ Width = 2 * 2 ^ (Width - 1)
                           /\ Amount \subseteq 0 .. (2 ^ Width - 1)
                           /\ MaxTransactions \in Nat
                           /\ MaxHeight \in Nat
                           /\ Era \in Nat \ {0}

VARIABLES ledger,  \* the balances along each chain
          height,  \* number of blocks of each chain
          top      \* the chain HippoStorage.balance was computed from
\* History variables: what the transactions and rewards of each chain add up to
\* for each address in whole numbers, the rewards of each chain, and whether every
\* amount of the chain had its place in int64.
VARIABLES exact, minted, fits

vars == <<ledger, height, top, exact, minted, fits>>

Limit == 2 ^ (Width - 1)

TypeOK ==
  /\ ledger \in [Branch -> [Address -> 0 .. (Limit - 1)]]
  /\ height \in [Branch -> 0 .. MaxHeight]
  /\ top \in Branch
  /\ exact \in [Branch -> [Address -> Int]]
  /\ minted \in [Branch -> Nat]
  /\ fits \in [Branch -> BOOLEAN]

Init ==
  /\ ledger = [c \in Branch |-> [a \in Address |-> 0]]
  /\ height = [c \in Branch |-> 0]
  /\ top \in Branch
  /\ exact = [c \in Branch |-> [a \in Address |-> 0]]
  /\ minted = [c \in Branch |-> 0]
  /\ fits = [c \in Branch |-> TRUE]

Total(amounts) == FoldFunction(+, 0, amounts)

\* CheckFee compares the sums as uint64 has them, with the fee that UpdateFee has
\* just computed.  (If the sum of the receivers is higher, UpdateFee leaves the fee
\* alone; then only a message that brings a fee of its own passes.)
Transaction ==
  {t \in [pays : [Address -> Amount], gets : [Address -> Amount]] :
     Total(t.gets) % 2 ^ Width <= Total(t.pays) % 2 ^ Width}

\* The fee in whole numbers; the code has it modulo 2 ^ Width.
Fee(t) == Total(t.pays) - Total(t.gets)

Block == [miner : Address,
          transactions : UNION {[1 .. n -> Transaction] : n \in 0 .. MaxTransactions}]

\* basicReward: 1000, 100, 10 and then 1 for ever.
Reward(level) == IF level \div Era < 3 THEN 10 ^ (3 - level \div Era) ELSE 1
----------------------------------------------------------------------------
\* Mistaken forms of what follows, used by none of it: see "mutants" in
\* PROJECT.json.

\* A change that gives the fees to nobody.
ChangeWithoutFees(b, level) ==
  [a \in Address |->
     Total([i \in DOMAIN b.transactions |->
              b.transactions[i].gets[a] - b.transactions[i].pays[a]])
     + IF a = b.miner THEN Reward(level) ELSE 0]

\* An update that leaves out an address it has not seen yet.
UpdateKnownUnsafe(value, change) ==
  IF value > 0 /\ value + change > 0 THEN value + change ELSE value
----------------------------------------------------------------------------
\* The value of an int64 that is computed as x: signed, and modulo 2 ^ Width.
Int64(x) == ((x + Limit) % 2 ^ Width) - Limit

\* HippoTransaction.CheckBalance: every sender, by itself.
CheckBalance(t, balance) == \A a \in Address : t.pays[a] <= balance[a]

\* HippoBlock.CheckTransactions: every transaction, by itself.
CheckTransactions(b, balance) ==
  \A i \in DOMAIN b.transactions : CheckBalance(b.transactions[i], balance)

\* What a block changes in whole numbers: the sum over the transactions, the fees
\* and the reward for the miner.
Changes(b, level) ==
  [a \in Address |->
     Total([i \in DOMAIN b.transactions |->
              b.transactions[i].gets[a] - b.transactions[i].pays[a]])
     + IF a = b.miner
       THEN Total([i \in DOMAIN b.transactions |-> Fee(b.transactions[i])]) + Reward(level)
       ELSE 0]

\* HippoBlock.GetBalanceChange: every amount is turned into int64 and added as such.
GetBalanceChange(b, level) == [a \in Address |-> Int64(Changes(b, level)[a])]

\* HippoBalance.UpdateUnsafe: a change that would leave nothing or less is not
\* made at all; nor is one that leaves more than int64 has.
UpdateUnsafe(value, change) ==
  LET sum == Int64(Int64(value) + change)
  IN IF sum > 0 THEN sum ELSE value

\* No transaction of the block gives more than it takes in whole numbers, and what
\* the block changes and leaves in chain c has its place in int64.
Fits(c, b) ==
  /\ \A i \in DOMAIN b.transactions : Fee(b.transactions[i]) >= 0
  /\ \A a \in Address :
       LET change == Changes(b, height[c])[a]
       IN change >= -Limit /\ change < Limit /\ ledger[c][a] + change < Limit

\* HippoStorage.Add of the next block of chain c.  Any of the longest chains may
\* be the top chain afterwards.
Add(c, b) ==
  /\ height[c] < MaxHeight
  /\ CheckTransactions(b, ledger[top])
  /\ LET change == GetBalanceChange(b, height[c])
     IN ledger' = [ledger EXCEPT ![c] =
                     [a \in Address |-> UpdateUnsafe(@[a], change[a])]]
  /\ LET change == Changes(b, height[c])
     IN exact' = [exact EXCEPT ![c] = [a \in Address |-> @[a] + change[a]]]
  /\ minted' = [minted EXCEPT ![c] = @ + Reward(height[c])]
  /\ fits' = [fits EXCEPT ![c] = @ /\ Fits(c, b)]
  /\ height' = [height EXCEPT ![c] = @ + 1]
  /\ top' \in {x \in Branch : \A y \in Branch : height'[y] <= height'[x]}

Next == \E c \in Branch, b \in Block : Add(c, b)

Spec == Init /\ [][Next]_vars
----------------------------------------------------------------------------
\* As long as the amounts of a chain fit, nobody ends up with less than its
\* transactions and rewards give him, although updates may be left out and the
\* blocks of a chain that is not the top chain are checked against balances that
\* are not its own, of a chain whose amounts need not fit.  Where they do not fit it
\* need not hold: a receiver of 2 ^ Width - 500 loses 500 that he never signed for.
NobodyShort ==
  \A c \in Branch : fits[c] => \A a \in Address : ledger[c][a] >= exact[c][a]

\* As long as the amounts of a chain fit, no coin gets lost between senders,
\* receivers and miners: the chain holds at least its rewards.
SupplyCovered == \A c \in Branch : fits[c] => Total(ledger[c]) >= minted[c]

\* A transfer that passes Check, like the one of transaction_test.go:56-92 that
\* spends 20 coins of 20, is a transfer: the balances are what the transactions
\* and rewards of the chain add up to.  The code does not keep this: see
\* MCLedgerSpent.
TransfersAreMade == ledger[top] = exact[top]
=============================================================================
