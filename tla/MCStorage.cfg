CONSTANTS
  NoBlock = NoBlock
  g = g
  a1 = a1
  a2 = a2
  c1 = c1
  Block = {g, a1, a2, c1}
  Adder = {m, n}
  Parent <- MCParent
  Level <- MCLevel
SPECIFICATION FairSpec
INVARIANTS
  TypeOK
  VerifiedChains
  TopIsVerified
  BalanceWhole
  NoLostLink
  TopIsHighest
PROPERTIES
  AddReturns
  LedgerCatchesUp
  LedgerMonotone
  ImplementsView
