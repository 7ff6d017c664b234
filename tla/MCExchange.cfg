CONSTANTS
  alice = alice
  bob = bob
  Key = {alice, bob, m, n}
  Host = {m, n}
  NoSignature = NoSignature
  NoBlock = NoBlock
  Width = 5
  Balances <- MCBalances
  MaxBytes = 2
  GenesisBytes = 2
  BaseInterval = 1
  Reward = 1
  Senders <- MCSenders
  Receivers <- MCReceivers
  Times = {0, 1}
  MaxBlocks = 3
SPECIFICATION Spec
SYMMETRY HostSymmetry
INVARIANTS
  SenderOnce
  Conserved
  OnlyBalancesRefuse
  LevelsFit
  DifficultySteps
\* The last block is found.
CHECK_DEADLOCK FALSE
