CONSTANTS
  NoBlock = NoBlock
  g = g
  g1 = g1
  h = h
  h1 = h1
  f1 = f1
  Block = {g, g1, h, h1, f1}
  Own = {g, g1, h1}
  Parent <- MCParent
  Level <- MCLevel
  Miner = Miner
  Capacity = 2
  Peer = {p}
  MaxHeight = 1
SPECIFICATION FairHostSpec
INVARIANTS
  OneJob
  StopCancels
  MinedCounts
PROPERTIES
  OwnLevelsRise
  ImplementsMining
  MiningGoesOn
  WorkEnds
  NilTakesTwo
\* The host stops, and may be stopped with a job unreported.
CHECK_DEADLOCK FALSE
