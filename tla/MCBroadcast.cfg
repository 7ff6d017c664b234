CONSTANTS
  a = a
  b = b
  c = c
  d = d
  x = x
  y = y
  t = t
  Host = {a, b, c, d}
  Network <- Networks
  Block = {x, y}
  Transaction = {t}
  Origin <- Origins
  Capacity = 1
  MaxLevel = 2
  MaxFetches = 2
SPECIFICATION FairSpec
INVARIANTS
  HopsAddressed
PROPERTIES
  GossipDies
  LoopReturns
  Reaches
\* All broadcasts come to an end.
CHECK_DEADLOCK FALSE
