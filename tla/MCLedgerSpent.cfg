CONSTANTS
  Address = {u, w}
  Branch = {c}
  Width = 12
  Amount = {0, 1, 1000}
  MaxTransactions = 1
  MaxHeight = 3
  Era = 1
SPECIFICATION Spec
INVARIANT
  TransfersAreMade
\* The chains end at the bound.
CHECK_DEADLOCK FALSE
