CONSTANTS
  Address = {u, w}
  Branch = {c, d}
  Width = 12
  Amount = {0, 1000, 3096}
  MaxTransactions = 2
  MaxHeight = 2
  Era = 1
SPECIFICATION Spec
INVARIANTS
  NobodyShort
  SupplyCovered
\* The chains end at the bound.
CHECK_DEADLOCK FALSE
