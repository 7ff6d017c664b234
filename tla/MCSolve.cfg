CONSTANTS
  Thread = {t1, t2, t3}
  Nonce = {n1, n2}
  NoNonce = NoNonce
SPECIFICATION FairSolve
INVARIANTS
  SolutionKept
PROPERTIES
  StoredOnce
  SolveReturns
\* A solved block ends it.
CHECK_DEADLOCK FALSE
