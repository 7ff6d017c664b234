CONSTANTS
  Address = {a, b}
  MaxNeighbors = 1
  Loop = Loop
  Nowhere = Nowhere
  Pinger = {g}
  Querier = {q}
  Sender = {u}
SPECIFICATION FairSpec
INVARIANTS
  TableBounded
PROPERTY
  FoundAgain
