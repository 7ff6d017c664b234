CONSTANTS
  Tx = {t1, t2}
  Pusher = {p, q}
  Miner = Miner
  Nobody = Nobody
  BlockCapacity = 2
  Capacity = 1
  MaxHeap = 3
SPECIFICATION FairSpec
INVARIANTS
  HashPooled
  NothingLost
PROPERTIES
  PushReturns
  FetchEnds
