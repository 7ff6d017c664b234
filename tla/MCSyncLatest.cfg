CONSTANTS
  b0 = b0
  b1 = b1
  b2 = b2
  b3 = b3
  b4 = b4
  b5 = b5
  f2 = f2
  long = long
  flaky = flaky
  short = short
  Block = {b0, b1, b2, b3, b4, b5, f2}
  Level <- MCLevel
  Stored <- MCStored
  Top <- MCTop
  Width = 2
  Peer = {long, short}
  Refused = {}
  Round = {r, s}
  Faulty = {}
SPECIFICATION FairSync
PROPERTY
  SyncedToLatest
