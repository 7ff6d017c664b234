CONSTANTS
  b0 = b0
  b1 = b1
  b2 = b2
  b3 = b3
  b4 = b4
  b5 = b5
  f2 = f2
  long = long
  flaky = flaky
  short = short
  Block = {b0, b1, b2, b3, b4, b5, f2}
  Level <- MCLevel
  Stored <- MCStored
  Top <- MCTop
  Width = 2
  Peer = {long, flaky}
  Refused = {b1, f2}
  Round = {r, s}
  Faulty = {flaky}
SPECIFICATION FairSync
INVARIANTS
  NothingLeftBehind
PROPERTY
  RoundEnds
