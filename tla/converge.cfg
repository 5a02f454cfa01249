SPECIFICATION FairSpec
CONSTANTS
  Bits = 3
  a = a
  b = b
  c = c
  d = d
  Node = {a, b, c, d}
  Settled = {}
  Nil = Nil
  AnyIP = AnyIP
  Hash <- MCHash
  Commands <- MCJoins
  Impatient = {}
  Keys = {}
  MaxExchanges = 1
  MaxLookups <- NoLookups
INVARIANTS
  OneOrderedRing
PROPERTIES
  Converges
  ImplementsGrowingRing
CHECK_DEADLOCK FALSE
