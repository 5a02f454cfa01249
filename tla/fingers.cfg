SPECIFICATION FairSpec
CONSTANTS
  Bits = 2
  a = a
  b = b
  c = c
  d = d
  Node = {a, b, c}
  Settled = {}
  Nil = Nil
  AnyIP = AnyIP
  Hash <- MCSmallHash
  Commands <- MCJoins
  Impatient = {}
  Keys = {}
  MaxExchanges = 1
  MaxLookups <- OneFromB
INVARIANTS
  JoinInv
  ForwardsGetCloser
PROPERTIES
  LookupsFindOwner
  LookupsAreAnswered
  FingersSettle
CHECK_DEADLOCK FALSE
