SPECIFICATION Spec
CONSTANTS
  Bits = 3
  a = a
  b = b
  c = c
  d = d
  Node = {a, b, c}
  Settled = {}
  Nil = Nil
  AnyIP = AnyIP
  Hash <- MCHash
  Commands <- MCWalk
  Impatient = {}
  Keys = {}
  MaxExchanges = 2
  MaxLookups <- NoLookups
INVARIANTS
  SingletonIsAlone
  OnlyMembersAreKnown
  NoCrash
PROPERTIES
  SuccessorGetsCloser
  PredecessorGetsCloser
CHECK_DEADLOCK FALSE
