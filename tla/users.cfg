SPECIFICATION Spec
CONSTANTS
  Bits = 2
  a = a
  b = b
  c = c
  d = d
  Node = {a, b}
  Settled = {}
  Nil = Nil
  AnyIP = AnyIP
  Hash <- MCSmallHash
  Commands <- MCAnything
  Impatient = {b}
  Keys = {0}
  MaxExchanges = 1
  MaxLookups <- OneFromB
INVARIANTS
  TypeOK
PROPERTIES
  CrashNeedsCause
CHECK_DEADLOCK FALSE
