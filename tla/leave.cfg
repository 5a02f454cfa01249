SPECIFICATION SettledRingSpec
CONSTANTS
  Bits = 3
  a = a
  b = b
  c = c
  d = d
  Node = {a, b, c}
  Settled = {a, b}
  Nil = Nil
  AnyIP = AnyIP
  Hash <- MCHash
  Commands <- MCLeaves
  Impatient = {}
  Keys = {}
  MaxExchanges = 1
  MaxLookups <- NoLookups
INVARIANTS
  AddressesAgree
PROPERTIES
  CrashNeedsCause
  HealsOrFails
CHECK_DEADLOCK FALSE
