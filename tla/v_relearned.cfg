SPECIFICATION SettledRingSpec
CONSTANTS
  Bits = 3
  a = a
  b = b
  c = c
  d = d
  Node = {a, b, c}
  Settled = {a, b}
  Nil = Nil
  AnyIP = AnyIP
  Hash <- MCHash
  Commands <- MCLeave
  Impatient = {}
  Keys = {}
  MaxExchanges = 1
  MaxLookups <- NoLookups
INVARIANTS
  LeaveIsRealized
CHECK_DEADLOCK FALSE
