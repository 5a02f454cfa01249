SPECIFICATION SettledSpec
CONSTANTS
  Bits = 3
  a = a
  b = b
  c = c
  d = d
  tea = tea
  oat = oat
  fig = fig
  menu = menu
  bill = bill
  Node = {a, b, c, d}
  Settled = {a, b, c, d}
  Term = {tea, oat, fig}
  Doc = {menu, bill}
  Nil = Nil
  AnyIP = AnyIP
  None = None
  Hash <- MCHash
  TermHash <- MCTermHash
  Commands <- AllLeave
  Files <- NoFiles
  Searches <- NoSearches
  Impatient = {}
  Keys = {}
  MaxExchanges = 0
  MaxLookups <- NoLookups
PROPERTIES
  LeavesConverge
  NoDocumentIsLost
  ListsReachOwner
CHECK_DEADLOCK FALSE
