SPECIFICATION SettledSpec
CONSTANTS
  Bits = 3
  a = a
  b = b
  c = c
  d = d
  tea = tea
  oat = oat
  fig = fig
  menu = menu
  bill = bill
  Node = {a, b, c}
  Settled = {a, b}
  Term = {tea, oat, fig}
  Doc = {menu, bill}
  Nil = Nil
  AnyIP = AnyIP
  None = None
  Hash <- MCHash
  TermHash <- MCTermHash
  Commands <- OneJoins
  Files <- OneFile
  Searches <- NoSearches
  Impatient = {}
  Keys = {}
  MaxExchanges = 1
  MaxLookups <- NoLookups
PROPERTIES
  NoDocumentIsLost
  RingWalkEnds
  OnlyLatePublishesStray
CHECK_DEADLOCK FALSE
