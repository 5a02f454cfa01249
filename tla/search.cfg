SPECIFICATION SettledSpec
CONSTANTS
  Bits = 3
  a = a
  b = b
  c = c
  d = d
  tea = tea
  oat = oat
  fig = fig
  menu = menu
  bill = bill
  Node = {a, b, c}
  Settled = {a, b, c}
  Term = {tea, oat, fig}
  Doc = {menu, bill}
  Nil = Nil
  AnyIP = AnyIP
  None = None
  Hash <- MCHash
  TermHash <- MCTermHash
  Commands <- NobodyTypes
  Files <- TwoFiles
  Searches <- MCSearches
  Impatient = {}
  Keys = {}
  MaxExchanges = 0
  MaxLookups <- NoLookups
INVARIANTS
  SearchTypeOK
  SearchesAreExact
  CrashNeedsOverlap
PROPERTIES
  PublishIsComplete
  ListsReachOwner
  LoneSearchesAreAnswered
CHECK_DEADLOCK FALSE
