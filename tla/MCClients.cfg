CONSTANTS
  sub = sub
  leaf = leaf
  x = x
  y = y
  Names = {sub, leaf}
  MaxDepth = 5
  LikeClass <- ExactLike
  Bytes = {x, y}
  MaxFileSize = 3
  Clients = {c1, c2}
  Programs = {p1}
  Requests <- SomeRequests
  Calls <- SomeCalls
  Trees <- SomeTrees
  MaxRequests = 3
  ListingCalls <- SomeListings
  ChangedPaths <- PathsBelow
  ChangedData <- OtherData
  MaxChanges = 2
  ns1 = ns1
  ns2 = ns2
  g1 = g1
  member = member
  reader = reader
  NamespaceNames = {ns1, ns2}
  DefaultName = ns1
  Groups = {g1}
  Users = {member, reader}
  Anonymous = anonymous
  WritesAll = {}
  ReadsAll = {reader}
  Visitors = {v1}
  Operators = {o1, o2}
  Commands <- SomeCommands
  MaxNamespaces = 3
  MaxVisits = 4
SPECIFICATION AllParts
SYMMETRY Symmetry
INVARIANTS ExclusiveCreates ListingsAreTrue NamespaceRowsOK
PROPERTIES QuietOutcomesAreTrue LossesAreAsked SteadyDecisionsAreRight
CHECK_DEADLOCK FALSE
