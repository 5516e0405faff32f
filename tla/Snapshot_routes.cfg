SPECIFICATION FairSpec
CONSTANTS
  app = app
  local = local
  i1 = i1
  i2 = i2
  i3 = i3
  AnyHost = AnyHost
  None = None
  IDs = {i1, i2, i3}
  Hosts = {app, local}
  Localhosts = {local}
  Args = {old, new}
  Paths <- MCPaths
  Dests <- MCDests
  NameChars <- MCNameChars
  MaxName = 4
  StaticSrc <- MCStatic
  Requests <- MCRequests
  Updates <- MCAll
  MaxUpdates = 1
  MaxFaults = 1
INVARIANTS TypeOK LongestPrefixWins RoutesHaveClusters SameVersionAgrees NoAuthIsStatic
PROPERTY EnvoyFollows
