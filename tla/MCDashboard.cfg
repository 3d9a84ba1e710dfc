SPECIFICATION DashboardFairSpec
CONSTANTS
  c1 = c1
  c2 = c2
  c3 = c3
  home = home
  proxy = proxy
  guest = guest
  NoAddress = none
  Sockets = {c1, c2, c3}
  Addresses = {home, proxy, guest}
  PeerOf <- MCPeerOf
  Proxies = {proxy}
  KeyOf <- MCKeyOf
  MaxConns = 2
  Limit = 2
  Window = 1
  MaxKeys = 2
  PruneAfter = 2
  ReadTime = 1
  RefuseTime = 1
  AnswerTime = 1
INVARIANTS
  LimitHolds
PROPERTIES
  ConnectionsEnd
