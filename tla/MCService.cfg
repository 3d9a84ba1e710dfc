SPECIFICATION ServiceFairSpec
CONSTANTS
  btc = btc
  xmr = xmr
  k1 = k1
  k2 = k2
  k3 = k3
  home = home
  proxy = proxy
  Coins = {btc, xmr}
  Monero = {xmr}
  Conns = {k1, k2, k3}
  Ips = {home, proxy}
  CoinOf <- MCCoinOf
  IpOf <- MCIpOf
  MaxPerIp = 1
  MaxTotal = 2
  BanThreshold = 2
  BanTime = 2
  StrikeWindow = 2
  Builds = {TRUE, FALSE}
  Faults <- MCFaults
INVARIANTS
  SlotsAreHeld
  CleanlyClosed
PROPERTIES
  ComesUp
  StopEnds
CHECK_DEADLOCK FALSE
