SPECIFICATION FairSpec
CONSTANTS
  r1 = r1
  r2 = r2
  r3 = r3
  ip1 = ip1
  ip2 = ip2
  ROUTER_LINK_COUNT = 2
  Routers = {r1, r2, r3}
  Mortal = {r1}
  Ips = {ip1, ip2}
  IpOf <- MCIpOf
  NoStream = NoStream
CHECK_DEADLOCK FALSE
INVARIANTS TypeOK NetsimStaysUp WholeSimulations ResultsReachTheirRouter ClosedAfterTheEnd
PROPERTY RoutersAreServed
