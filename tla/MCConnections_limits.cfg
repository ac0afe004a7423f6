\* Four connections compete for two places of one address and three in all.
CONSTANTS
  c1 = c1
  c2 = c2
  c3 = c3
  c4 = c4
  ip1 = ip1
  ip2 = ip2
  Conns = {c1, c2, c3, c4}
  IPs = {ip1, ip2}
  IpOf <- MCIpOf
  Tracked = TRUE
  MaxPerIP = 2
  MaxGlobal = 3
  MaxConnections = 3
  AuthSlots = 1
  MaxLogins = 2
SPECIFICATION Spec
INVARIANTS ConnInv CountsExact ShutdownEndsSessions ActiveDrift LoggedInBounded LastSessionEnds
CHECK_DEADLOCK FALSE
