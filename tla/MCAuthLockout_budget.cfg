\* Logins of two addresses; a lockout that is longer than the window.
CONSTANTS
  c1 = c1
  c2 = c2
  c3 = c3
  c4 = c4
  ip1 = ip1
  ip2 = ip2
  Conns = {c1, c2, c3, c4}
  IPs = {ip1, ip2}
  IpOf <- MCIpOf
  MaxAttempts = 3
  AuthSlots = 2
  Window = 1
  Lockout = 2
SPECIFICATION FairSpec
INVARIANTS LockInv BudgetHolds
PROPERTIES LockoutLasts EntriesExpire
