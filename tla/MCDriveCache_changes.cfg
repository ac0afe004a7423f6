\* The drives change while logins resolve them.
CONSTANTS
  byName = byName
  byId = byId
  l1 = l1
  l2 = l2
  l3 = l3
  d1 = d1
  d2 = d2
  n1 = n1
  Logins = {l1, l2, l3}
  Accounts = {byName, byId}
  Drives = {d1, d2}
  Names = {n1}
  TargetById = {byId}
  AccountOf <- MCAccountOf
  Target <- MCTarget
  TTL = 1
  CallTimeout = 1
  MaxChanges = 2
SPECIFICATION FairSpec
INVARIANT CacheInv
PROPERTIES DriveWasTarget ChangesNoticed
