\* The data connection of an upload breaks.
CONSTANTS
  acc1 = acc1
  acc2 = acc2
  u1 = u1
  u2 = u2
  u3 = u3
  Uploads = {u1, u2}
  Accounts = {acc1}
  Sessions = {u1, u2}
  MaxTotalSize = 2
  AccountMaxSize = 1
  Chunks = {1}
  ExpectedSizes <- MCUnknownSize
  DiskFaults = FALSE
  MaxRestarts = 0
  Names = {1}
  AccountOf <- OneAccount
  SessionOf <- OwnSession
  NameOf <- SameName
  Policy <- Renaming
  MaxConcurrent <- Unlimited
  Seconds = {20}
  MaxCandidates = 2
  ControlSpace = "drive"
  Foreign = Foreign
  Faults = {"data"}
SPECIFICATION BridgeSpec
CHECK_DEADLOCK FALSE
INVARIANT PartialNeverStored
