\* Two uploads of an account that may run one at a time; disk, directories, clients and driver fail.
CONSTANTS
  acc1 = acc1
  acc2 = acc2
  u1 = u1
  u2 = u2
  u3 = u3
  Uploads = {u1, u2}
  Accounts = {acc1}
  Sessions = {u1, u2}
  MaxTotalSize = 1
  AccountMaxSize = 1
  Chunks = {1}
  ExpectedSizes <- MCUnknownSize
  DiskFaults = TRUE
  MaxRestarts = 0
  Names = {1}
  AccountOf <- OneAccount
  SessionOf <- OwnSession
  NameOf <- SameName
  Policy <- Rejecting
  MaxConcurrent <- OneAtATime
  Seconds = {20}
  MaxCandidates = 2
  ControlSpace = "drive"
  Foreign = Foreign
  Faults = {"mkcol", "data", "disconnect", "shutdown"}
SPECIFICATION FairBridgeSpec
CHECK_DEADLOCK FALSE
INVARIANT SlotsExact
PROPERTY EveryStorAnswered
