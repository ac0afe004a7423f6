\* Three uploads of one name and account race with each other and with another client;
\* nothing fails but the process, once.
CONSTANTS
  acc1 = acc1
  acc2 = acc2
  u1 = u1
  u2 = u2
  u3 = u3
  Uploads = {u1, u2, u3}
  Accounts = {acc1}
  Sessions = {u1, u2, u3}
  MaxTotalSize = 3
  AccountMaxSize = 1
  Chunks = {1}
  ExpectedSizes <- MCUnknownSize
  DiskFaults = FALSE
  MaxRestarts = 1
  Names = {1}
  AccountOf <- OneAccount
  SessionOf <- OwnSession
  NameOf <- SameName
  Policy <- Renaming
  MaxConcurrent <- Unlimited
  Seconds = {20}
  MaxCandidates = 4
  ControlSpace = "drive"
  Foreign = Foreign
  Faults = {"others"}
SPECIFICATION BridgeSpec
CHECK_DEADLOCK FALSE
SYMMETRY BridgeSymmetry
INVARIANTS StoredOnceIfAtAll RenameLosesToThree SpoolEmptied
