\* Two uploads, every disk fault, one death of the process.
CONSTANTS
  Uploads = {u1, u2}
  MaxTotalSize = 3
  AccountMaxSize = 3
  Chunks = {1, 2}
  ExpectedSizes <- MCExpectedSizes
  DiskFaults = TRUE
  MaxRestarts = 1
SYMMETRY UploadSymmetry
SPECIFICATION Spec
INVARIANTS IndInv Accounting CommittedIsComplete ReceivedFits LeakOnlyOnError
PROPERTY ReleaseExact
CHECK_DEADLOCK FALSE
