\* The signal comes before the FTP server listens.
CONSTANTS
  p1 = p1
  p2 = p2
  Probes = {p1}
  Patient = p1
  Watched = "ocis"
  TTL = 1
  CheckTimeout = 1
  Monitored = TRUE
  ShutdownTimeout = 1
SPECIFICATION FairSpec
PROPERTY ReturnsWhenCancelled
CHECK_DEADLOCK FALSE
