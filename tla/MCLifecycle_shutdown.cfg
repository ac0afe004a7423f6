\* A signal at any time while two probes come and go. TTL, check timeout and
\* shutdown timeout are equal, as in the code.
CONSTANTS
  p1 = p1
  p2 = p2
  Probes = {p1, p2}
  Patient = p1
  Watched = "ocis"
  TTL = 1
  CheckTimeout = 1
  Monitored = TRUE
  ShutdownTimeout = 1
SPECIFICATION FairSpec
INVARIANTS ServiceInv QuietAfterReturn WaitBounded
PROPERTIES ReadyWasUp OneRoundPerTTL EveryProbeAnswered ReturnsOnceListening
CHECK_DEADLOCK FALSE
