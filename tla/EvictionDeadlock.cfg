\* Two threads of one process whose recordings evict each other's entry.
SPECIFICATION FairSpec
CONSTANTS
  Key = {k1, k2}
  NoKey = NoKey
  MaxRuns = 2
  NumOutputs = 1
  Fingerprint <- DistinctBytes
  Proc = {p1, p2}
  Modes = {"CACHE"}
  Depths = {FALSE}
  Admin = {"EVICT"}
  LockTimeouts = FALSE
  MaxFaults = 0
  MaxAborts = 0
PROPERTY OperationsEnd
CHECK_DEADLOCK FALSE
