\* Two keys whose recorders evict each other's entry; lock waits are bounded.
SPECIFICATION FairSpec
CONSTANTS
  Key = {k1, k2}
  NoKey = NoKey
  MaxRuns = 2
  NumOutputs = 1
  Fingerprint <- DistinctBytes
  Proc = {p1, p2}
  Modes = {"CACHE"}
  Depths = {FALSE}
  Admin = {"EVICT"}
  LockTimeouts = TRUE
  MaxFaults = 0
  MaxAborts = 0
PROPERTIES
  OperationsEnd
