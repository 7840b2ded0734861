\* A hit whose reads straddle a soft purge.
SPECIFICATION Spec
CONSTANTS
  Key = {k1}
  NoKey = NoKey
  MaxRuns = 2
  NumOutputs = 1
  Fingerprint <- DistinctBytes
  Proc = {p1, p2}
  Modes = {"CACHE"}
  Depths = {FALSE}
  Admin = {"SOFT"}
  LockTimeouts = FALSE
  MaxFaults = 0
  MaxAborts = 0
INVARIANT HitIsComplete
