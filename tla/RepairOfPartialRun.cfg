\* A repair of a run whose process died before its last document.
SPECIFICATION Spec
CONSTANTS
  Key = {k1}
  NoKey = NoKey
  MaxRuns = 2
  NumOutputs = 2
  Fingerprint <- DistinctBytes
  Proc = {p1, p2}
  Modes = {"CACHE"}
  Depths = {FALSE}
  Admin = {"REPAIR"}
  LockTimeouts = FALSE
  MaxFaults = 0
  MaxAborts = 1
INVARIANT ServableIsComplete
