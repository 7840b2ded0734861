\* Lock waits that run out, back-filled inputs, hard purges, evictions, an abort and
\* a repair without a lock.
SPECIFICATION Spec
CONSTANTS
  Key = {k1}
  NoKey = NoKey
  MaxRuns = 2
  NumOutputs = 1
  Fingerprint <- DistinctBytes
  Proc = {p1, p2}
  Modes = {"CACHE"}
  Depths = {TRUE}
  Admin = {"HARD", "REPAIR", "EVICT"}
  LockTimeouts = TRUE
  MaxFaults = 0
  MaxAborts = 1
SYMMETRY Symmetry
INVARIANT IInv
PROPERTY InProgressIsRunning
