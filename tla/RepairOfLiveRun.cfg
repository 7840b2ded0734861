\* A repair of a run whose process is still storing it.
SPECIFICATION Spec
CONSTANTS
  Key = {k1}
  NoKey = NoKey
  MaxRuns = 2
  NumOutputs = 1
  Fingerprint <- DistinctBytes
  Proc = {p1, p2}
  Modes = {"CACHE"}
  Depths = {FALSE}
  Admin = {"REPAIR"}
  LockTimeouts = FALSE
  MaxFaults = 0
  MaxAborts = 0
PROPERTY AnswerNeverLost
