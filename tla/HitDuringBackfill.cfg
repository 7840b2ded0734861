\* A hit while another caller back-fills the input of the same entry.
SPECIFICATION Spec
CONSTANTS
  Key = {k1}
  NoKey = NoKey
  MaxRuns = 2
  NumOutputs = 1
  Fingerprint <- DistinctBytes
  Proc = {p1, p2}
  Modes = {"CACHE"}
  Depths = {FALSE, TRUE}
  Admin = {}
  LockTimeouts = FALSE
  MaxFaults = 0
  MaxAborts = 0
PROPERTY QuarantineOnlyBroken
