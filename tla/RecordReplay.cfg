\* Callers at CACHE depth, two of the documents sharing their bytes, hard purges,
\* failures and aborts; key locks never time out.
SPECIFICATION Spec
CONSTANTS
  Key = {k1}
  NoKey = NoKey
  MaxRuns = 2
  NumOutputs = 3
  Fingerprint <- SharedBytes
  Proc = {p1, p2, p3}
  Modes = {"CACHE", "REFRESH", "OFFLINE"}
  Depths = {FALSE}
  Admin = {"HARD"}
  LockTimeouts = FALSE
  MaxFaults = 1
  MaxAborts = 1
SYMMETRY Symmetry
INVARIANTS
  TypeOK
  AtMostOneCurrent
  ServableIsComplete
  ReferencesResolve
  NoUntrackedBlob
  RecordOnce
  HitAllOrNothing
  AnswerInv
PROPERTIES
  AnswerNeverLost
  ImplementsAnswerStore
