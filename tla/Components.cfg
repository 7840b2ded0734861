SPECIFICATION Spec
CONSTANTS
  b1 = b1
  b2 = b2
  j1 = j1
  j2 = j2
  q1 = q1
  q2 = q2
  w1 = w1
  w2 = w2
  Opener = {b1, b2}
  Blob = {w1}
  MaxSecrets = 2
  MaxDeaths = 1
  Build = {b1, b2}
  Ships <- OldAndNew
  LastVersion = 2
  MaxMishaps = 2
  Reader = {q1, q2}
  WorkerDies = TRUE
  MaxLines = 2
  MainThread = TRUE
  MaxAttempts = 3
  MaxDelay = 16
  Job = {j1, j2}
  Asker = {q1}
  Workers = 1
  Entry = {w1, w2}
  SizeOf <- OneAndTwo
  MaxBytes = 1
  MaxAge = 0
  MaxSeconds = 1
  MaxRecordings = 2
  Session = {q1, q2}
  Key = {w1}
  Usage = {1, 2}
  MaxCalls = 2
  p1 = p1
  MaxEvents = 3
  GrantSets <- SomeGrants
  Caller = {q1, q2}
  CallsMade <- SomeCalls
  Document = {p1}
  MaxEdits = 1
  Peer = {q1, q2}
  Neighbour = {q2}
  MaxRequests = 1
  Bundled <- TwoBundled
  ThirdParty <- FourOthers
  Fake <- FakeClaude
  MaxPips = 2
  CallKey = {w1, w2}
  JsonInput = {w2}
  MaxRows = 2
  MaxChanges = 2
\* A call, a command and a job come to an end.
CHECK_DEADLOCK FALSE
INVARIANTS
  TypeOK
  StoreStaysOpenable
  VersionTellsSchema
  InterruptedIsOver
  AnswerIsSound
  WorkspaceOutlivesClient
  RetriesAreSafe
  StreamTellsTheEnd
  EvictionIsRight
  JournalIsHonest
  SettingsAreKept
  CallIsTranslated
  HitsAreSound
  GatewayIsTransparent
  NamesLeadToVettedAdapters
  QueriesTellTheStore
PROPERTIES
  ReadersOfTheStoreKeepIt
  OpensOwnVersion
  WatchReturns
  CallEnds
  AcceptedJobEnds
  EvictionCatchesUp
