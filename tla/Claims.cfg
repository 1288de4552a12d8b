CONSTANTS
  b1 = b1
  b2 = b2
  e1 = e1
  e2 = e2
  o1 = o1
  o2 = o2
  ws1 = ws1
  NoWorkspace = NoWorkspace
  NoTodo = NoTodo
  Blobs = {b1}
  Extractors = {e1}
  External = {}
  Origins = {o1, o2}
  Workspaces = {ws1}
  TodoIds <- TwoIds
  Workers <- TwoWorkers
  Applicable <- EveryExtractor
  Uploads <- TwoOrigins
  Known <- OneBuild
  InitWorkers <- OneWorker
  MaxBatchSize = 2
  MaxFaults = 1
  MaxReruns = 1
  MaxHandovers = 0
SPECIFICATION Spec
INVARIANTS TypeOK NoAttemptStranded RunningBatchLocked RecordedOnce SameViewExclusive
SYMMETRY Interchangeable
