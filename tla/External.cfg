CONSTANTS
  b1 = b1
  b2 = b2
  e1 = e1
  e2 = e2
  o1 = o1
  o2 = o2
  ws1 = ws1
  NoWorkspace = NoWorkspace
  NoTodo = NoTodo
  Blobs = {b1}
  Extractors = {e1, e2}
  External = {e2}
  Origins = {o1}
  Workspaces = {}
  TodoIds <- TwoIds
  Workers <- TwoWorkers
  Applicable <- EveryExtractor
  Uploads <- OneUpload
  Known <- TwoBuilds
  InitWorkers <- OneWorker
  MaxBatchSize = 2
  MaxFaults = 0
  MaxReruns = 1
  MaxHandovers = 2
SPECIFICATION Spec
PROPERTY NothingForgotten
PROPERTY ImplementsInternalLedger
