CONSTANTS
  b1 = b1
  body = body
  transcribe = transcribe
  translate = translate
  o1 = o1
  o2 = o2
  c1 = c1
  c2 = c2
  NoWorkspace = NoWorkspace
  NoTodo = NoTodo
  NoMessage = NoMessage
  Blobs = {b1}
  Extractors = {body, translate}
  External = {translate}
  Origins = {o1}
  Workspaces = {}
  TodoIds <- TwoIds
  Workers <- OneWorker
  Applicable <- Document
  Uploads <- OneUpload
  Known <- OneBuild
  InitWorkers <- OneWorker
  MaxBatchSize = 2
  MaxFaults = 2
  MaxReruns = 0
  MaxHandovers = 1
  TranslatedBy <- BodyTranslation
  Foreign = {b1}
  Nested = {}
  Consumers = {c1}
  Overtakes = FALSE
  MaxLosses = 1
SPECIFICATION FairExternalSpec
INVARIANT ForeignIsTranslated
PROPERTY EveryItemSettles
