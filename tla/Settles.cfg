CONSTANTS
  b1 = b1
  body = body
  transcribe = transcribe
  translate = translate
  o1 = o1
  o2 = o2
  c1 = c1
  c2 = c2
  NoWorkspace = NoWorkspace
  NoTodo = NoTodo
  NoMessage = NoMessage
  Blobs = {b1}
  Extractors = {transcribe}
  External = {transcribe}
  Origins = {o1}
  Workspaces = {}
  TodoIds <- TwoIds
  Workers <- TwoWorkers
  Applicable <- Recording
  Uploads <- OneUpload
  Known <- OneBuild
  InitWorkers <- TwoWorkers
  MaxBatchSize = 2
  MaxFaults = 1
  MaxReruns = 1
  MaxHandovers = 1
  TranslatedBy <- NoTranslation
  Foreign = {}
  Nested = {}
  Consumers = {c1}
  Overtakes = FALSE
  MaxLosses = 1
SPECIFICATION FairExternalSpec
PROPERTY EveryItemSettles
