CONSTANTS
  NumPages = 3
  Hits <- OneQuery
  PreloadDistance = 0
  SmoothDistance = 1
  MaxCachedPages = 2
  MaxScale = 2
  MaxEvents = 3
  NoTimer = NoTimer
SPECIFICATION Spec
CHECK_DEADLOCK FALSE
INVARIANT ViewerTypeOK
INVARIANT CachesAgree
 
INVARIANT PagesShowFind
