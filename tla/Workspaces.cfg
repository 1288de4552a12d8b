CONSTANTS
  EntryOrder <- ByName
  FolderEntries = {1, 2}
  Trees <- SomeTrees
  MaxChildren = 3
  MaxGeneration = 2
  MaxGestures = 3
  wa = wa
  wb = wb
  x = x
  None = None
  Workspaces = {wa, wb}
  WorkspaceItems = {x}
  Deletable = {x}
  Home <- HomeOf
  MaxFetches = 3
  MaxWorkspaceEdits = 1
  MaxVisits = 2
  MaxPolls = 1
  MoveIds = {1, 2, 3}
  Outside = 0
  MoveTargets = {0, 2}
  Selections <- SomeSelections
  Batches = 2
  MaxDrops = 2
  MaxMounts = 2
  Nowhere = Nowhere
  WorkspaceIds = {w1, w2}
  MaxLists = 2
  MaxChanges = 2
  MaxMoves = 3
SPECIFICATION WorkspacesSpec
CHECK_DEADLOCK FALSE
INVARIANT WorkspacesTypeOK
INVARIANT DropsOnceAndWhole
INVARIANT KeysFollowRows
INVARIANT InProgressIsInFlight
INVARIANT EditsAreShown
INVARIANT MovesAreFollowed
INVARIANT SidebarIsCurrent
