CONSTANTS
  PathOrder <- DroppedFiles
  TooLarge <- Large
  Begins <- Beginnings
  SystemNames <- System
  SystemFolders = {}
  RetryLimit = 1
  MaxLoops = 2
  MaxFolders = 4
  MaxFaults = 1
  MaxUploadEdits = 2
  MaxSessions = 2
  text = text
  scan = scan
  song = song
  sheet = sheet
  letter = letter
  tome = tome
  folder = folder
  file = file
  Docs = {scan, song, sheet, letter, tome}
  Paged = {scan}
  Blobs = {scan, song, sheet, tome}
  Bare = {tome}
  ViewsOf <- SomeViews
  Dirs = {folder, file}
  SingleChild <- SomeChildren
  NoUri = NoUri
  MaxFlights = 3
  MaxMoves = 4
  BoxTexts = {blank, word}
  Blank = blank
  Empty = empty
  Main = main
  Subs = {s1, s2}
  Unsorted = unsorted
  Orders = {unsorted, size}
  NoSearch = NoSearch
  MaxSearches = 2
  MaxSearchUses = 5
  date = date
  word = word
  plus = plus
  minus = minus
  Fields <- SomeFields
  Dates = {date}
  Words = {word}
  Plus = plus
  Minus = minus
  Values = {"", "x"}
  Bad = {"x"}
  Texts <- SomeTexts
  ReceivedQueries <- SomeQueries
  MaxElements = 7
  MaxUses = 3
  MaxQueries = 2
  Count = 3
  Tops = {0, 2, 5}
  Heights = {1, 4}
  Margin = 1
  None = None
  Characters = 4
  MaxHighlights = 3
SPECIFICATION DocumentPagesSpec
CHECK_DEADLOCK FALSE
INVARIANT DocumentPagesTypeOK
INVARIANT EachFileInItsPlace
INVARIANT DialogIsTrue
INVARIANT LoadsAreWaitedFor
INVARIANT OpenedIsShown
INVARIANT SearchIsOfAddress
INVARIANT CommentsInPlace
INVARIANT CommentedTextIsWhole
PROPERTY OneChipGoes
PROPERTY UserKeepsFocus
