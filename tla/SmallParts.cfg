CONSTANTS
  NoToken = NoToken
  MaxLogins = 2
  MaxRequests = 2
  MaxUser = 3
  NoSecret = NoSecret
  MaxTokens = 2
  MaxSubmissions = 2
  MaxStops = 1
  Names = {me, u}
  Me = me
  Collections = {c}
  MaxLists = 2
  MaxChanges = 3
  MaxMounts = 1
  MaxBatchSize = 3
  MaxCost = 6
  ExtractorPriorities = {1}
  Sizes = {1, 3, 6}
  MaxCandidates = 4
  Null = Null
SPECIFICATION SmallPartsSpec
CHECK_DEADLOCK FALSE
INVARIANT SmallPartsTypeOK
INVARIANT BatchTakesTheFirst
INVARIANT RegistrationIsSound
INVARIANT UsersPageIsCurrent
PROPERTY SessionSettles
