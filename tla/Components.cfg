SPECIFICATION SpecOfPart
CONSTANTS
  Users = {a1, a2}
  Handlers = {b1, b2}
  Nobody = Nobody
  Reports = {r1, r2}
  Workers = {w1}
  Ratings = {3}
  MaxDeeds = 3
  MaxPages = 2
  Capacity = 1
  BulkLimit = 2
  MaxUploads = 1
  Members = {a1, a2, host}
  Host = host
  Admins = {b1, b2}
  Runs = {r1, r2}
  Batch = 2
  MaxTries = 2
  MaxDue = 2
  Requests = {a1, a2}
  MaxSessions = 2
  MaxTokens = 3
  MaxCodes = 2
  MaxGuesses = 1
  Limit = 2
  Channels = {a1, a2}
  MaxChannels = 2
  MaxSocial = 1
  MaxQueue = 2
  MaxWizards = 2
  MaxEvents = 3
  MaxNews = 2
  NoChannel = NoChannel
  Customs = {1, 2}
  RoomIds = {room1}
  Passwords = {a1, a2}
  MaxConfirms = 1
  Missing = Missing
  Events = {e1}
  Global = Global
  Rows = {r1, r2}
  Updates = {b1, b2}
  Processes = {w1, w2}
  EventRetention = 1
  RoomRetention = 1
  Horizon = 2
  MaxEntries = 2
  MaxVerdicts = 1
  MaxFailures = 1
  Never = Never
INVARIANTS
  EveryTypeOK
  ScoreMatchesRows OnceOnly UpheldCounts
  RejectedHoldsNoSeat
  OnlyOnce DoneReachesAll ConfirmedStarts ReminderReaches
  UsedOnce LimiterRecovers
  GatedByOwnChannel FollowInSync OncePerWizard
  CountIsRows
  PurgedIsMarked
PROPERTIES
  PasswordEarned FinalMeansSeated SentAsEntered OnlyThePastGoes
SYMMETRY Symmetry
CONSTRAINT Few
CHECK_DEADLOCK FALSE
