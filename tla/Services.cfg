SPECIFICATION FairSpec
CONSTANTS
  i1 = i1
  i2 = i2
  i3 = i3
  p1 = p1
  p2 = p2
  e1 = e1
  e2 = e2
  Imports = {i1, i2, i3}
  Places = {p1}
  Manifest <- TheManifest
  Overrides <- TheOverrides
  FailAfterLoad = {i3}
  NoTable = NoTable
  NoVersion = NoVersion
  Versions = {i1, i2}
  Positions = {p1, p2}
  Layerings <- TheLayerings
  Calls = {1, 2}
  Asked <- TheAsked
  Configs <- TheConfigs
  Buckets = {1}
  Bucket <- TheBucket
  NoEntry = NoEntry
  Workers = {w1, w2}
  Entities = {e1, e2}
  Published <- ThePublished
  BatchSize = 1
  NoSession = NoSession
  Ghost = Ghost
  MatchJobs = {j1, j2}
  Listings <- TheListings
  Profiles <- TheProfiles
  Normal <- TheNormal
  Null = Null
  Sockets = {s1, s2}
  NoSocket = NoSocket
  ApiKey = TRUE
  MaxAttempt = 5
  Lives <- TheLives
  Reports <- TheReports
  MaxFaults = 1
  MaxRepeats = 2
INVARIANTS TypeOK LosersHaveWinners AnswersFit CompletedStands JudgedInSpan FeedHeld
PROPERTIES ImplementsDatasets StatusSettles OnlyLearns Converges ServicesGetOn
CHECK_DEADLOCK FALSE
