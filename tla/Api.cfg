SPECIFICATION ApiSpec
CONSTANTS
  NULL = NULL
  Requests = {r1}
  Sizes = {s1, s2}
  OverPixelLimit = {s2}
  Images = {"decodable"}
  Handlers = {h1}
  Readers = {c1}
  MaxConcurrentImageJobs = 1
  MaxFaults = 1
  MaxCrashes = 1
  MaxStalls = 0
INVARIANTS
  ApiTypeOK
  UrlsResolve
  CompletedAnswerIsWhole
  NothingIsUnaccounted
  StoreAnswersWithOutcome
PROPERTIES
  CompletedIsFinal
CHECK_DEADLOCK FALSE
