SPECIFICATION FairSpec
CONSTANTS
  NULL = NULL
  Requests = {r1}
  Sizes = {s1}
  OverPixelLimit = {}
  Images = {"decodable"}
  Handlers = {h1, h2}
  MaxConcurrentImageJobs = 1
  MaxFaults = 1
  MaxCrashes = 1
  MaxStalls = 1
PROPERTIES
  ProcessingEnds
  CallsReturn
  PendingSettles
CHECK_DEADLOCK FALSE
