SPECIFICATION Spec
CONSTANTS
  NULL = NULL
  Requests = {r1}
  Sizes = {s1}
  OverPixelLimit = {}
  Images = {"decodable"}
  Handlers = {h1, h2}
  MaxConcurrentImageJobs = 2
  MaxFaults = 0
  MaxCrashes = 0
  MaxStalls = 0
PROPERTIES
  OnlyRetryableReset
CHECK_DEADLOCK FALSE
