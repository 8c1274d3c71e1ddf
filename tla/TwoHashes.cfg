SPECIFICATION Spec
CONSTANTS
  NULL = NULL
  Requests = {r1}
  Sizes = {s1, s2}
  OverPixelLimit = {}
  Images = {"decodable"}
  Handlers = {h1, h2}
  MaxConcurrentImageJobs = 2
  MaxFaults = 0
  MaxCrashes = 1
  MaxStalls = 0
INVARIANTS
  SharedHash
CHECK_DEADLOCK FALSE
