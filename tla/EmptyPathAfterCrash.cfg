SPECIFICATION Spec
CONSTANTS
  NULL = NULL
  Requests = {r1}
  Sizes = {s1}
  OverPixelLimit = {}
  Images = {"decodable"}
  Handlers = {h1}
  MaxConcurrentImageJobs = 1
  MaxFaults = 0
  MaxCrashes = 1
  MaxStalls = 0
INVARIANTS
  CompletedIsServed
CHECK_DEADLOCK FALSE
