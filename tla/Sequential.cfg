SPECIFICATION Spec
CONSTANTS
  NULL = NULL
  Requests = {r1}
  Sizes = {s1, s2, s3}
  OverPixelLimit = {s3}
  Images = {"decodable", "oversized", "corrupt"}
  Handlers = {h1}
  MaxConcurrentImageJobs = 1
  MaxFaults = 2
  MaxCrashes = 2
  MaxStalls = 0
INVARIANTS
  SharedHash
  StatusAgreesWithSizes
PROPERTIES
  ImplementsLifecycle
  SourceKeptUntilDone
CHECK_DEADLOCK FALSE
