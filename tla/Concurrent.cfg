SPECIFICATION Spec
SYMMETRY Symmetry
CONSTANTS
  NULL = NULL
  Requests = {r1}
  Sizes = {s1, s2}
  OverPixelLimit = {s2}
  Images = {"decodable"}
  Handlers = {h1, h2, h3}
  MaxConcurrentImageJobs = 2
  MaxFaults = 1
  MaxCrashes = 1
  MaxStalls = 1
INVARIANTS
  TypeOK
  ServedIsStored
  SemaphoreCounts
  ProcessingIsDated
  OneWriterPerRow
  CompletedIsRecorded
  NoLeftoverUpload
PROPERTIES
  UrlsArePermanent
CHECK_DEADLOCK FALSE
