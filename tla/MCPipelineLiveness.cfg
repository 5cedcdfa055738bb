CONSTANTS
  t1 = t1  t2 = t2  t3 = t3  j1 = j1  j2 = j2
  Threads <- TwoThreads
  MainThread = t1
  Jobs <- TwoJobs
  RelSize = 3
  ChunkSize = 2
  Modes <- AllModes
  NoLimit = NoLimit
  Limits <- SomeLimits
SPECIFICATION FairSpec
PROPERTIES PipelineReturns CompilationStops
