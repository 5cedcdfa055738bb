CONSTANTS
  t1 = t1  t2 = t2  t3 = t3  j1 = j1  j2 = j2
  Threads <- ThreeThreads
  MainThread = t1
  Jobs <- TwoJobs
  RelSize = 5
  ChunkSize = 2
  Modes <- AllModes
  NoLimit = NoLimit
  Limits <- SomeLimits
SPECIFICATION Spec
INVARIANTS TypeOK RunnersReady RowsPickedOnce ResultComplete PrinterExact OnlyFinishedCodePublished
PROPERTIES SetUpIsQuiescent ImplementsScan
SYMMETRY OtherWorkers
