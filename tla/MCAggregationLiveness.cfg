CONSTANTS
  k1 = k1  k2 = k2  k3 = k3  k4 = k4
  NumThreads = 1
  Keys <- FourKeys
  Inputs <- LongInputs
  ChunkSize = 4
  StartSlots = 2
  MinKeys = 1
SPECIFICATION FairSpec
PROPERTIES AggregationEnds
