CONSTANTS
  k1 = k1  k2 = k2  k3 = k3  k4 = k4
  NumThreads = 2
  Keys <- ThreeKeys
  Inputs <- SomeInputs
  ChunkSize = 2
  StartSlots = 2
  MinKeys = 1
SPECIFICATION Spec
INVARIANTS TypeOK FlagClean PointersLive RowsCountedOnce GroupsUnique MergeExactIfSized
