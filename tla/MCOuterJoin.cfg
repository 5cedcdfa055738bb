CONSTANTS
  k1 = k1  k2 = k2  k3 = k3
  NoRow = NoRow
  NumThreads = 2
  Keys <- ThreeKeys
  Mask = 1
  Hashes <- SomeHashes
  Builds <- SomeBuilds
  Probes <- SomeProbes
  Kinds <- OuterJoin
  TuplesPerChunk = 1
SPECIFICATION Spec
INVARIANTS JoinExact
