CONSTANTS
  k0 = k0  k1 = k1  k2 = k2  k3 = k3
  KeysOf <- AllKinds
  ZeroKey = k0
  Mask = 1
  Hashes <- EdgeHashes
  StartSlots = 2
  DirectSlots = 4
  ChunkSize = 2
  MaxSlots = 8
  MaxCount = 2
  DisableAbsent = FALSE
SPECIFICATION Spec
INVARIANTS TypeOK TableIsMap HalfEmpty MovedOnce ReadOnce
SYMMETRY OtherKeys
