SPECIFICATION Spec
CONSTANTS
  ShredChunk = 2
  Passes = 7
  MaxSize = 3
  Faults = {"fsync"}
  Sizes <- MCSizes
INVARIANT ZeroIsWiped
