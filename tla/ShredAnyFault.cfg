SPECIFICATION Spec
CONSTANTS
  ShredChunk = 2
  Passes = 7
  MaxSize = 4
  Faults = {"open", "seek", "malloc", "write", "unlink", "truncate", "crash", "power", "fsync"}
  Sizes <- MCSizes
INVARIANT TypeOK
INVARIANT WipedBeforeGone
PROPERTY MediumSeesEveryPass
PROPERTY EventuallyEnds
