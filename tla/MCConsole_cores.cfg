CONSTANTS
  Cores = {c0, c1, c2}
  Bare = {c2}
  FifoSize = 1
  LineLength = 2
SPECIFICATION ConSpec
INVARIANTS MutualExclusion HolderSeesLastWrites LinesWhole NothingLost
PROPERTY ImplementsMutex
