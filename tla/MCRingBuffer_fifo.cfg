CONSTANTS
  Producers = {p}
  Consumers = {q}
  Byte = {x, y}
  Size = 4
SPECIFICATION Spec
SYMMETRY ByteSymmetry
INVARIANT SlotsDisjoint
PROPERTY ImplementsFifo
