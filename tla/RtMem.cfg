SPECIFICATION Spec
CONSTANTS
  mem_size_aligned = 9
  SIZEOF_STRUCT_MEM = 1
  MIN_SIZE_ALIGNED = 2
  Clients = {c1, c2}
INVARIANTS
  TypeOK
  Tiled
  NoFreeNeighbours
  UsedMemCounts
  LfreeIsLowest
  WalkFindsFirst
  CopyFits
PROPERTY ImplementsHeap
