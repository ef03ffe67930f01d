\* A heap of seven kilobytes in a 16 kB address space, five descriptors.
SPECIFICATION Spec
CONSTANTS
  POOL_SIZE = 5
  WIDTH = 4
  PmStart = 1
  PmEnd = 8
INVARIANTS
  NeverCorrupt
  ListIsFreeSet
  Tiling
  BackToInitial
  MemUsedExact
  FreeRunIsOneBlock
PROPERTIES
  LiveBlocksStay
