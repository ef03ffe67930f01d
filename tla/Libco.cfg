\* Three coroutines: one ends in another's co_start, and a third is left to wait for.
SPECIFICATION Spec
CONSTANT N = 3
INVARIANTS
  TypeOK
  SelectReachesAll
  BuffersAreOwn
  EarlyOnlyIfCut
PROPERTY
  AllWaitsReturn
