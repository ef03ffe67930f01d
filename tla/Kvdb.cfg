\* Two keys, a table of two blocks: two short values or a long one fill it.
SPECIFICATION Spec
CONSTANTS
  Keys = {"k", "l"}
  Values <- MCValues
  Empty = "empty"
  Texts <- MCTexts
  torn <- MCTorn
  blur <- MCBlur
  need <- MCNeed
  DATAS_SIZE = 2
  MaxLog = 2
  CrashLimit = 2
INVARIANTS
  TypeOK
  CrashSafe
  TableIsAcked
