\* The same store: a crash in a session that began with a recovery.
SPECIFICATION Spec
CONSTANTS
  Keys = {"k", "l"}
  Values <- MCValues
  Empty = "empty"
  Texts <- MCTexts
  torn <- MCTorn
  blur <- MCBlur
  need <- MCNeed
  DATAS_SIZE = 2
  MaxLog = 2
  CrashLimit = 2
INVARIANTS
  AllRedone
