\* One terminal, with Shift and Caps Lock.
SPECIFICATION Spec
CONSTANTS
  Keys = {"LSHIFT", "CAPSLOCK", "K_A", "K_RETURN"}
  NEVENTS = 3
  BUF_SZ = 5
  READ_SZ = 3
  Ttys = {"1"}
  LINES = 2
  COLUMNS = 2
  PROMPT = 1
INVARIANTS
  CookedCountsLines
