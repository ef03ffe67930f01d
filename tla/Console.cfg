\* One terminal with a ring of five bytes, a shell that reads two, an event ring
\* of three slots, a screen of two by two, and no Shift.
SPECIFICATION Spec
CONSTANTS
  Keys = {"LALT", "K_2", "K_RETURN", "K_BACKSPACE"}
  NEVENTS = 3
  BUF_SZ = 5
  READ_SZ = 2
  Ttys = {"1"}
  LINES = 2
  COLUMNS = 2
  PROMPT = 1
INVARIANTS
  TypeOK
  NoEmptyPop
  MarksOnScreen
