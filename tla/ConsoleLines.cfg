\* One terminal whose ring holds two completed lines of a character each, or
\* three empty ones, two characters to type and a shell that reads two bytes;
\* the smallest screen.
SPECIFICATION TtySpec
CONSTANTS
  Keys = {"K_2", "K_A", "K_RETURN", "K_BACKSPACE"}
  NEVENTS = 2
  BUF_SZ = 7
  READ_SZ = 2
  Ttys = {"1"}
  LINES = 2
  COLUMNS = 1
  PROMPT = 1
INVARIANTS
  CookedCountsLines
PROPERTIES
  LineDiscipline
