\* The same test on two CPUs, which may wreck a stack and stop.
SPECIFICATION PCSpec
CONSTANTS
  NCPU = 2
  NTASK = 6
  MAX_TASK = 6
  maxk = 1
  Sems <- PCSems
  InitVal <- PCInitVal
  Labels <- PCLabels
  Entry <- PCEntry
  Prog <- PCProg
  Local <- PCLocal
  KbdSem = "kbdirq"
  KbdLimit = 0
INVARIANTS
  CntBounded
CHECK_DEADLOCK FALSE
