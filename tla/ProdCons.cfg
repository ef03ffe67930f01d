\* Two producers and two consumers on one CPU.
SPECIFICATION PCSpec
CONSTANTS
  NCPU = 1
  NTASK = 5
  MAX_TASK = 5
  maxk = 2
  Sems <- PCSems
  InitVal <- PCInitVal
  Labels <- PCLabels
  Entry <- PCEntry
  Prog <- PCProg
  Local <- PCLocal
  KbdSem = "kbdirq"
  KbdLimit = 0
INVARIANTS
  CntBounded
PROPERTIES
  EveryWorkerProgresses
