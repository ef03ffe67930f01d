\* One CPU with the same tasks: here no task is resumed while it executes.
SPECIFICATION FairSpec
CONSTANTS
  NCPU = 1
  NTASK = 4
  MAX_TASK = 4
  Sems <- MCSems
  InitVal <- MCInitVal
  Labels <- MCLabels
  Entry <- MCEntry
  Prog <- MCProg
  Local <- MCLocal
  KbdSem = "kbdirq"
  KbdLimit = 3
  SemBound = 6
INVARIANTS
  NoHalt
  NoLostWakeup
  RunningIsCurrent
PROPERTIES
  ReadyRuns
  KbdServed
