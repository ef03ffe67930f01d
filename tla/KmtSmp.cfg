\* Two CPUs: their idle tasks, the input task, the tty task and a shell.
SPECIFICATION Spec
CONSTANTS
  NCPU = 2
  NTASK = 5
  MAX_TASK = 5
  Sems <- MCSems
  InitVal <- MCInitVal
  Labels <- MCLabels
  Entry <- MCEntry
  Prog <- MCProg
  Local <- MCLocal
  KbdSem = "kbdirq"
  KbdLimit = 1
  SemBound = 6
CONSTRAINT SemBounded
INVARIANTS
  TypeOK
  LockOrder
  SemAccount
  SchedulerFindsTask
  ProcCpu
