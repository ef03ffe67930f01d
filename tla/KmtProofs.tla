----------------------------- MODULE KmtProofs -----------------------------
(***************************************************************************)
(* Proofs about Kmt for any number of CPUs, tasks and semaphores and any   *)
(* task programs, and about ProdCons, the test on top of it.               *)
(***************************************************************************)
EXTENDS ProdCons, Lemmas

InCall(c) == pc[c] \in {"spin", "body"}
InTrap(c) == ev[c] # "none"

(***************************************************************************)
(* The inductive invariant, beside TypeOK.                                 *)
(***************************************************************************)
\* Interrupts are off in a call and in a trap, and popcli never turns them on.
IrqInv ==
  \A c \in CPU :
    /\ iff[c] => pc[c] \in {"user", "yield"}
    /\ ncli[c] = IF InCall(c) THEN 1 ELSE 0
    /\ intena[c] = FALSE

\* What a phase says of the CPU's trap, call and current task.
PhaseInv ==
  \A c \in CPU :
    /\ pc[c] \in {"user", "yield"} => ~ InTrap(c)
    /\ pc[c] \in {"trap", "save", "scan", "iret"} => InTrap(c)
    /\ pc[c] \in {"user", "iret"} => cur[c] \in Tasks
    /\ InCall(c) => call[c] \in Call
    /\ InCall(c) /\ InTrap(c) => call[c].op = "signal"
    /\ InCall(c) /\ ~ InTrap(c) => cur[c] \in Tasks \ Idle

\* The locks are held by the CPUs that are in their sections.
LockInv ==
  /\ \A c \in CPU : pc[c] \in {"save", "scan"} \/ (InCall(c) /\ InTrap(c))
                      <=> ctm = c
  /\ \A c \in CPU : pc[c] = "body" => lk[call[c].sem] = c
  /\ \A s \in Sems : lk[s] # NONE_CPU =>
       pc[lk[s]] = "body" /\ call[lk[s]].sem = s

\* An idle task never leaves its loop and so never sleeps.
IdleInv ==
  /\ \A t \in Idle : ctx[t].at = Entry[t] /\ state[t] # "YIELD"
  /\ \A c \in CPU : cur[c] \in Idle /\ pc[c] # "iret" => at[c] = Entry[cur[c]]

\* A RUNNING task is some CPU's current task, not that of a choosing CPU.
RunInv ==
  /\ \A t \in Tasks : state[t] = "RUNNING" => \E c \in CPU : cur[c] = t
  /\ \A c \in CPU : pc[c] = "scan" /\ cur[c] # NoTask =>
       state[cur[c]] # "RUNNING"

IInv == TypeOK /\ IrqInv /\ PhaseInv /\ LockInv /\ IdleInv /\ RunInv /\ ProcCpu

(***************************************************************************)
\* What KmtConstants says of the derived sets: the idle tasks are tasks that
\* make no call, and neither NONE_CPU nor NoTask is an index.
LEMMA Constants ==
  /\ NONE_CPU \notin CPU /\ NoTask \notin Tasks
  /\ Idle \subseteq Tasks /\ Idle = CPU
  /\ 0 \in CPU /\ 0 \in Tasks
  /\ InitVal \in [Sems -> Nat]
  /\ Entry \in [Tasks -> Labels]
  /\ Prog \in [Labels -> SUBSET Instr]
  /\ Local \in [Labels -> SUBSET Labels]
  /\ \A t \in Idle : Prog[Entry[t]] = {} /\ Local[Entry[t]] = {}
  /\ KbdSem \in Sems
BY KmtConstants DEF CPU, Tasks, Idle, NONE_CPU, NoTask

\* The index the scheduler's loop looks at next is a task (kthreads.c:34).
LEMMA NextIdxType == ASSUME TypeOK, NEW c \in CPU PROVE NextIdx(c) \in Tasks
BY KmtConstants DEF TypeOK, CpuTypeOK, NextIdx, Tasks

\* The boot state (kmt_init, kmt_create_wait) satisfies the invariant.
LEMMA InitInv == Init => IInv
BY Constants
   DEF Init, IInv, TypeOK, CpuTypeOK, TaskTypeOK, SemTypeOK, IrqInv, PhaseInv,
       LockInv, IdleInv, RunInv, ProcCpu, InCall, InTrap, Ctx, Phases

\* A task that enters kmt_spin_lock for a semaphore call keeps the invariant.
LEMMA TaskCallInv ==
  ASSUME IInv, NEW c \in CPU, TaskCall(c)
  PROVE  IInv'
<1> USE Constants DEF IInv, TypeOK, InCall, InTrap, semVars, taskVars
<1> PICK i \in Prog[at[c]] :
      /\ kmt_spin_lock(c, [op |-> i.op, sem |-> i.sem])
      /\ at' = [at EXCEPT ![c] = i.next]
  BY DEF TaskCall
<1>0. i \in Instr /\ [op |-> i.op, sem |-> i.sem] \in Call
  BY DEF CpuTypeOK, Instr, Call
<1>a. ncli[c] = 0 /\ pc[c] = "user"
  BY DEF TaskCall, IrqInv
<1>1. TypeOK'
  <2>1. call' \in [CPU -> Call \cup {NoCall}] /\ pc' \in [CPU -> Phases]
        /\ at' \in [CPU -> Labels]
    BY <1>0 DEF kmt_spin_lock, CpuTypeOK, Instr, Phases
  <2>2. /\ iff' = [iff EXCEPT ![c] = FALSE] /\ ncli' = [ncli EXCEPT ![c] = 1]
        /\ intena' = [intena EXCEPT ![c] = FALSE]
    BY <1>a DEF kmt_spin_lock, pushcli, CpuTypeOK
  <2>3. CpuTypeOK'
    BY <2>1, <2>2 DEF TaskCall, CpuTypeOK
  <2> QED
    BY <2>3 DEF TaskCall, TaskTypeOK, SemTypeOK
<1>2. IrqInv'
  BY DEF TaskCall, kmt_spin_lock, pushcli, CpuTypeOK, IrqInv
<1>3. PhaseInv'
  BY DEF TaskCall, kmt_spin_lock, CpuTypeOK, PhaseInv, IdleInv, Call, Instr
<1>4. LockInv'
  BY DEF TaskCall, kmt_spin_lock, PhaseInv, LockInv
<1>5. IdleInv'
  BY DEF TaskCall, kmt_spin_lock, IdleInv
<1>6. RunInv'
  BY DEF TaskCall, kmt_spin_lock, RunInv
<1>7. ProcCpu'
  BY DEF TaskCall, ProcCpu
<1> QED
  BY <1>1, <1>2, <1>3, <1>4, <1>5, <1>6, <1>7

\* A task's own code keeps the invariant.
LEMMA TaskLocalInv ==
  ASSUME IInv, NEW c \in CPU, TaskLocal(c)
  PROVE  IInv'
<1> USE Constants DEF IInv, TypeOK, InCall, InTrap, semVars, taskVars
<1>1. TypeOK'
  BY DEF TaskLocal, CpuTypeOK, TaskTypeOK, SemTypeOK
<1>2. IrqInv'
  BY DEF TaskLocal, IrqInv
<1>3. PhaseInv'
  BY DEF TaskLocal, PhaseInv
<1>4. LockInv'
  BY DEF TaskLocal, LockInv
<1>5. IdleInv'
  BY DEF TaskLocal, IdleInv
<1>6. RunInv'
  BY DEF TaskLocal, RunInv
<1>7. ProcCpu'
  BY DEF TaskLocal, ProcCpu
<1> QED
  BY <1>1, <1>2, <1>3, <1>4, <1>5, <1>6, <1>7

\* The successful xchg of kmt_spin_lock keeps the invariant.
LEMMA SpinAcquireInv ==
  ASSUME IInv, NEW c \in CPU, SpinAcquire(c)
  PROVE  IInv'
<1> USE Constants DEF IInv, TypeOK, InCall, InTrap, semVars, taskVars
<1>1. TypeOK'
  BY DEF SpinAcquire, CpuTypeOK, TaskTypeOK, SemTypeOK, Phases
<1>2. IrqInv'
  BY DEF SpinAcquire, IrqInv
<1>3. PhaseInv'
  BY DEF SpinAcquire, PhaseInv
<1>4. LockInv'
  <2>1. call[c].sem \in Sems /\ pc[c] = "spin"
    BY DEF SpinAcquire, PhaseInv, Call
  <2> QED
    BY <2>1 DEF SpinAcquire, CpuTypeOK, SemTypeOK, LockInv
<1>5. IdleInv'
  BY DEF SpinAcquire, IdleInv
<1>6. RunInv'
  BY DEF SpinAcquire, RunInv
<1>7. ProcCpu'
  BY DEF SpinAcquire, ProcCpu
<1> QED
  BY <1>1, <1>2, <1>3, <1>4, <1>5, <1>6, <1>7

\* kmt_sem_wait keeps the invariant, whether it sleeps or returns.
LEMMA kmt_sem_waitInv ==
  ASSUME IInv, NEW c \in CPU, kmt_sem_wait(c)
  PROVE  IInv'
<1> USE Constants DEF IInv, TypeOK, InCall, InTrap, semVars, taskVars
<1> DEFINE s == call[c].sem
<1>a. s \in Sems /\ cur[c] \in Tasks \ Idle /\ ~ InTrap(c) /\ Return(c) = "user"
  BY DEF kmt_sem_wait, PhaseInv, Call, Return
<1>b. /\ lk' = [lk EXCEPT ![s] = NONE_CPU] /\ call' = [call EXCEPT ![c] = NoCall]
      /\ iff' = iff /\ intena' = intena
      /\ ncli' = [ncli EXCEPT ![c] = 0]
  BY DEF kmt_sem_wait, sleep, Leave, kmt_spin_unlock, popcli, IrqInv
<1>c. \/ /\ state' = [state EXCEPT ![cur[c]] = "YIELD"]
         /\ que' = [que EXCEPT ![s] = sem_push(@, cur[c])]
         /\ pc' = [pc EXCEPT ![c] = "yield"]
      \/ UNCHANGED <<state, que>> /\ pc' = [pc EXCEPT ![c] = "user"]
  BY <1>a DEF kmt_sem_wait, sleep, Leave, kmt_spin_unlock
<1>d. /\ UNCHANGED <<machine, at, ret, ev, scan, stk, cur, ctm, ctx, cpu_number,
                     nirq>>
      /\ value' = [value EXCEPT ![s] = @ - 1]
      /\ pc[c] = "body"
  BY DEF kmt_sem_wait, sleep, Leave
<1> HIDE DEF s
<1>1. TypeOK'
  <2>1. que[s] \in Seq(Tasks) /\ que \in [Sems -> Seq(Tasks)] /\ cur[c] \in Tasks
    BY <1>a DEF SemTypeOK
  <2>2. sem_push(que[s], cur[c]) \in Seq(Tasks)
    BY <2>1 DEF sem_push
  <2>3. que' \in [Sems -> Seq(Tasks)]
    BY <1>a, <1>c, <2>1, <2>2
  <2>4. SemTypeOK'
    <3>1. value' \in [Sems -> Int]
      BY <1>a, <1>d DEF SemTypeOK
    <3>2. lk' \in [Sems -> CPU \cup {NONE_CPU}]
      BY <1>a, <1>b DEF SemTypeOK
    <3> QED
      BY <2>3, <3>1, <3>2 DEF SemTypeOK
  <2>5. TaskTypeOK'
    BY <1>a, <1>c, <1>d DEF TaskTypeOK
  <2>6. CpuTypeOK'
    BY <1>b, <1>c, <1>d DEF CpuTypeOK, Phases
  <2> QED
    BY <1>d, <2>4, <2>5, <2>6
<1>2. IrqInv'
  BY <1>b, <1>c, <1>d DEF CpuTypeOK, IrqInv
<1>3. PhaseInv'
  BY <1>a, <1>b, <1>c, <1>d DEF CpuTypeOK, PhaseInv
<1>4. LockInv'
  BY <1>a, <1>b, <1>c, <1>d DEF CpuTypeOK, SemTypeOK, LockInv, s
<1>5. IdleInv'
  BY <1>a, <1>c, <1>d DEF TaskTypeOK, CpuTypeOK, IdleInv
<1>6. RunInv'
  <2>1. \A t \in Tasks : state'[t] = "RUNNING" => state[t] = "RUNNING"
    BY <1>a, <1>c DEF TaskTypeOK
  <2>2. \A d \in CPU : pc'[d] = "scan" => pc[d] = "scan"
    BY <1>c DEF CpuTypeOK
  <2> QED
    BY <1>d, <2>1, <2>2 DEF RunInv, TaskTypeOK
<1>7. ProcCpu'
  BY <1>d DEF ProcCpu
<1> QED
  BY <1>1, <1>2, <1>3, <1>4, <1>5, <1>6, <1>7

\* kmt_sem_signal keeps the invariant, whether it halts, wakes or returns.
LEMMA kmt_sem_signalInv ==
  ASSUME IInv, NEW c \in CPU, kmt_sem_signal(c)
  PROVE  IInv'
<1> USE Constants DEF IInv, TypeOK, InCall, InTrap, semVars, taskVars
<1> DEFINE s == call[c].sem
           Halts == machine' = "halted"
                    /\ UNCHANGED <<state, que, lk, iff, ncli, intena, pc, call>>
<1>a. s \in Sems
  BY DEF kmt_sem_signal, PhaseInv, Call
<1>b. /\ UNCHANGED <<at, ret, ev, scan, stk, cur, ctm, ctx, cpu_number, nirq>>
      /\ value' = [value EXCEPT ![s] = @ + 1]
      /\ pc[c] = "body"
  BY DEF kmt_sem_signal
<1>c. CASE Halts
  <2>1. SemTypeOK' /\ CpuTypeOK' /\ TaskTypeOK'
    BY <1>a, <1>b, <1>c DEF SemTypeOK, CpuTypeOK, TaskTypeOK
  <2> QED
    BY <1>b, <1>c, <2>1 DEF IrqInv, PhaseInv, LockInv, IdleInv, RunInv, ProcCpu
<1> SUFFICES ASSUME ~ Halts PROVE IInv'
  BY <1>c
<1>e. /\ UNCHANGED machine
      /\ lk' = [lk EXCEPT ![s] = NONE_CPU] /\ call' = [call EXCEPT ![c] = NoCall]
      /\ iff' = iff /\ intena' = intena
      /\ ncli' = [ncli EXCEPT ![c] = 0]
      /\ pc' = [pc EXCEPT ![c] = IF InTrap(c) THEN "save" ELSE "user"]
  BY <1>b
     DEF kmt_sem_signal, wakeup, Leave, kmt_spin_unlock, popcli, IrqInv, Return
<1>f. \/ UNCHANGED <<state, que>>
      \/ /\ que[s] # <<>>
         /\ state' = [state EXCEPT ![Head(que[s])] = "RUNNABLE"]
         /\ que' = [que EXCEPT ![s] = Tail(@)]
  BY DEF kmt_sem_signal, wakeup, Leave
<1>g. que[s] # <<>> => Head(que[s]) \in Tasks /\ Tail(que[s]) \in Seq(Tasks)
  <2> DEFINE q == que[s]
  <2>1. q \in Seq(Tasks)
    BY <1>a DEF SemTypeOK
  <2> HIDE DEF q
  <2>2. q # <<>> => Head(q) \in Tasks /\ Tail(q) \in Seq(Tasks)
    BY <2>1
  <2> QED
    BY <2>2 DEF q
<1> HIDE DEF s, Halts
<1>1. TypeOK'
  <2>1. que' \in [Sems -> Seq(Tasks)]
    BY <1>a, <1>f, <1>g DEF SemTypeOK
  <2>2. SemTypeOK'
    <3>1. value' \in [Sems -> Int]
      BY <1>a, <1>b DEF SemTypeOK
    <3>2. lk' \in [Sems -> CPU \cup {NONE_CPU}]
      BY <1>a, <1>e DEF SemTypeOK
    <3> QED
      BY <2>1, <3>1, <3>2 DEF SemTypeOK
  <2>3. state' \in [Tasks -> {"STARTED", "RUNNABLE", "RUNNING", "YIELD"}]
    BY <1>f, <1>g DEF TaskTypeOK
  <2>4. TaskTypeOK'
    BY <1>b, <2>3 DEF TaskTypeOK
  <2>5. CpuTypeOK'
    BY <1>b, <1>e DEF CpuTypeOK, Phases
  <2> QED
    BY <1>b, <1>e, <2>2, <2>4, <2>5
<1>2. IrqInv'
  BY <1>b, <1>e DEF CpuTypeOK, IrqInv
<1>3. PhaseInv'
  BY <1>b, <1>e DEF CpuTypeOK, PhaseInv
<1>4. LockInv'
  BY <1>a, <1>b, <1>e DEF CpuTypeOK, SemTypeOK, LockInv, s
<1>5. IdleInv'
  BY <1>b, <1>e, <1>f, <1>g DEF TaskTypeOK, IdleInv
<1>6. RunInv'
  BY <1>b, <1>e, <1>f, <1>g DEF TaskTypeOK, RunInv
<1>7. ProcCpu'
  BY <1>b DEF ProcCpu
<1> QED
  BY <1>1, <1>2, <1>3, <1>4, <1>5, <1>6, <1>7

\* The entry of a trap from a task's code keeps the invariant.
LEMMA EnterInv ==
  ASSUME IInv, NEW c \in CPU, NEW e \in {"yield", "timer", "kbd"},
         NEW r \in {"user", "yield"}, Enter(c, e, r),
         pc[c] \in {"user", "yield"}, nirq' \in Nat
  PROVE  IInv'
<1> USE Constants DEF IInv, TypeOK, InCall, InTrap, semVars, taskVars
<1>0. ~ InTrap(c) /\ ~ InCall(c)
  BY DEF PhaseInv
<1>1. TypeOK'
  BY DEF Enter, CpuTypeOK, TaskTypeOK, SemTypeOK, Phases
<1>2. IrqInv'
  BY DEF Enter, CpuTypeOK, IrqInv
<1>3. PhaseInv'
  BY DEF Enter, CpuTypeOK, PhaseInv
<1>4. LockInv'
  BY <1>0 DEF Enter, LockInv
<1>5. IdleInv'
  BY <1>0 DEF Enter, IdleInv
<1>6. RunInv'
  BY DEF Enter, RunInv
<1>7. ProcCpu'
  BY DEF Enter, ProcCpu
<1> QED
  BY <1>1, <1>2, <1>3, <1>4, <1>5, <1>6, <1>7

\* Taking current_tasks_mutex in os_trap, and input_notify's call behind it,
\* keep the invariant.
LEMMA os_trapInv ==
  ASSUME IInv, NEW c \in CPU, os_trap(c)
  PROVE  IInv'
<1> USE Constants DEF IInv, TypeOK, InCall, InTrap, semVars, taskVars
<1>0. pc[c] = "trap" /\ ctm = NONE_CPU /\ ctm' = c /\ InTrap(c) /\ ncli[c] = 0
  BY DEF os_trap, PhaseInv, IrqInv
<1>a. [op |-> "signal", sem |-> KbdSem] \in Call
  BY DEF Call
<1>1. TypeOK'
  <2>1. CASE ev[c] = "kbd"
    <3>1. /\ iff' = [iff EXCEPT ![c] = FALSE] /\ ncli' = [ncli EXCEPT ![c] = 1]
          /\ intena' = [intena EXCEPT ![c] = FALSE]
      BY <1>0, <2>1 DEF os_trap, kmt_spin_lock, pushcli, CpuTypeOK
    <3>2. /\ call' = [call EXCEPT ![c] = [op |-> "signal", sem |-> KbdSem]]
          /\ pc' = [pc EXCEPT ![c] = "spin"]
      BY <2>1 DEF os_trap, kmt_spin_lock
    <3>3. CpuTypeOK'
      BY <1>a, <3>1, <3>2 DEF os_trap, CpuTypeOK, Phases
    <3> QED
      BY <1>0, <3>3 DEF os_trap, TaskTypeOK, SemTypeOK
  <2>2. CASE ev[c] # "kbd"
    BY <2>2 DEF os_trap, CpuTypeOK, TaskTypeOK, SemTypeOK, Phases
  <2> QED
    BY <2>1, <2>2
<1>2. IrqInv'
  BY DEF os_trap, kmt_spin_lock, pushcli, CpuTypeOK, IrqInv
<1>3. PhaseInv'
  BY DEF os_trap, kmt_spin_lock, CpuTypeOK, PhaseInv, Call
<1>4. LockInv'
  <2>1. UNCHANGED <<lk, ev>> /\ pc'[c] \in {"spin", "save"}
    BY <1>0 DEF os_trap, kmt_spin_lock, CpuTypeOK
  <2>2. \A d \in CPU \ {c} : pc'[d] = pc[d] /\ call'[d] = call[d]
    BY DEF os_trap, kmt_spin_lock, CpuTypeOK
  <2>3. \A s \in Sems : lk[s] # c
    BY <1>0 DEF LockInv
  <2>4. \A d \in CPU : d # c =>
          ~ (pc[d] \in {"save", "scan"} \/ (InCall(d) /\ InTrap(d)))
    BY <1>0 DEF LockInv
  <2>5. \A d \in CPU : pc'[d] \in {"save", "scan"} \/ (InCall(d)' /\ InTrap(d)')
                       <=> ctm' = d
    BY <1>0, <2>1, <2>2, <2>4
  <2>6. \A s \in Sems : lk'[s] # NONE_CPU =>
          pc'[lk'[s]] = "body" /\ call'[lk'[s]].sem = s
    <3> TAKE s \in Sems
    <3> HAVE lk'[s] # NONE_CPU
    <3>1. lk'[s] = lk[s] /\ lk[s] \in CPU \ {c}
      BY <2>1, <2>3 DEF SemTypeOK
    <3>2. pc[lk[s]] = "body" /\ call[lk[s]].sem = s
      BY <3>1 DEF LockInv
    <3> QED
      BY <2>2, <3>1, <3>2
  <2> QED
    BY <2>1, <2>2, <2>5, <2>6 DEF LockInv
<1>5. IdleInv'
  BY DEF os_trap, kmt_spin_lock, CpuTypeOK, IdleInv
<1>6. RunInv'
  BY DEF os_trap, kmt_spin_lock, CpuTypeOK, RunInv
<1>7. ProcCpu'
  BY DEF os_trap, ProcCpu
<1> QED
  BY <1>1, <1>2, <1>3, <1>4, <1>5, <1>6, <1>7

\* Saving the context and demoting the task (kthreads.c:26-32) keep the
\* invariant.
LEMMA SaveContextInv ==
  ASSUME IInv, NEW c \in CPU, SaveContext(c)
  PROVE  IInv'
<1> USE Constants DEF IInv, TypeOK, InCall, InTrap, semVars, taskVars
<1>1. TypeOK'
  <2>1. [pc |-> ret[c].pc, at |-> at[c], iff |-> ret[c].iff] \in Ctx
    BY DEF CpuTypeOK, Ctx
  <2>2. CASE cur[c] = NoTask
    BY <2>2 DEF SaveContext, FirstIdx, CpuTypeOK, TaskTypeOK, SemTypeOK, Phases
  <2>3. CASE cur[c] \in Tasks
    <3>1. /\ ctx' = [ctx EXCEPT ![cur[c]] =
                       [pc |-> ret[c].pc, at |-> at[c], iff |-> ret[c].iff]]
          /\ state' = [state EXCEPT ![cur[c]] = Demoted(state[cur[c]])]
          /\ scan' = [scan EXCEPT ![c] = cur[c]]
      BY <2>3 DEF SaveContext, FirstIdx
    <3>2. state' \in [Tasks -> {"STARTED", "RUNNABLE", "RUNNING", "YIELD"}]
      BY <2>3, <3>1 DEF Demoted, TaskTypeOK
    <3>3. ctx' \in [Tasks -> Ctx]
      BY <2>1, <2>3, <3>1 DEF TaskTypeOK
    <3> QED
      BY <2>3, <3>1, <3>2, <3>3
         DEF SaveContext, CpuTypeOK, TaskTypeOK, SemTypeOK, Phases
  <2> QED
    BY <2>2, <2>3 DEF TaskTypeOK
<1>2. IrqInv'
  BY DEF SaveContext, IrqInv
<1>3. PhaseInv'
  BY DEF SaveContext, PhaseInv
<1>4. LockInv'
  BY DEF SaveContext, LockInv
<1>5. IdleInv'
  <2>1. CASE cur[c] = NoTask
    BY <2>1 DEF SaveContext, IdleInv
  <2>2. CASE cur[c] \in Tasks
    <3>1. /\ pc[c] = "save" /\ UNCHANGED <<at, cur>>
          /\ ctx'[cur[c]].at = at[c] /\ state'[cur[c]] = Demoted(state[cur[c]])
          /\ \A t \in Tasks \ {cur[c]} : ctx'[t] = ctx[t] /\ state'[t] = state[t]
      BY <2>2 DEF SaveContext, TaskTypeOK
    <3>2. \A t \in Idle : ctx'[t].at = Entry[t] /\ state'[t] # "YIELD"
      BY <2>2, <3>1 DEF IdleInv, Demoted
    <3> QED
      BY <3>1, <3>2 DEF SaveContext, IdleInv
  <2> QED
    BY <2>1, <2>2 DEF TaskTypeOK
<1>6. RunInv'
  BY DEF SaveContext, Demoted, TaskTypeOK, RunInv
<1>7. ProcCpu'
  BY DEF SaveContext, ProcCpu
<1> QED
  BY <1>1, <1>2, <1>3, <1>4, <1>5, <1>6, <1>7

\* A turn of the scheduler's loop keeps the invariant.
LEMMA ScanSkipInv ==
  ASSUME IInv, NEW c \in CPU, ScanSkip(c)
  PROVE  IInv'
<1> USE Constants DEF IInv, TypeOK, InCall, InTrap, semVars, taskVars
<1>0. NextIdx(c) \in Tasks
  BY NextIdxType
<1>1. TypeOK'
  BY <1>0 DEF ScanSkip, CpuTypeOK, TaskTypeOK, SemTypeOK
<1>2. IrqInv'
  BY DEF ScanSkip, IrqInv
<1>3. PhaseInv'
  BY DEF ScanSkip, PhaseInv
<1>4. LockInv'
  BY DEF ScanSkip, LockInv
<1>5. IdleInv'
  BY DEF ScanSkip, IdleInv
<1>6. RunInv'
  BY DEF ScanSkip, RunInv
<1>7. ProcCpu'
  BY DEF ScanSkip, ProcCpu
<1> QED
  BY <1>1, <1>2, <1>3, <1>4, <1>5, <1>6, <1>7

\* The choice of a task, procfs_schdule and the release of the mutex keep the
\* invariant.
LEMMA SwitchInv ==
  ASSUME IInv, NEW c \in CPU, Switch(c)
  PROVE  IInv'
<1> USE Constants DEF IInv, TypeOK, InCall, InTrap, semVars, taskVars
<1>0. NextIdx(c) \in Tasks
  BY NextIdxType
<1>1. TypeOK'
  BY <1>0 DEF Switch, procfs_schdule, CpuTypeOK, TaskTypeOK, SemTypeOK, Phases
<1>2. IrqInv'
  BY DEF Switch, IrqInv
<1>3. PhaseInv'
  BY <1>0 DEF Switch, TaskTypeOK, PhaseInv
<1>4. LockInv'
  BY DEF Switch, CpuTypeOK, LockInv
<1>5. IdleInv'
  BY <1>0 DEF Switch, CpuTypeOK, IdleInv
<1>6. RunInv'
  BY <1>0 DEF Switch, CpuTypeOK, TaskTypeOK, LockInv, RunInv
<1>7. ProcCpu'
  BY <1>0 DEF Switch, procfs_schdule, TaskTypeOK, ProcCpu
<1> QED
  BY <1>1, <1>2, <1>3, <1>4, <1>5, <1>6, <1>7

\* The return from a trap keeps the invariant.
LEMMA ResumeInv ==
  ASSUME IInv, NEW c \in CPU, Resume(c)
  PROVE  IInv'
<1> USE Constants DEF IInv, TypeOK, InCall, InTrap, semVars, taskVars
<1>0. /\ pc[c] = "iret" /\ cur[c] \in Tasks /\ InTrap(c) /\ ctx[cur[c]] \in Ctx
      /\ pc' = [pc EXCEPT ![c] = ctx[cur[c]].pc]
      /\ iff' = [iff EXCEPT ![c] = ctx[cur[c]].iff]
  BY DEF Resume, PhaseInv, TaskTypeOK
<1>a. ctx[cur[c]].pc \in {"user", "yield"} /\ ctx[cur[c]].iff \in BOOLEAN
  BY <1>0 DEF Ctx
<1>1. TypeOK'
  BY DEF Resume, CpuTypeOK, TaskTypeOK, SemTypeOK, PhaseInv, Ctx, Phases
<1>2. IrqInv'
  <2>1. /\ pc'[c] \in {"user", "yield"} /\ ncli[c] = 0
        /\ \A d \in CPU \ {c} : pc'[d] = pc[d] /\ iff'[d] = iff[d]
    BY <1>0, <1>a DEF CpuTypeOK, IrqInv
  <2> QED
    BY <2>1 DEF Resume, IrqInv
<1>3. PhaseInv'
  BY DEF Resume, CpuTypeOK, TaskTypeOK, PhaseInv, Ctx
<1>4. LockInv'
  BY <1>0, <1>a DEF Resume, LockInv
<1>5. IdleInv'
  BY DEF Resume, CpuTypeOK, IdleInv
<1>6. RunInv'
  BY <1>0, <1>a DEF Resume, RunInv
<1>7. ProcCpu'
  BY DEF Resume, ProcCpu
<1> QED
  BY <1>1, <1>2, <1>3, <1>4, <1>5, <1>6, <1>7

\* Two CPUs on one stack: nothing that the invariant speaks of changes.
LEMMA SmashInv ==
  ASSUME IInv, NEW c \in CPU, Smash(c)
  PROVE  IInv'
<1> USE Constants DEF IInv, TypeOK, InCall, InTrap, semVars, taskVars
<1>1. TypeOK'
  BY DEF Smash, cpuVars, CpuTypeOK, TaskTypeOK, SemTypeOK
<1>2. IrqInv'
  BY DEF Smash, cpuVars, IrqInv
<1>3. PhaseInv'
  BY DEF Smash, cpuVars, PhaseInv
<1>4. LockInv'
  BY DEF Smash, cpuVars, LockInv
<1>5. IdleInv'
  BY DEF Smash, cpuVars, IdleInv
<1>6. RunInv'
  BY DEF Smash, cpuVars, RunInv
<1>7. ProcCpu'
  BY DEF Smash, ProcCpu
<1> QED
  BY <1>1, <1>2, <1>3, <1>4, <1>5, <1>6, <1>7

(***************************************************************************)
\* Every step of the kernel keeps the invariant.
LEMMA NextInv == IInv /\ [Next]_vars => IInv'
<1> SUFFICES ASSUME IInv, [Next]_vars PROVE IInv'
  OBVIOUS
<1>1. ASSUME NEW c \in CPU, CpuStep(c) PROVE IInv'
  <2>1. CASE Yield(c)
    <3>1. Enter(c, "yield", "user") /\ pc[c] = "yield" /\ nirq' = nirq
      BY <2>1 DEF Yield
    <3> QED
      BY <3>1, EnterInv DEF IInv, TypeOK
  <2> QED
    BY <1>1, <2>1, TaskCallInv, TaskLocalInv, SpinAcquireInv, kmt_sem_waitInv,
       kmt_sem_signalInv, os_trapInv, SaveContextInv, ScanSkipInv, SwitchInv,
       ResumeInv, SmashInv DEF CpuStep, KernelStep
<1>2. ASSUME NEW c \in CPU, NEW e \in {"timer", "kbd"}, iff[c],
             Enter(c, e, pc[c]), nirq' \in Nat
      PROVE  IInv'
  <2>1. pc[c] \in {"user", "yield"}
    BY <1>2 DEF IInv, IrqInv
  <2> QED
    BY <1>2, <2>1, EnterInv
<1>3. ASSUME NEW c \in CPU, Timer(c) PROVE IInv'
  BY <1>2, <1>3 DEF Timer, IInv, TypeOK
<1>4. CASE Keyboard
  BY <1>2, <1>4, Constants DEF Keyboard, IInv, TypeOK
<1>5. CASE UNCHANGED vars
  <2>1. TypeOK'
    BY <1>5 DEF vars, IInv, TypeOK, CpuTypeOK, TaskTypeOK, SemTypeOK
  <2> QED
    BY <1>5, <2>1
       DEF vars, IInv, IrqInv, PhaseInv, LockInv, IdleInv, RunInv, ProcCpu, InCall,
           InTrap
<1> QED
  BY <1>1, <1>3, <1>4, <1>5 DEF Next, Stopped

\* The inductive invariant holds in every reachable state.
THEOREM Invariance == Spec => []IInv
BY InitInv, NextInv, PTL DEF Spec

\* Type correctness of kthreads.c's and os.c's state, whatever the tasks do; a
\* context is never saved from inside a spinlock section.
THEOREM TypeCorrect == Spec => []TypeOK
<1> IInv => TypeOK
  BY DEF IInv
<1> QED
  BY Invariance, PTL

\* The lock order of kmt_spin_lock and os_trap is kept by every CPU, so the
\* sem_signal inside the keyboard trap cannot wait for its own CPU.
THEOREM LocksOrdered == Spec => []LockOrder
<1> IInv => LockOrder
  BY Constants DEF IInv, IrqInv, LockInv, LockOrder, InCall
<1> QED
  BY Invariance, PTL

\* The scheduler's loop always has a task to find: each of the NCPU idle tasks is
\* ready unless it is the current task of another CPU, and there are only
\* NCPU - 1 of those.
THEOREM SchedulerFinds == Spec => []SchedulerFindsTask
<1>1. ASSUME IInv, NEW c \in CPU, pc[c] = "scan", \A t \in Tasks : ~ Ready(t)
      PROVE  FALSE
  <2>1. \A t \in Idle : state[t] = "RUNNING"
    BY <1>1, Constants DEF IInv, TypeOK, TaskTypeOK, IdleInv, Ready
  <2>2. \A t \in Idle : \E d \in CPU \ {c} : cur[d] = t
    <3> TAKE t \in Idle
    <3>1. PICK d \in CPU : cur[d] = t
      BY <1>1, <2>1, Constants DEF IInv, RunInv
    <3>2. d # c
      BY <1>1, <2>1, <3>1, Constants DEF IInv, RunInv
    <3> QED
      BY <3>1, <3>2
  <2> DEFINE f == [t \in Idle |-> CHOOSE d \in CPU \ {c} : cur[d] = t]
  <2>3. f \in [Idle -> CPU \ {c}] /\ \A t \in Idle : cur[f[t]] = t
    BY <2>2
  <2>4. IsFiniteSet(CPU) /\ Cardinality(CPU) = NCPU
    BY FS_Interval, KmtConstants DEF CPU
  <2>5. IsFiniteSet(CPU \ {c}) /\ Cardinality(CPU \ {c}) < Cardinality(Idle)
    <3>1. IsFiniteSet(CPU \ {c}) /\ Cardinality(CPU \ {c}) = NCPU - 1
      BY <2>4, FS_RemoveElement
    <3> QED
      BY <2>4, <3>1, Constants, KmtConstants
  <2>6. \E t, u \in Idle : t # u /\ f[t] = f[u]
    <3> HIDE DEF f
    <3> QED
      BY <2>3, <2>4, <2>5, FS_PigeonHole, Constants
  <2> QED
    BY <2>3, <2>6
<1>2. IInv => SchedulerFindsTask
  BY <1>1 DEF SchedulerFindsTask
<1> QED
  BY <1>2, Invariance, PTL

\* /proc's CPU numbers (procfs_schdule) name CPUs that do run the task.
THEOREM ProcCpuCorrect == Spec => []ProcCpu
<1> IInv => ProcCpu
  BY DEF IInv
<1> QED
  BY Invariance, PTL

(***************************************************************************)
(* The semaphores.  On any number of CPUs the ring and the value agree up  *)
(* to wraps of the ring.  On one CPU, whatever programs the tasks run, the *)
(* ring never fills, wakeup always finds a task, the sleeping tasks are    *)
(* the queued ones and no task that runs is ready.                         *)
(***************************************************************************)
Neg(v) == IF v < 0 THEN -v ELSE 0

\* What kmt_sem_wait and kmt_sem_signal do to value, ring and task states
\* (kthreads.c:176-194), and that they run with the semaphore's lock.
SemStep(c, s) ==
  \/ /\ value' = [value EXCEPT ![s] = @ - 1]
     /\ \/ /\ value[s] - 1 < 0
           /\ state' = [state EXCEPT ![cur[c]] = "YIELD"]
           /\ que' = [que EXCEPT ![s] = sem_push(@, cur[c])]
           /\ machine' = machine
           /\ ~ InTrap(c) /\ pc' = [pc EXCEPT ![c] = "yield"]
        \/ /\ value[s] - 1 >= 0
           /\ UNCHANGED <<state, que, machine>>
           /\ ~ InTrap(c) /\ pc' = [pc EXCEPT ![c] = "user"]
  \/ /\ value' = [value EXCEPT ![s] = @ + 1]
     /\ \/ /\ value[s] + 1 <= 0 /\ que[s] = <<>>
           /\ machine' = "halted" /\ UNCHANGED <<state, que, pc>>
        \/ /\ value[s] + 1 <= 0 /\ que[s] # <<>>
           /\ state' = [state EXCEPT ![Head(que[s])] = "RUNNABLE"]
           /\ que' = [que EXCEPT ![s] = Tail(@)]
           /\ machine' = machine
           /\ pc' = [pc EXCEPT ![c] = IF InTrap(c) THEN "save" ELSE "user"]
        \/ /\ value[s] + 1 > 0
           /\ UNCHANGED <<state, que, machine>>
           /\ pc' = [pc EXCEPT ![c] = IF InTrap(c) THEN "save" ELSE "user"]

\* SemStep is what the two calls do.
LEMMA SemCall ==
  ASSUME IInv, NEW c \in CPU, kmt_sem_wait(c) \/ kmt_sem_signal(c)
  PROVE  \E s \in Sems :
           /\ SemStep(c, s)
           /\ pc[c] = "body" /\ iff' = iff
           /\ UNCHANGED <<ret, ev, cur, ctx>>
<1> DEFINE s == call[c].sem
<1>1. s \in Sems /\ pc[c] = "body"
  BY DEF kmt_sem_wait, kmt_sem_signal, IInv, PhaseInv, Call, InCall
<1>2. value[s] \in Int
  BY <1>1 DEF IInv, TypeOK, SemTypeOK
<1>3. iff' = iff /\ UNCHANGED <<ret, ev, cur, ctx>>
  BY DEF kmt_sem_wait, kmt_sem_signal, sleep, wakeup, Leave, kmt_spin_unlock,
         popcli, IInv, IrqInv
<1>4. CASE kmt_sem_wait(c)
  <2>1. ~ InTrap(c) /\ Return(c) = "user"
    BY <1>4 DEF kmt_sem_wait, IInv, PhaseInv, InCall, InTrap, Return
  <2>2. SemStep(c, s)
    BY <1>2, <1>4, <2>1
       DEF kmt_sem_wait, sleep, Leave, kmt_spin_unlock, MustSleep, SemStep
  <2> QED
    BY <1>1, <1>3, <2>2
<1>5. CASE kmt_sem_signal(c)
  <2>1. SemStep(c, s)
    BY <1>2, <1>5
       DEF kmt_sem_signal, wakeup, Leave, kmt_spin_unlock, MustWake, SemStep,
           Return, InTrap
  <2> QED
    BY <1>1, <1>3, <2>1
<1> QED
  BY <1>4, <1>5
\* No other step touches a value or a ring.
LEMMA SemFrame ==
  ASSUME [Next]_vars, ~ \E c \in CPU : kmt_sem_wait(c) \/ kmt_sem_signal(c)
  PROVE  UNCHANGED <<value, que>> /\ (Up' => Up)
<1> USE DEF semVars, taskVars, cpuVars, Up
<1>1. ASSUME NEW c \in CPU, CpuStep(c), Up PROVE UNCHANGED <<value, que>>
  BY <1>1
     DEF CpuStep, KernelStep, TaskCall, TaskLocal, SpinAcquire, Yield, Enter,
         os_trap, SaveContext, ScanSkip, Switch, Resume, Smash
<1>2. ASSUME NEW c \in CPU, Timer(c) PROVE UNCHANGED <<value, que>>
  BY <1>2 DEF Timer, Enter
<1>3. CASE Keyboard
  BY <1>3 DEF Keyboard, Enter
<1> QED
  BY <1>1, <1>2, <1>3 DEF Next, Stopped, vars

\* The ring after a push (kthreads.c:145-150): it looks empty once it is full.
LEMMA PushLen ==
  ASSUME NEW q \in Seq(Tasks), NEW t \in Tasks, NEW n \in Nat,
         Len(q) = n % MAX_TASK
  PROVE  Len(sem_push(q, t)) = (n + 1) % MAX_TASK
<1>1. MAX_TASK \in Nat \ {0}
  BY KmtConstants
<1>2. (n + 1) % MAX_TASK = IF (n % MAX_TASK) + 1 = MAX_TASK THEN 0
                           ELSE (n % MAX_TASK) + 1
  <2>1. n \in Int
    OBVIOUS
  <2> QED
    BY <1>1, <2>1, ModSucc, Zenon
<1>3. Len(sem_push(q, t)) = IF Len(q) + 1 = MAX_TASK THEN 0 ELSE Len(q) + 1
  BY DEF sem_push
<1> QED
  BY <1>2, <1>3

\* A call keeps the account between value and ring.
LEMMA SemStepAccount ==
  ASSUME IInv, SemAccount, Up, NEW c \in CPU, NEW s \in Sems, SemStep(c, s),
         pc[c] = "body"
  PROVE  SemAccount'
<1> USE DEF Up
<1> SUFFICES ASSUME Up', NEW r \in Sems
             PROVE  Len(que'[r]) = Neg(value'[r]) % MAX_TASK
  BY DEF SemAccount, Neg
<1>1. /\ value[s] \in Int /\ value \in [Sems -> Int]
      /\ que \in [Sems -> Seq(Tasks)] /\ que[s] \in Seq(Tasks)
  BY DEF IInv, TypeOK, SemTypeOK
<1>2. Len(que[s]) = Neg(value[s]) % MAX_TASK /\ Len(que[r]) = Neg(value[r]) % MAX_TASK
  BY DEF SemAccount, Neg
<1>3. CASE r # s
  <2>1. value'[r] = value[r] /\ que'[r] = que[r]
    BY <1>1, <1>3 DEF SemStep
  <2> QED
    BY <1>2, <2>1
<1>4. MAX_TASK \in Nat \ {0} /\ 0 % MAX_TASK = 0
  <2>1. MAX_TASK \in Nat \ {0}
    BY KmtConstants
  <2> QED
    BY <2>1, ModSmall
<1>5. CASE r = s
  <2>1. CASE /\ value'[s] = value[s] - 1 /\ value[s] - 1 < 0
             /\ que'[s] = sem_push(que[s], cur[c]) /\ ~ InTrap(c)
    <3>1. cur[c] \in Tasks
      BY <2>1 DEF IInv, PhaseInv, InCall
    <3>2. Neg(value[s]) \in Nat /\ Neg(value[s] - 1) = Neg(value[s]) + 1
      BY <1>1, <2>1 DEF Neg
    <3>3. Len(sem_push(que[s], cur[c])) = (Neg(value[s]) + 1) % MAX_TASK
      BY <1>1, <1>2, <3>1, <3>2, PushLen
    <3> QED
      BY <1>5, <2>1, <3>2, <3>3
  <2>2. CASE /\ value'[s] = value[s] - 1 /\ value[s] - 1 >= 0 /\ que' = que
    BY <1>1, <1>2, <1>5, <2>2 DEF Neg
  <2>3. CASE /\ value'[s] = value[s] + 1 /\ value[s] + 1 > 0 /\ que' = que
    BY <1>1, <1>2, <1>4, <1>5, <2>3 DEF Neg
  <2>4. CASE /\ value'[s] = value[s] + 1 /\ value[s] + 1 <= 0
             /\ que[s] # <<>> /\ que'[s] = Tail(que[s])
    <3> DEFINE n == Neg(value[s] + 1)
    <3>1. n \in Nat /\ Neg(value[s]) = n + 1
      BY <1>1, <2>4 DEF Neg
    <3>2. Len(que[s]) # 0 /\ Len(Tail(que[s])) = Len(que[s]) - 1
      BY <1>1, <2>4
    <3> HIDE DEF n
    <3>3. Len(que[s]) = IF (n % MAX_TASK) + 1 = MAX_TASK THEN 0
                        ELSE (n % MAX_TASK) + 1
      <4>1. n \in Int /\ Len(que[s]) = (n + 1) % MAX_TASK
        BY <1>2, <3>1
      <4> QED
        BY <1>4, <4>1, ModSucc, Zenon
    <3>4. n % MAX_TASK \in 0 .. MAX_TASK - 1
      BY <1>4, <3>1, DivMod
    <3>5. Len(Tail(que[s])) = n % MAX_TASK
      BY <3>2, <3>3, <3>4
    <3> QED
      BY <1>5, <2>4, <3>5 DEF n
  <2> QED
    BY <1>1, <2>1, <2>2, <2>3, <2>4 DEF SemStep
<1> QED
  BY <1>3, <1>5

\* A negative value counts the queued tasks up to wraps of the ring, for any
\* number of CPUs and any programs: pushes and pops run under the lock.
THEOREM SemAccounted == Spec => []SemAccount
<1>1. Init => SemAccount
  <2>1. MAX_TASK \in Nat \ {0}
    BY KmtConstants
  <2>2. 0 % MAX_TASK = 0
    BY <2>1, ModSmall
  <2> QED
    BY <2>2, KmtConstants DEF Init, SemAccount
<1>2. IInv /\ SemAccount /\ [Next]_vars => SemAccount'
  <2> SUFFICES ASSUME IInv, SemAccount, [Next]_vars PROVE SemAccount'
    OBVIOUS
  <2>1. CASE Up /\ \E c \in CPU : kmt_sem_wait(c) \/ kmt_sem_signal(c)
    <3>1. PICK c \in CPU : kmt_sem_wait(c) \/ kmt_sem_signal(c)
      BY <2>1
    <3>2. PICK s \in Sems : SemStep(c, s) /\ pc[c] = "body"
      BY <3>1, SemCall
    <3> QED
      BY <2>1, <3>2, SemStepAccount
  <2>2. CASE ~ Up
    BY <2>2 DEF Next, Stopped, vars, SemAccount, Up
  <2>3. CASE ~ \E c \in CPU : kmt_sem_wait(c) \/ kmt_sem_signal(c)
    <3>1. UNCHANGED <<value, que>> /\ (Up' => Up)
      BY <2>3, SemFrame
    <3> QED
      BY <3>1 DEF SemAccount
  <2> QED
    BY <2>1, <2>2, <2>3
<1> QED
  BY <1>1, <1>2, Invariance, PTL DEF Spec
(***************************************************************************)
(* One CPU.  Interrupts are off from a task's first semaphore call to its  *)
(* next trap by _yield, so a task that has gone to sleep reaches the       *)
(* scheduler before anybody can wake it.                                   *)
(***************************************************************************)
\* What a phase says of the state of the CPU's current task.
CurInv ==
  \A c \in CPU :
    /\ InCall(c) => ev[c] \in {"none", "kbd"}
    /\ cur[c] # NoTask =>
         /\ pc[c] # "iret" => ret[c].pc = "user"
         /\ pc[c] = "yield" => ~ iff[c] /\ state[cur[c]] = "YIELD"
         /\ pc[c] \in {"trap", "save"} /\ ev[c] = "yield" =>
              state[cur[c]] = "YIELD"
         /\ pc[c] \in {"trap", "save"} /\ ev[c] # "yield" =>
              state[cur[c]] = "RUNNING"
         /\ pc[c] \in {"user", "spin", "body", "iret"} => state[cur[c]] = "RUNNING"

\* A task that is not current stands at its own code.
CtxInv == \A t \in Tasks : ctx[t].pc = "user"

\* The queued tasks are the sleeping ones, each queued once, and a value that is
\* negative counts them.
QueInv ==
  /\ \A s \in Sems : \A i \in 1 .. Len(que[s]) : state[que[s][i]] = "YIELD"
  /\ \A s, r \in Sems : \A i \in 1 .. Len(que[s]), j \in 1 .. Len(que[r]) :
       que[s][i] = que[r][j] => s = r /\ i = j
  /\ \A t \in Tasks : state[t] = "YIELD" =>
       \E s \in Sems : \E i \in 1 .. Len(que[s]) : que[s][i] = t
  /\ \A s \in Sems : Len(que[s]) = Neg(value[s])

UInv == IInv /\ CurInv /\ CtxInv /\ QueInv /\ machine = "up"
\* No ring ever holds more tasks than can sleep: the idle task and a task that
\* is not asleep are in none.
LEMMA QueBound ==
  ASSUME NCPU = 1, IInv, QueInv, NEW s \in Sems
  PROVE  /\ Len(que[s]) <= NTASK - 1
         /\ \A t \in Tasks \ Idle : state[t] # "YIELD" => Len(que[s]) <= NTASK - 2
<1> DEFINE n == Len(que[s])
           Sleepers == {t \in Tasks \ Idle : state[t] = "YIELD"}
           f == [i \in 1 .. n |-> que[s][i]]
<1>1. que[s] \in Seq(Tasks) /\ n \in Nat
  BY DEF IInv, TypeOK, SemTypeOK
<1>2. \A i \in 1 .. n : que[s][i] \in Sleepers
  BY <1>1 DEF IInv, IdleInv, QueInv
<1>3. f \in Injection(1 .. n, Sleepers)
  BY <1>2 DEF QueInv, Injection, IsInjective
<1>4. IsFiniteSet(Tasks \ Idle) /\ Cardinality(Tasks \ Idle) = NTASK - 1
  <2>1. IsFiniteSet(Tasks) /\ Cardinality(Tasks) = NTASK
    BY FS_Interval, KmtConstants DEF Tasks
  <2>2. Idle = {0} /\ 0 \in Tasks
    BY KmtConstants DEF Idle, Tasks
  <2> QED
    BY <2>1, <2>2, FS_RemoveElement
<1>5. IsFiniteSet(1 .. n) /\ Cardinality(1 .. n) = n
  BY <1>1, FS_Interval
<1>6. ASSUME NEW S, IsFiniteSet(S), Sleepers \subseteq S PROVE n <= Cardinality(S)
  <2>1. f \in Injection(1 .. n, S)
    BY <1>3, <1>6 DEF Injection, IsInjective
  <2> HIDE DEF f
  <2>2. Cardinality(1 .. n) <= Cardinality(S)
    BY <1>5, <1>6, <2>1, FS_Injection
  <2> QED
    BY <1>5, <2>2
<1>7. n <= NTASK - 1
  BY <1>4, <1>6
<1>8. ASSUME NEW t \in Tasks \ Idle, state[t] # "YIELD" PROVE n <= NTASK - 2
  <2> DEFINE S == (Tasks \ Idle) \ {t}
  <2>1. IsFiniteSet(S) /\ Cardinality(S) = NTASK - 2
    <3>1. Cardinality(S) = Cardinality(Tasks \ Idle) - 1 /\ IsFiniteSet(S)
      BY <1>4, <1>8, FS_RemoveElement
    <3> QED
      BY <1>4, <3>1, KmtConstants
  <2>2. Sleepers \subseteq S
    BY <1>8
  <2> QED
    BY <1>6, <2>1, <2>2
<1> QED
  BY <1>7, <1>8

\* What each semaphore call leaves of the queue invariant.
LEMMA SemStepQue ==
  ASSUME NCPU = 1, UInv, NEW c \in CPU, NEW s \in Sems, SemStep(c, s),
         pc[c] = "body"
  PROVE  QueInv' /\ machine' = "up"
<1>1. /\ value[s] \in Int /\ value \in [Sems -> Int]
      /\ que \in [Sems -> Seq(Tasks)] /\ que[s] \in Seq(Tasks)
      /\ state \in [Tasks -> {"STARTED", "RUNNABLE", "RUNNING", "YIELD"}]
  BY DEF UInv, IInv, TypeOK, SemTypeOK, TaskTypeOK
<1>2. Len(que[s]) = Neg(value[s])
  BY DEF UInv, QueInv
<1>3. CASE /\ value' = [value EXCEPT ![s] = @ - 1] /\ value[s] - 1 < 0
           /\ state' = [state EXCEPT ![cur[c]] = "YIELD"]
           /\ que' = [que EXCEPT ![s] = sem_push(@, cur[c])]
           /\ machine' = machine /\ ~ InTrap(c)
  <2> DEFINE t == cur[c]
             q == que[s]
             n == Len(q)
  <2>1. t \in Tasks \ Idle /\ state[t] = "RUNNING"
    BY <1>3, Constants DEF UInv, IInv, PhaseInv, CurInv, InCall
  <2>2. n <= NTASK - 2
    BY <2>1, QueBound DEF UInv
  <2>3. sem_push(q, t) = Append(q, t)
    BY <1>1, <2>2, KmtConstants DEF sem_push
  <2>4. /\ que' = [que EXCEPT ![s] = Append(q, t)]
        /\ Len(que'[s]) = n + 1 /\ que'[s][n + 1] = t
        /\ \A i \in 1 .. n : que'[s][i] = q[i]
        /\ \A r \in Sems \ {s} : que'[r] = que[r]
    BY <1>1, <1>3, <2>1, <2>3
  <2>5. \A r \in Sems : \A i \in 1 .. Len(que[r]) : que[r][i] # t /\ que[r][i] \in Tasks
    BY <1>1, <2>1 DEF UInv, QueInv
  <2>6. \A r \in Sems : \A i \in 1 .. Len(que'[r]) :
          \/ r = s /\ i = n + 1 /\ que'[r][i] = t
          \/ i \in 1 .. Len(que[r]) /\ que'[r][i] = que[r][i]
    BY <1>1, <2>4
  <2> HIDE DEF n, t, q
  <2>7. \A r \in Sems : \A i \in 1 .. Len(que'[r]) : state'[que'[r][i]] = "YIELD"
    BY <1>1, <1>3, <2>1, <2>5, <2>6 DEF UInv, QueInv, t
  <2>8. \A r, u \in Sems : \A i \in 1 .. Len(que'[r]), j \in 1 .. Len(que'[u]) :
          que'[r][i] = que'[u][j] => r = u /\ i = j
    BY <2>5, <2>6 DEF UInv, QueInv
  <2>9. \A u \in Tasks : state'[u] = "YIELD" =>
          \E r \in Sems : \E i \in 1 .. Len(que'[r]) : que'[r][i] = u
    <3> SUFFICES ASSUME NEW u \in Tasks, state'[u] = "YIELD"
                 PROVE  \E r \in Sems : \E i \in 1 .. Len(que'[r]) : que'[r][i] = u
      OBVIOUS
    <3>0. n \in Nat
      BY <1>1 DEF n, q
    <3>1. CASE u = t
      BY <2>4, <3>0, <3>1
    <3>2. CASE u # t
      <4>1. state[u] = "YIELD"
        BY <1>1, <1>3, <3>2 DEF t
      <4>a. PICK r \in Sems : \E i \in 1 .. Len(que[r]) : que[r][i] = u
        BY <4>1 DEF UInv, QueInv
      <4>2. PICK i \in 1 .. Len(que[r]) : que[r][i] = u
        BY <4>a
      <4>3. i \in 1 .. Len(que'[r]) /\ que'[r][i] = u
        BY <2>4, <3>0, <4>2 DEF n, q
      <4> QED
        BY <4>3
    <3> QED
      BY <3>1, <3>2
  <2>10. \A r \in Sems : Len(que'[r]) = Neg(value'[r])
    BY <1>1, <1>2, <1>3, <2>4 DEF UInv, QueInv, Neg, n, q
  <2> QED
    BY <1>3, <2>7, <2>8, <2>9, <2>10 DEF QueInv, UInv
<1>4. CASE /\ UNCHANGED <<state, que, machine>>
           /\ \/ value' = [value EXCEPT ![s] = @ - 1] /\ value[s] - 1 >= 0
              \/ value' = [value EXCEPT ![s] = @ + 1] /\ value[s] + 1 > 0
  <2>1. \A r \in Sems \ {s} : value'[r] = value[r]
    BY <1>1, <1>4
  <2>2. value[s] >= 0 /\ value'[s] \in Int /\ value'[s] >= 0
    BY <1>1, <1>4
  <2>3. Neg(value'[s]) = Neg(value[s])
    BY <1>1, <2>2 DEF Neg
  <2>4. \A r \in Sems : Neg(value'[r]) = Neg(value[r])
    BY <2>1, <2>3
  <2> QED
    BY <1>4, <2>4 DEF UInv, QueInv
<1>5. CASE /\ value' = [value EXCEPT ![s] = @ + 1] /\ value[s] + 1 <= 0
           /\ que[s] # <<>>
           /\ state' = [state EXCEPT ![Head(que[s])] = "RUNNABLE"]
           /\ que' = [que EXCEPT ![s] = Tail(@)]
           /\ machine' = machine
  <2> DEFINE t == Head(que[s])
             q == que[s]
             n == Len(q)
  <2>1. n \in Nat \ {0} /\ t = q[1] /\ t \in Tasks
    BY <1>1, <1>5
  <2>2. /\ que' = [que EXCEPT ![s] = Tail(q)] /\ Len(que'[s]) = n - 1
        /\ \A i \in 1 .. n - 1 : que'[s][i] = q[i + 1]
        /\ \A r \in Sems \ {s} : que'[r] = que[r]
    BY <1>1, <1>5
  <2>3. \A r \in Sems : \A i \in 1 .. Len(que[r]) :
          (que[r][i] = t => r = s /\ i = 1) /\ que[r][i] \in Tasks
    BY <1>1, <2>1 DEF UInv, QueInv
  <2>4. \A r \in Sems : \A i \in 1 .. Len(que'[r]) :
          \/ r = s /\ i + 1 \in 1 .. n /\ que'[r][i] = que[s][i + 1]
          \/ r # s /\ i \in 1 .. Len(que[r]) /\ que'[r][i] = que[r][i]
    BY <2>1, <2>2
  <2> HIDE DEF n, t, q
  <2>5. \A r \in Sems : \A i \in 1 .. Len(que'[r]) : state'[que'[r][i]] = "YIELD"
    <3> SUFFICES ASSUME NEW r \in Sems, NEW i \in 1 .. Len(que'[r])
                 PROVE  state'[que'[r][i]] = "YIELD"
      OBVIOUS
    <3>1. PICK j \in 1 .. Len(que[r]) : que'[r][i] = que[r][j] /\ (r = s => j # 1)
      BY <2>1, <2>4 DEF n, q
    <3>2. que[r][j] # t /\ state[que[r][j]] = "YIELD" /\ que[r][j] \in Tasks
      BY <2>3, <3>1 DEF UInv, QueInv
    <3> QED
      BY <1>1, <1>5, <3>1, <3>2 DEF t
  <2>6. \A r, u \in Sems : \A i \in 1 .. Len(que'[r]), j \in 1 .. Len(que'[u]) :
          que'[r][i] = que'[u][j] => r = u /\ i = j
    <3> SUFFICES ASSUME NEW r \in Sems, NEW u \in Sems, NEW i \in 1 .. Len(que'[r]),
                        NEW j \in 1 .. Len(que'[u]), que'[r][i] = que'[u][j]
                 PROVE  r = u /\ i = j
      OBVIOUS
    <3>1. PICK k \in 1 .. Len(que[r]) :
            que'[r][i] = que[r][k] /\ k = IF r = s THEN i + 1 ELSE i
      BY <2>1, <2>4 DEF n, q
    <3>2. PICK l \in 1 .. Len(que[u]) :
            que'[u][j] = que[u][l] /\ l = IF u = s THEN j + 1 ELSE j
      BY <2>1, <2>4 DEF n, q
    <3>a. que[r][k] = que[u][l]
      BY <3>1, <3>2
    <3>3. r = u /\ k = l
      BY <3>a DEF UInv, QueInv
    <3>4. i \in Int /\ j \in Int
      OBVIOUS
    <3>5. CASE r = s
      BY <3>1, <3>2, <3>3, <3>4, <3>5
    <3>6. CASE r # s
      BY <3>1, <3>2, <3>3, <3>6
    <3> QED
      BY <3>5, <3>6
  <2>7. \A u \in Tasks : state'[u] = "YIELD" =>
          \E r \in Sems : \E i \in 1 .. Len(que'[r]) : que'[r][i] = u
    <3> SUFFICES ASSUME NEW u \in Tasks, state'[u] = "YIELD"
                 PROVE  \E r \in Sems : \E i \in 1 .. Len(que'[r]) : que'[r][i] = u
      OBVIOUS
    <3>1. u # t /\ state[u] = "YIELD"
      BY <1>1, <1>5 DEF t
    <3>a. PICK r \in Sems : \E i \in 1 .. Len(que[r]) : que[r][i] = u
      BY <3>1 DEF UInv, QueInv
    <3>2. PICK i \in 1 .. Len(que[r]) : que[r][i] = u
      BY <3>a
    <3>3. CASE r # s
      BY <2>2, <3>2, <3>3
    <3>4. CASE r = s
      <4>1. i - 1 \in 1 .. n - 1
        BY <2>1, <3>1, <3>2, <3>4 DEF n, q
      <4>a. (i - 1) + 1 = i
        OBVIOUS
      <4>b. que'[s][i - 1] = q[(i - 1) + 1]
        BY <2>2, <4>1
      <4>2. que'[s][i - 1] = u
        BY <3>2, <3>4, <4>a, <4>b DEF q
      <4> QED
        BY <2>2, <4>1, <4>2
    <3> QED
      BY <3>3, <3>4
  <2>8. \A r \in Sems : Len(que'[r]) = Neg(value'[r])
    BY <1>1, <1>2, <1>5, <2>2 DEF UInv, QueInv, Neg, n, q
  <2> QED
    BY <1>5, <2>5, <2>6, <2>7, <2>8 DEF QueInv, UInv
<1>6. CASE value[s] + 1 <= 0 /\ que[s] = <<>>
  BY <1>1, <1>2, <1>6 DEF Neg
<1> QED
  BY <1>3, <1>4, <1>5, <1>6 DEF SemStep

\* A step that leaves the rings alone and puts nobody to sleep or wakes him.
LEMMA QueFrame ==
  ASSUME UInv, UNCHANGED <<value, que>>,
         \A t \in Tasks : state'[t] = "YIELD" <=> state[t] = "YIELD"
  PROVE  QueInv'
<1>1. \A s \in Sems : \A i \in 1 .. Len(que[s]) : que[s][i] \in Tasks
  BY DEF UInv, IInv, TypeOK, SemTypeOK
<1> QED
  BY <1>1 DEF UInv, QueInv

\* The semaphore calls: who sleeps was RUNNING, who is woken is not current.
LEMMA SemStepCur ==
  ASSUME NCPU = 1, UInv, NEW c \in CPU, NEW s \in Sems, SemStep(c, s),
         pc[c] = "body", iff' = iff, UNCHANGED <<ret, ev, cur, ctx>>, machine' = "up"
  PROVE  CurInv' /\ CtxInv'
<1> USE DEF InCall, InTrap
<1>1. CPU = {c}
  BY DEF CPU
<1>2. /\ pc \in [CPU -> Phases] /\ que[s] \in Seq(Tasks) /\ ~ iff[c]
      /\ state \in [Tasks -> {"STARTED", "RUNNABLE", "RUNNING", "YIELD"}]
      /\ cur[c] \in Tasks \cup {NoTask}
      /\ (~ InTrap(c) => cur[c] \in Tasks)
  BY DEF UInv, IInv, TypeOK, SemTypeOK, TaskTypeOK, CpuTypeOK, IrqInv, PhaseInv
<1>3. /\ ev[c] \in {"none", "kbd"}
      /\ cur[c] # NoTask => state[cur[c]] = "RUNNING" /\ ret[c].pc = "user"
  BY DEF UInv, CurInv
<1>4. CASE /\ pc' = [pc EXCEPT ![c] = "yield"] /\ ~ InTrap(c)
           /\ state' = [state EXCEPT ![cur[c]] = "YIELD"]
  BY <1>1, <1>2, <1>3, <1>4 DEF UInv, CurInv, CtxInv
<1>5. CASE /\ pc' = [pc EXCEPT ![c] = IF InTrap(c) THEN "save" ELSE "user"]
           /\ \/ UNCHANGED state
              \/ /\ que[s] # <<>>
                 /\ state' = [state EXCEPT ![Head(que[s])] = "RUNNABLE"]
  <2>1. que[s] # <<>> => state[Head(que[s])] = "YIELD" /\ Head(que[s]) \in Tasks
    BY <1>2 DEF UInv, QueInv
  <2>2. cur[c] # NoTask => state'[cur[c]] = "RUNNING"
    BY <1>2, <1>3, <1>5, <2>1
  <2> QED
    BY <1>1, <1>2, <1>3, <1>5, <2>2 DEF UInv, CurInv, CtxInv
<1> QED
  BY <1>4, <1>5 DEF SemStep

\* The other steps of the CPU.
LEMMA StepCur ==
  ASSUME NCPU = 1, UInv, NEW c \in CPU,
         \/ CpuStep(c) /\ ~ kmt_sem_wait(c) /\ ~ kmt_sem_signal(c)
         \/ Timer(c)
         \/ Keyboard
  PROVE  /\ CurInv' /\ CtxInv' /\ machine' = "up" /\ UNCHANGED <<value, que>>
         /\ \A t \in Tasks : state'[t] = "YIELD" <=> state[t] = "YIELD"
<1> USE Constants DEF InCall, InTrap, semVars, taskVars
<1>1. CPU = {c} /\ c = 0
  BY DEF CPU
<1>2. /\ pc \in [CPU -> Phases] /\ ev \in [CPU -> {"none", "yield", "timer", "kbd"}]
      /\ iff \in [CPU -> BOOLEAN]
      /\ ret \in [CPU -> [pc : {"user", "yield"}, iff : BOOLEAN]]
      /\ state \in [Tasks -> {"STARTED", "RUNNABLE", "RUNNING", "YIELD"}]
      /\ cur \in [CPU -> Tasks \cup {NoTask}] /\ ctx \in [Tasks -> Ctx]
  BY DEF UInv, IInv, TypeOK, TaskTypeOK, CpuTypeOK
<1>3. CASE TaskCall(c)
  <2>1. pc[c] = "user" /\ ev[c] = "none"
    BY <1>3 DEF TaskCall, UInv, IInv, PhaseInv
  <2> QED
    BY <1>1, <1>2, <1>3, <2>1
       DEF TaskCall, kmt_spin_lock, pushcli, UInv, CurInv, CtxInv
<1>4. CASE TaskLocal(c)
  BY <1>1, <1>4 DEF TaskLocal, UInv, CurInv, CtxInv
<1>5. CASE SpinAcquire(c)
  BY <1>1, <1>2, <1>5 DEF SpinAcquire, UInv, CurInv, CtxInv
<1>6. ASSUME NEW e \in {"yield", "timer", "kbd"}, NEW r \in {"user", "yield"},
             Enter(c, e, r), pc[c] \in {"user", "yield"},
             cur[c] # NoTask => r = "user" /\ (e = "yield" <=> pc[c] = "yield")
      PROVE  /\ CurInv' /\ CtxInv' /\ machine' = "up"
             /\ UNCHANGED <<value, que, state>>
  BY <1>1, <1>2, <1>6 DEF Enter, UInv, CurInv, CtxInv
<1>7. CASE Yield(c)
  <2>1. Enter(c, "yield", "user") /\ pc[c] = "yield"
    BY <1>7 DEF Yield
  <2> QED
    BY <1>6, <2>1
<1>8. ASSUME NEW e \in {"timer", "kbd"}, iff[c], Enter(c, e, pc[c])
      PROVE  /\ CurInv' /\ CtxInv' /\ machine' = "up"
             /\ UNCHANGED <<value, que, state>>
  <2>1. pc[c] \in {"user", "yield"} /\ (cur[c] # NoTask => pc[c] = "user")
    BY <1>8 DEF UInv, IInv, IrqInv, CurInv
  <2> QED
    BY <1>6, <1>8, <2>1
<1>9. CASE os_trap(c)
  BY <1>1, <1>2, <1>9
     DEF os_trap, kmt_spin_lock, pushcli, UInv, CurInv, CtxInv
<1>10. CASE SaveContext(c)
  <2>1. CASE cur[c] = NoTask
    BY <1>1, <1>2, <1>10, <2>1 DEF SaveContext, UInv, CurInv, CtxInv
  <2>2. CASE cur[c] # NoTask
    <3>1. /\ ret[c].pc = "user" /\ cur[c] \in Tasks
          /\ state' = [state EXCEPT ![cur[c]] = Demoted(@)]
          /\ ctx' = [ctx EXCEPT ![cur[c]] =
                       [pc |-> ret[c].pc, at |-> at[c], iff |-> ret[c].iff]]
          /\ pc' = [pc EXCEPT ![c] = "scan"] /\ UNCHANGED <<ret, cur, ev, iff>>
          /\ UNCHANGED <<machine, value, que>>
      BY <1>2, <1>10, <2>2 DEF SaveContext, UInv, CurInv
    <3>2. CtxInv'
      BY <1>2, <3>1 DEF UInv, CtxInv
    <3>3. CurInv'
      BY <1>1, <1>2, <3>1 DEF UInv, CurInv
    <3> QED
      BY <1>2, <3>1, <3>2, <3>3 DEF Demoted, UInv
  <2> QED
    BY <2>1, <2>2
<1>11. CASE ScanSkip(c)
  BY <1>1, <1>2, <1>11 DEF ScanSkip, UInv, CurInv, CtxInv
<1>12. CASE Switch(c)
  <2>1. NextIdx(c) \in Tasks
    BY NextIdxType DEF UInv, IInv
  <2> QED
    BY <1>1, <1>2, <1>12, <2>1 DEF Switch, Ready, UInv, CurInv, CtxInv
<1>13. CASE Resume(c)
  <2>1. cur[c] \in Tasks /\ ctx[cur[c]].pc = "user"
    BY <1>13 DEF Resume, UInv, IInv, PhaseInv, CtxInv
  <2> QED
    BY <1>1, <1>2, <1>13, <2>1 DEF Resume, UInv, CurInv, CtxInv
<1>14. CASE Smash(c)
  BY <1>1, <1>14 DEF Smash, Sharers
<1>15. CASE Timer(c)
  BY <1>8, <1>15 DEF Timer
<1>16. CASE Keyboard
  BY <1>1, <1>8, <1>16 DEF Keyboard
<1> QED
  BY <1>3, <1>4, <1>5, <1>7, <1>9, <1>10, <1>11, <1>12, <1>13, <1>14, <1>15, <1>16
     DEF CpuStep, KernelStep

\* On one CPU the strengthened invariant is inductive.
LEMMA UpInvariance == ASSUME NCPU = 1 PROVE Spec => []UInv
<1>1. Init => UInv
  <2> SUFFICES ASSUME Init PROVE UInv
    OBVIOUS
  <2>1. IInv
    BY InitInv
  <2>2. CurInv /\ CtxInv /\ machine = "up"
    BY Constants DEF Init, CurInv, CtxInv, InCall
  <2>3. QueInv
    <3>1. \A s \in Sems : que[s] = <<>> /\ Neg(value[s]) = 0
      BY KmtConstants DEF Init, Neg
    <3>2. \A t \in Tasks : state[t] # "YIELD"
      BY DEF Init
    <3> QED
      BY <3>1, <3>2 DEF QueInv
  <2> QED
    BY <2>1, <2>2, <2>3 DEF UInv
<1>2. UInv /\ [Next]_vars => UInv'
  <2> SUFFICES ASSUME UInv, [Next]_vars PROVE UInv'
    OBVIOUS
  <2>1. IInv'
    BY NextInv DEF UInv
  <2>2. CASE \E c \in CPU : kmt_sem_wait(c) \/ kmt_sem_signal(c)
    <3>1. PICK c \in CPU : kmt_sem_wait(c) \/ kmt_sem_signal(c)
      BY <2>2
    <3>2. PICK s \in Sems : /\ SemStep(c, s)
                            /\ pc[c] = "body" /\ iff' = iff
                            /\ UNCHANGED <<ret, ev, cur, ctx>>
      BY <3>1, SemCall DEF UInv
    <3>3. QueInv' /\ machine' = "up"
      BY <3>2, SemStepQue
    <3> QED
      BY <2>1, <3>2, <3>3, SemStepCur DEF UInv
  <2>3. ASSUME NEW c \in CPU,
               \/ CpuStep(c) /\ ~ kmt_sem_wait(c) /\ ~ kmt_sem_signal(c)
               \/ Timer(c)
               \/ Keyboard
        PROVE  UInv'
    <3>1. /\ CurInv' /\ CtxInv' /\ machine' = "up" /\ UNCHANGED <<value, que>>
          /\ \A t \in Tasks : state'[t] = "YIELD" <=> state[t] = "YIELD"
      BY <2>3, StepCur
    <3> QED
      BY <2>1, <3>1, QueFrame DEF UInv
  <2>4. CASE UNCHANGED vars
    BY <2>1, <2>4
       DEF vars, UInv, CurInv, CtxInv, QueInv, InCall
  <2> QED
    BY <2>2, <2>3, <2>4, Constants DEF Next, Stopped
<1> QED
  BY <1>1, <1>2, PTL DEF Spec

\* On one CPU, wakeup never reaches _halt(1) and no ring que[MAX_TASK] fills up,
\* whatever semaphore calls the tasks make.
THEOREM NeverHalts == ASSUME NCPU = 1 PROVE Spec => []NoHalt
<1>1. UInv => NoHalt
  <2> SUFFICES ASSUME UInv, NEW s \in Sems PROVE -value[s] < MAX_TASK
    BY DEF NoHalt, UInv
  <2>1. Len(que[s]) <= NTASK - 1 /\ Len(que[s]) = Neg(value[s]) /\ value[s] \in Int
    BY QueBound DEF UInv, QueInv, IInv, TypeOK, SemTypeOK
  <2> QED
    BY <2>1, KmtConstants DEF Neg
<1> QED
  BY <1>1, UpInvariance, PTL

\* On one CPU no wakeup is lost: the sleeping tasks are the queued ones.
THEOREM WakeupsKept == ASSUME NCPU = 1 PROVE Spec => []NoLostWakeup
<1>1. ASSUME UInv, NEW t \in Tasks
      PROVE  Cardinality({p \in Sems \X (1 .. NTASK) :
                            p[2] <= Len(que[p[1]]) /\ que[p[1]][p[2]] = t})
               = IF state[t] = "YIELD" THEN 1 ELSE 0
  <2> DEFINE P == {p \in Sems \X (1 .. NTASK) :
                     p[2] <= Len(que[p[1]]) /\ que[p[1]][p[2]] = t}
  <2>1. \A s \in Sems : Len(que[s]) \in Nat /\ Len(que[s]) <= NTASK - 1
    BY <1>1, QueBound DEF UInv, IInv, TypeOK, SemTypeOK
  <2>2. \A p \in P : p[1] \in Sems /\ p[2] \in 1 .. Len(que[p[1]])
                    /\ p = <<p[1], p[2]>> /\ que[p[1]][p[2]] = t
    <3> TAKE p \in P
    <3>1. p \in Sems \X (1 .. NTASK)
      OBVIOUS
    <3>2. p[1] \in Sems /\ p[2] \in 1 .. NTASK /\ p = <<p[1], p[2]>>
      BY <3>1
    <3>3. p[2] <= Len(que[p[1]]) /\ que[p[1]][p[2]] = t
      OBVIOUS
    <3> QED
      BY <2>1, <3>2, <3>3
  <2>3. CASE state[t] = "YIELD"
    <3>a. PICK s \in Sems : \E i \in 1 .. Len(que[s]) : que[s][i] = t
      BY <1>1, <2>3 DEF UInv, QueInv
    <3>1. PICK i \in 1 .. Len(que[s]) : que[s][i] = t
      BY <3>a
    <3>2. <<s, i>> \in P
      <4>1. i \in 1 .. NTASK /\ i <= Len(que[s])
        BY <2>1, KmtConstants
      <4> QED
        BY <3>1, <4>1
    <3> HIDE DEF P
    <3>3. ASSUME NEW p \in P PROVE p = <<s, i>>
      <4>1. /\ p[1] \in Sems /\ p[2] \in 1 .. Len(que[p[1]])
            /\ p = <<p[1], p[2]>> /\ que[p[1]][p[2]] = que[s][i]
        BY <2>2, <3>1
      <4>2. p[1] = s /\ p[2] = i
        BY <1>1, <4>1 DEF UInv, QueInv
      <4> QED
        BY <4>1, <4>2
    <3>4. P = {<<s, i>>}
      BY <3>2, <3>3
    <3>5. Cardinality(P) = 1
      BY <3>4, FS_Singleton
    <3> QED
      BY <2>3, <3>5 DEF P
  <2>4. CASE state[t] # "YIELD"
    <3>1. P = {}
      BY <1>1, <2>2, <2>4 DEF UInv, QueInv
    <3>2. Cardinality(P) = 0
      BY <3>1, FS_EmptySet
    <3> QED
      BY <2>4, <3>2
  <2> QED
    BY <2>3, <2>4
<1>2. UInv => NoLostWakeup
  BY <1>1 DEF NoLostWakeup
<1> QED
  BY <1>2, UpInvariance, PTL

\* On one CPU a task that still executes is never ready: it is RUNNING until it
\* sleeps or the scheduler demotes it.
THEOREM RunningCurrent == ASSUME NCPU = 1 PROVE Spec => []RunningIsCurrent
<1>1. UInv => RunningIsCurrent
  BY DEF UInv, IInv, TypeOK, CpuTypeOK, RunInv, CurInv, RunningIsCurrent, Phases
<1> QED
  BY <1>1, UpInvariance, PTL

(***************************************************************************)
(* ProdCons.  On one CPU the semaphores keep the counter of the producer/  *)
(* consumer test within the buffer, for every size of the buffer and any   *)
(* number of producers and consumers.                                      *)
(***************************************************************************)
\* main.c's tasks on one CPU: after the idle task any number of producers and
\* consumers.
OneCpuTest ==
  /\ NCPU = 1 /\ maxk \in Nat
  /\ Sems = PCSems /\ InitVal = PCInitVal
  /\ Labels = PCLabels /\ Prog = PCProg /\ Local = PCLocal
  /\ \A t \in Tasks : IF t < NCPU THEN Entry[t] = "idle" ELSE Entry[t] \in {"p0", "c0"}

\* A task's label, wherever it is kept, and whether the call before that label is
\* still to be carried out.
Pos(t) == IF cur[0] = t /\ pc[0] # "iret" THEN at[0] ELSE ctx[t].at
Pending(t) == cur[0] = t /\ InCall(0)

\* The labels of a task, those at which it can be off the CPU, and the calls.
Own(t)  == IF Entry[t] = "p0" THEN {"p0", "p1", "p2", "p3", "p4", "p5"}
                              ELSE {"c0", "c1", "c2", "c3", "c4", "c5"}
Rest(t) == IF Entry[t] = "p0" THEN {"p0", "p1", "p2"} ELSE {"c0", "c1", "c2"}
Calls ==
  {<<"p0", "wait", "empty", "p1">>,   <<"p1", "wait", "mutex", "p2">>,
   <<"p4", "signal", "mutex", "p5">>, <<"p5", "signal", "full", "p0">>,
   <<"c0", "wait", "full", "c1">>,    <<"c1", "wait", "mutex", "c2">>,
   <<"c4", "signal", "mutex", "c5">>, <<"c5", "signal", "empty", "c0">>}

\* The tasks that hold a free place of the buffer: a producer from its
\* wait(empty) to its store, a consumer from its store to its signal(empty); and
\* those that hold an item.
HasPlace(t) ==
  \/ Pos(t) \in {"p2", "p3", "c4", "c5"}
  \/ Pos(t) = "p1" /\ ~ Pending(t)
  \/ Pos(t) = "c0" /\ Pending(t)
HasItem(t) ==
  \/ Pos(t) \in {"c2", "c3", "p4", "p5"}
  \/ Pos(t) = "c1" /\ ~ Pending(t)
  \/ Pos(t) = "p0" /\ Pending(t)
Places == {t \in Workers : HasPlace(t)}
Items  == {t \in Workers : HasItem(t)}

\* Where tasks stand.  Interrupts are off from a task's first call on, so that
\* it leaves the CPU at its entry or asleep in a sem_wait.
CtxAt ==
  \A t \in Workers : /\ ctx[t].at \in Rest(t)
                     /\ ctx[t].iff => ctx[t].at = Entry[t]
CurAt ==
  cur[0] \in Workers /\ pc[0] # "iret" =>
    /\ at[0] \in Own(cur[0])
    /\ pc[0] \notin {"user", "spin", "body"} => at[0] \in Rest(cur[0])
    /\ iff[0] => at[0] = Entry[cur[0]]
    /\ pc[0] \in {"trap", "save"} /\ ret[0].iff => at[0] = Entry[cur[0]]
    /\ pc[0] = "scan" => ctx[cur[0]].at = at[0]
    /\ InCall(0) => \E l \in Labels : <<l, call[0].op, call[0].sem, at[0]>> \in Calls
QueAt ==
  /\ \A i \in 1 .. Len(que["empty"]) : Pos(que["empty"][i]) = "p1"
  /\ \A i \in 1 .. Len(que["full"]) : Pos(que["full"][i]) = "c1"

\* What was loaded is still the counter when it is stored.
Loaded == cur[0] \in Workers /\ pc[0] = "user" /\ at[0] \in {"p3", "c3"} => reg[0] = cnt

\* Every place of the buffer is free, taken or in a task's hands: p tasks hold a
\* place and q tasks an item, when the semaphores are at e and f and the counter
\* at n.
Balanced(e, f, p, q, n) ==
  /\ e \in Int /\ f \in Int /\ p \in Int /\ q \in Int /\ n \in Int
  /\ e + p + n = maxk
  /\ f + q = n
Accounts ==
  /\ reg \in [CPU -> Int]
  /\ Balanced(value["empty"], value["full"], Cardinality(Places), Cardinality(Items), cnt)

PCInv == ev[0] # "kbd" /\ CtxAt /\ CurAt /\ QueAt /\ Loaded /\ Accounts
(***************************************************************************)
\* The constants of the test.
LEMMA TestConstants ==
  ASSUME OneCpuTest
  PROVE  /\ CPU = {0} /\ Idle = {0} /\ Workers = Tasks \ {0}
         /\ "empty" \in Sems /\ "full" \in Sems /\ "mutex" \in Sems
         /\ \A t \in Workers : Entry[t] \in {"p0", "c0"}
         /\ IsFiniteSet(Workers) /\ NoTask \notin Workers
<1>1. CPU = {0} /\ Idle = {0}
  BY DEF OneCpuTest, CPU, Idle
<1>2. Workers = Tasks \ {0}
  BY <1>1 DEF Workers
<1>3. \A t \in Workers : ~ (t < NCPU) /\ t \in Tasks
  BY <1>2 DEF Tasks, OneCpuTest
<1>4. IsFiniteSet(Workers)
  <2>1. IsFiniteSet(Tasks)
    BY FS_Interval, KmtConstants DEF Tasks
  <2> QED
    BY <1>2, <2>1, FS_Difference
<1> QED
  BY <1>1, <1>2, <1>3, <1>4, Constants DEF OneCpuTest, PCSems

\* The calls of the test's programs (main.c:14-38).
LEMMA ProgCalls ==
  ASSUME OneCpuTest, NEW l \in Labels, NEW i \in Prog[l]
  PROVE  <<l, i.op, i.sem, i.next>> \in Calls
<1>1. DOMAIN producer = {"p0", "p1", "p2", "p3", "p4", "p5"}
  BY DEF producer
<1>2. DOMAIN consumer = {"c0", "c1", "c2", "c3", "c4", "c5"}
  BY DEF consumer
<1>3. Prog[l] = IF l \in DOMAIN producer THEN producer[l]
                ELSE IF l \in DOMAIN consumer THEN consumer[l] ELSE {}
  BY DEF OneCpuTest, PCProg
<1>4. CASE l \in DOMAIN producer
  <2>1. i \in producer[l]
    BY <1>3, <1>4
  <2> QED
    BY <1>1, <1>4, <2>1 DEF producer, Step, Calls
<1>5. CASE l \notin DOMAIN producer
  <2>1. l \in DOMAIN consumer /\ i \in consumer[l]
    BY <1>3, <1>5
  <2> QED
    BY <1>2, <2>1 DEF consumer, Step, Calls
<1> QED
  BY <1>4, <1>5

\* The load and the store of cnt++ and cnt--.
LEMMA LocalMoves ==
  ASSUME OneCpuTest, NEW l \in Labels, NEW m \in Local[l]
  PROVE  <<l, m>> \in {<<"p2", "p3">>, <<"p3", "p4">>, <<"c2", "c3">>, <<"c3", "c4">>}
<1>1. m \in CASE l = "p2" -> {"p3"} [] l = "p3" -> {"p4"}
              [] l = "c2" -> {"c3"} [] l = "c3" -> {"c4"} [] OTHER -> {}
  BY DEF OneCpuTest, PCLocal
<1> QED
  BY <1>1

\* The invariant speaks of CPU 0's part of the functions.
LEMMA OneCpu ==
  ASSUME OneCpuTest, UInv
  PROVE  /\ pc[0] \in Phases /\ DOMAIN pc = {0} /\ DOMAIN at = {0} /\ DOMAIN iff = {0}
         /\ DOMAIN call = {0} /\ DOMAIN ret = {0} /\ DOMAIN ev = {0} /\ DOMAIN cur = {0}
         /\ DOMAIN ctx = Tasks /\ cur[0] \in Tasks \cup {NoTask} /\ at[0] \in Labels
         /\ \A s \in Sems : que[s] \in Seq(Tasks) /\ value[s] \in Int
         /\ value \in [Sems -> Int] /\ que \in [Sems -> Seq(Tasks)]
BY TestConstants DEF UInv, IInv, TypeOK, CpuTypeOK, TaskTypeOK, SemTypeOK

\* A queued task is a producer or a consumer, asleep and in no call.
LEMMA Queued ==
  ASSUME OneCpuTest, UInv, NEW s \in Sems, NEW i \in 1 .. Len(que[s])
  PROVE  /\ que[s][i] \in Workers /\ state[que[s][i]] = "YIELD" /\ ~ Pending(que[s][i])
         /\ cur[0] = que[s][i] => pc[0] \notin {"user", "spin", "body", "iret"}
<1> DEFINE t == que[s][i]
<1>1. t \in Tasks /\ state[t] = "YIELD"
  BY OneCpu DEF UInv, QueInv
<1>2. t \in Workers
  BY <1>1, TestConstants DEF UInv, IInv, IdleInv
<1>3. cur[0] = t => pc[0] \notin {"user", "spin", "body", "iret"}
  BY <1>1, TestConstants, Constants DEF UInv, CurInv
<1> QED
  BY <1>1, <1>2, <1>3 DEF Pending, InCall

\* A step that moves nobody.
LEMMA NobodyMoves ==
  ASSUME OneCpuTest, UInv, PCInv, UNCHANGED <<value, que, cnt, reg>>,
         \A t \in Workers : Pos(t)' = Pos(t) /\ (Pending(t)' <=> Pending(t))
  PROVE  QueAt' /\ Accounts'
<1>1. QueAt'
  BY Queued, TestConstants DEF PCInv, QueAt
<1>2. Places' = Places /\ Items' = Items
  BY DEF Places, Items, HasPlace, HasItem, Workers
<1> QED
  BY <1>1, <1>2 DEF PCInv, Accounts, CPU
\* Who is current and where, as the invariants of Kmt have it.
LEMMA CurrentWorker ==
  ASSUME OneCpuTest, UInv
  PROVE  /\ pc[0] \in {"user", "iret"} => cur[0] \in Tasks
         /\ cur[0] \in Tasks \ Workers /\ pc[0] # "iret" =>
              at[0] = "idle" /\ Prog[at[0]] = {} /\ Local[at[0]] = {}
         /\ InCall(0) /\ ~ InTrap(0) => cur[0] \in Workers
         /\ iff[0] => pc[0] \in {"user", "yield"}
         /\ cur[0] # NoTask /\ pc[0] # "iret" => ret[0].pc = "user"
         /\ cur[0] # NoTask /\ iff[0] => pc[0] = "user"
         /\ pc[0] \in {"user", "yield"} => ~ InTrap(0)
         /\ pc[0] \in {"trap", "save", "scan", "iret"} => InTrap(0)
<1>1. Idle = {0} /\ 0 \in CPU /\ Workers = Tasks \ {0}
  BY TestConstants
<1>2. cur[0] \in Idle /\ pc[0] # "iret" =>
        at[0] = Entry[0] /\ Prog[at[0]] = {} /\ Local[at[0]] = {}
  BY <1>1, Constants DEF UInv, IInv, IdleInv
<1>3. Entry[0] = "idle"
  BY Constants DEF OneCpuTest
<1> QED
  BY <1>1, <1>2, <1>3 DEF UInv, IInv, PhaseInv, IrqInv, CurInv, Workers

\* The entry of a trap: a task that is not asleep is at its entry.
LEMMA EnterAt ==
  ASSUME OneCpuTest, UInv, PCInv, NEW e \in {"yield", "timer"}, NEW r,
         Enter(0, e, r), pc[0] \in {"user", "yield"},
         iff[0] \/ pc[0] = "yield", UNCHANGED pcVars
  PROVE  PCInv'
<1> USE OneCpu, TestConstants DEF InCall
<1>1. /\ ev' = [ev EXCEPT ![0] = e] /\ pc' = [pc EXCEPT ![0] = "trap"]
      /\ ret' = [ret EXCEPT ![0] = [pc |-> r, iff |-> iff[0]]]
      /\ iff' = [iff EXCEPT ![0] = FALSE]
      /\ UNCHANGED <<at, call, cur, ctx, value, que, cnt, reg>>
  BY DEF Enter, taskVars, semVars, pcVars
<1>2. ev'[0] = e /\ pc'[0] = "trap" /\ ret'[0].iff = iff[0] /\ ~ iff'[0]
  BY <1>1
<1>3. \A t \in Workers : Pos(t)' = Pos(t) /\ (Pending(t)' <=> Pending(t))
  BY <1>1, <1>2 DEF Pos, Pending
<1>4. QueAt' /\ Accounts'
  BY <1>1, <1>3, NobodyMoves
<1>5. CtxAt'
  BY <1>1 DEF PCInv, CtxAt, Rest, Workers
<1>6. CurAt'
  <2> SUFFICES ASSUME cur[0] \in Workers
               PROVE  /\ at[0] \in Own(cur[0]) /\ at[0] \in Rest(cur[0])
                      /\ iff[0] => at[0] = Entry[cur[0]]
    BY <1>1, <1>2 DEF CurAt, Own, Rest, Workers
  <2>1. /\ at[0] \in Own(cur[0])
        /\ pc[0] = "yield" => at[0] \in Rest(cur[0])
        /\ iff[0] => at[0] = Entry[cur[0]]
    BY DEF PCInv, CurAt
  <2> QED
    BY <2>1 DEF Rest
<1>7. Loaded'
  BY <1>2 DEF Loaded
<1> QED
  BY <1>2, <1>4, <1>5, <1>6, <1>7 DEF PCInv

\* os_trap takes the mutex and goes to the scheduler.
LEMMA os_trapAt ==
  ASSUME OneCpuTest, UInv, PCInv, os_trap(0), UNCHANGED pcVars
  PROVE  PCInv'
<1> USE OneCpu, TestConstants DEF InCall
<1>1. /\ pc[0] = "trap" /\ pc' = [pc EXCEPT ![0] = "save"]
      /\ UNCHANGED <<at, iff, call, ret, ev, cur, ctx, value, que, cnt, reg>>
  BY DEF os_trap, PCInv, semVars, pcVars
<1>2. pc'[0] = "save"
  BY <1>1
<1>3. \A t \in Workers : Pos(t)' = Pos(t) /\ (Pending(t)' <=> Pending(t))
  BY <1>1, <1>2 DEF Pos, Pending
<1>4. QueAt' /\ Accounts'
  BY <1>1, <1>3, NobodyMoves
<1>5. CtxAt' /\ CurAt' /\ Loaded'
  BY <1>1, <1>2 DEF PCInv, CtxAt, CurAt, Loaded, Own, Rest, Workers
<1> QED
  BY <1>1, <1>4, <1>5 DEF PCInv

\* The scheduler saves where the task stands.
LEMMA SaveContextAt ==
  ASSUME OneCpuTest, UInv, PCInv, SaveContext(0), UNCHANGED pcVars
  PROVE  PCInv'
<1> USE OneCpu, TestConstants DEF InCall
<1>1. /\ pc[0] = "save" /\ pc' = [pc EXCEPT ![0] = "scan"]
      /\ UNCHANGED <<at, iff, call, ret, ev, cur, value, que, cnt, reg>>
      /\ IF cur[0] = NoTask THEN ctx' = ctx
         ELSE ctx' = [ctx EXCEPT ![cur[0]] =
                        [pc |-> ret[0].pc, at |-> at[0], iff |-> ret[0].iff]]
  BY DEF SaveContext, semVars, pcVars
<1>2. pc'[0] = "scan"
  BY <1>1
<1>3. \A t \in Workers : IF t = cur[0] THEN ctx'[t].at = at[0] /\ ctx'[t].iff = ret[0].iff
                                       ELSE ctx'[t] = ctx[t]
  BY <1>1
<1>4. \A t \in Workers : Pos(t)' = Pos(t) /\ (Pending(t)' <=> Pending(t))
  BY <1>1, <1>2, <1>3 DEF Pos, Pending
<1>5. QueAt' /\ Accounts'
  BY <1>1, <1>4, NobodyMoves
<1>6. CtxAt' /\ CurAt' /\ Loaded'
  BY <1>1, <1>2, <1>3 DEF PCInv, CtxAt, CurAt, Loaded, Own, Rest, Workers
<1> QED
  BY <1>1, <1>5, <1>6 DEF PCInv

\* The scheduler's loop.
LEMMA ScanAt ==
  ASSUME OneCpuTest, UInv, PCInv, ScanSkip(0) \/ Switch(0), UNCHANGED pcVars
  PROVE  PCInv'
<1> USE OneCpu, TestConstants DEF InCall
<1>1. CASE ScanSkip(0)
  <2>1. UNCHANGED <<pc, at, iff, call, ret, ev, cur, ctx, value, que, cnt, reg>>
    BY <1>1 DEF ScanSkip, taskVars, semVars, pcVars
  <2>2. \A t \in Workers : Pos(t)' = Pos(t) /\ (Pending(t)' <=> Pending(t))
    BY <2>1 DEF Pos, Pending
  <2>3. QueAt' /\ Accounts'
    BY <2>1, <2>2, NobodyMoves
  <2> QED
    BY <2>1, <2>3 DEF PCInv, CtxAt, CurAt, Loaded, Own, Rest, Workers
<1>2. CASE Switch(0)
  <2>1. /\ pc[0] = "scan" /\ pc' = [pc EXCEPT ![0] = "iret"]
        /\ UNCHANGED <<at, iff, call, ret, ev, ctx, value, que, cnt, reg>>
        /\ cur' = [cur EXCEPT ![0] = NextIdx(0)]
    BY <1>2 DEF Switch, semVars, pcVars
  <2>2. pc'[0] = "iret"
    BY <2>1
  <2>3. \A t \in Workers : Pos(t)' = Pos(t) /\ (Pending(t)' <=> Pending(t))
    BY <2>1, <2>2 DEF Pos, Pending, PCInv, CurAt
  <2>4. QueAt' /\ Accounts'
    BY <2>1, <2>3, NobodyMoves
  <2> QED
    BY <2>1, <2>2, <2>4 DEF PCInv, CtxAt, CurAt, Loaded, Own, Rest, Workers
<1> QED
  BY <1>1, <1>2

\* The return to the chosen task.
LEMMA ResumeAt ==
  ASSUME OneCpuTest, UInv, PCInv, Resume(0), UNCHANGED pcVars
  PROVE  PCInv'
<1> USE OneCpu, TestConstants DEF InCall
<1>1. /\ pc[0] = "iret" /\ pc' = [pc EXCEPT ![0] = ctx[cur[0]].pc]
      /\ at' = [at EXCEPT ![0] = ctx[cur[0]].at]
      /\ iff' = [iff EXCEPT ![0] = ctx[cur[0]].iff]
      /\ ev' = [ev EXCEPT ![0] = "none"]
      /\ UNCHANGED <<call, cur, ctx, value, que, cnt, reg>>
  BY DEF Resume, taskVars, semVars, pcVars
<1>2. cur[0] \in Tasks /\ ctx[cur[0]].pc = "user"
  BY <1>1, CurrentWorker DEF UInv, CtxInv
<1>3. /\ pc'[0] = "user" /\ at'[0] = ctx[cur[0]].at /\ ev'[0] = "none"
      /\ iff'[0] = ctx[cur[0]].iff
  BY <1>1, <1>2
<1>4. \A t \in Workers : Pos(t)' = Pos(t) /\ (Pending(t)' <=> Pending(t))
  BY <1>1, <1>3 DEF Pos, Pending
<1>5. QueAt' /\ Accounts'
  BY <1>1, <1>4, NobodyMoves
<1>6. CtxAt'
  BY <1>1 DEF PCInv, CtxAt, Rest, Workers
<1>7. CurAt' /\ Loaded'
  <2> SUFFICES ASSUME cur[0] \in Workers
               PROVE  /\ at'[0] \in Rest(cur[0])
                      /\ iff'[0] => at'[0] = Entry[cur[0]]
    BY <1>1, <1>3 DEF CurAt, Loaded, Own, Rest, Workers
  <2> QED
    BY <1>3 DEF PCInv, CtxAt
<1> QED
  BY <1>3, <1>5, <1>6, <1>7 DEF PCInv
\* Only the current task moves, and it holds the same as before.
LEMMA SameHands ==
  ASSUME OneCpuTest, UInv, PCInv, UNCHANGED <<value, que, cnt, reg>>,
         pc[0] \in {"user", "spin", "body"}, NEW w \in Workers, w = cur[0],
         \A t \in Workers \ {w} : Pos(t)' = Pos(t) /\ (Pending(t)' <=> Pending(t)),
         HasPlace(w)' <=> HasPlace(w), HasItem(w)' <=> HasItem(w)
  PROVE  QueAt' /\ Accounts'
<1>1. QueAt'
  BY Queued, TestConstants DEF PCInv, QueAt
<1>2. \A t \in Workers : (HasPlace(t)' <=> HasPlace(t)) /\ (HasItem(t)' <=> HasItem(t))
  BY DEF HasPlace, HasItem
<1>3. Places' = Places /\ Items' = Items
  BY <1>2 DEF Places, Items, Workers
<1> QED
  BY <1>1, <1>3 DEF PCInv, Accounts, CPU

\* A task goes into a semaphore call.
LEMMA TaskCallAt ==
  ASSUME OneCpuTest, UInv, PCInv, TaskCall(0), UNCHANGED pcVars
  PROVE  PCInv'
<1> USE OneCpu, TestConstants DEF InCall
<1>0. pc[0] = "user" /\ cur[0] \in Tasks /\ Prog[at[0]] # {}
  BY CurrentWorker DEF TaskCall
<1>1. PICK w \in Workers : w = cur[0]
  BY <1>0, CurrentWorker
<1>2. PICK i \in Prog[at[0]] :
        /\ kmt_spin_lock(0, [op |-> i.op, sem |-> i.sem])
        /\ at' = [at EXCEPT ![0] = i.next]
  BY DEF TaskCall
<1>3. /\ pc' = [pc EXCEPT ![0] = "spin"] /\ iff' = [iff EXCEPT ![0] = FALSE]
      /\ call' = [call EXCEPT ![0] = [op |-> i.op, sem |-> i.sem]]
      /\ UNCHANGED <<ret, ev, cur, ctx, value, que, cnt, reg>>
  BY <1>2 DEF TaskCall, kmt_spin_lock, pushcli, taskVars, semVars, pcVars
<1>4. /\ pc'[0] = "spin" /\ ~ iff'[0] /\ at'[0] = i.next
      /\ call'[0].op = i.op /\ call'[0].sem = i.sem
  BY <1>2, <1>3
<1>5. <<at[0], i.op, i.sem, i.next>> \in Calls
  BY <1>2, ProgCalls
<1>6. Pos(w) = at[0] /\ Pos(w)' = i.next /\ ~ Pending(w) /\ Pending(w)'
  BY <1>0, <1>1, <1>3, <1>4 DEF Pos, Pending
<1>7. \A t \in Workers \ {w} : Pos(t)' = Pos(t) /\ (Pending(t)' <=> Pending(t))
  BY <1>1, <1>3 DEF Pos, Pending
<1>8. at[0] \in Own(w)
  BY <1>0, <1>1 DEF PCInv, CurAt
<1>9. /\ HasPlace(w)' <=> HasPlace(w)
      /\ HasItem(w)' <=> HasItem(w)
      /\ i.next \in Own(w)
  BY <1>5, <1>6, <1>8 DEF Calls, HasPlace, HasItem, Own
<1>10. QueAt' /\ Accounts'
  BY <1>0, <1>1, <1>3, <1>7, <1>9, SameHands
<1>11. CtxAt' /\ Loaded'
  BY <1>3, <1>4 DEF PCInv, CtxAt, Loaded, Rest, Workers
<1>12. CurAt'
  BY <1>1, <1>3, <1>4, <1>5, <1>9 DEF CurAt, Own, Workers
<1> QED
  BY <1>3, <1>10, <1>11, <1>12 DEF PCInv

\* The successful xchg.
LEMMA SpinAcquireAt ==
  ASSUME OneCpuTest, UInv, PCInv, SpinAcquire(0), UNCHANGED pcVars
  PROVE  PCInv'
<1> USE OneCpu, TestConstants DEF InCall
<1>1. /\ pc[0] = "spin" /\ pc' = [pc EXCEPT ![0] = "body"]
      /\ UNCHANGED <<at, iff, call, ret, ev, cur, ctx, value, que, cnt, reg>>
  BY DEF SpinAcquire, taskVars, pcVars
<1>2. pc'[0] = "body"
  BY <1>1
<1>3. \A t \in Workers : Pos(t)' = Pos(t) /\ (Pending(t)' <=> Pending(t))
  BY <1>1, <1>2 DEF Pos, Pending
<1>4. QueAt' /\ Accounts'
  BY <1>1, <1>3, NobodyMoves
<1>5. CtxAt' /\ CurAt' /\ Loaded'
  BY <1>1, <1>2 DEF PCInv, CtxAt, CurAt, Loaded, Own, Rest, Workers
<1> QED
  BY <1>1, <1>4, <1>5 DEF PCInv

\* Of two sets that differ in nothing but t: what t does to the number of elements.
Moved(S, T, t) ==
  /\ Cardinality(S) \in Nat /\ Cardinality(T) \in Nat
  /\ (t \in S <=> t \in T) => Cardinality(T) = Cardinality(S)
  /\ t \notin S /\ t \in T => Cardinality(T) = Cardinality(S) + 1
  /\ t \in S /\ t \notin T => Cardinality(S) = Cardinality(T) + 1

\* A set of tasks that one task joins or leaves.
LEMMA OneMoves ==
  ASSUME NEW S, NEW T, NEW t, IsFiniteSet(S), IsFiniteSet(T),
         \A u : u # t => (u \in S <=> u \in T)
  PROVE  Moved(S, T, t)
<1>0. Cardinality(S) \in Nat /\ Cardinality(T) \in Nat
  BY FS_CardinalityType
<1>1. ASSUME t \in S <=> t \in T PROVE Cardinality(T) = Cardinality(S)
  <2>1. \A u : u \in S <=> u \in T
    BY <1>1, Zenon
  <2>2. S = T
    BY <2>1
  <2> QED
    BY <2>2
<1>2. ASSUME t \notin S, t \in T PROVE Cardinality(T) = Cardinality(S) + 1
  <2>1. T = S \cup {t}
    BY <1>2, Zenon
  <2> QED
    BY <1>2, <2>1, FS_AddElement
<1>3. ASSUME t \in S, t \notin T PROVE Cardinality(S) = Cardinality(T) + 1
  <2>1. S = T \cup {t}
    BY <1>3, Zenon
  <2> QED
    BY <1>3, <2>1, FS_AddElement
<1> QED
  BY <1>0, <1>1, <1>2, <1>3 DEF Moved

\* The sets of tasks that hold something are finite.
LEMMA HandsFinite ==
  ASSUME OneCpuTest
  PROVE  /\ IsFiniteSet(Places) /\ Cardinality(Places) \in Nat
         /\ IsFiniteSet(Items) /\ Cardinality(Items) \in Nat
BY TestConstants, FS_Subset, FS_CardinalityType DEF Places, Items
\* What a step can do to the accounts and leave them balanced.
LEMMA Balance ==
  ASSUME maxk \in Nat, NEW e, NEW f, NEW p, NEW q, NEW n, Balanced(e, f, p, q, n)
  PROVE  /\ Balanced(e - 1, f, p + 1, q, n) /\ Balanced(e + 1, f, p - 1, q, n)
         /\ Balanced(e, f - 1, p, q + 1, n) /\ Balanced(e, f + 1, p, q - 1, n)
         /\ Balanced(e, f, p - 1, q + 1, n + 1) /\ Balanced(e, f, p + 1, q - 1, n - 1)
BY DEF Balanced

\* A semaphore call of the test: who makes it, from where, and what becomes of
\* the ring, of the value and of the phase.
LEMMA CallDone ==
  ASSUME OneCpuTest, UInv, PCInv, kmt_sem_wait(0) \/ kmt_sem_signal(0), machine' = "up"
  PROVE  LET s == call[0].sem
             n == IF call[0].op = "wait" THEN value[s] - 1 ELSE value[s] + 1
         IN  /\ pc[0] = "body" /\ ev[0] = "none" /\ cur[0] \in Workers
             /\ s \in Sems /\ at[0] \in Own(cur[0])
             /\ \E l \in Labels : <<l, call[0].op, s, at[0]>> \in Calls
             /\ value' = [value EXCEPT ![s] = n]
             /\ iff' = iff /\ UNCHANGED <<at, ret, ev, cur, ctx>>
             /\ \/ pc' = [pc EXCEPT ![0] = "user"]
                \/ pc' = [pc EXCEPT ![0] = "yield"] /\ call[0].op = "wait"
             /\ \/ que' = que
                \/ que' = [que EXCEPT ![s] = sem_push(@, cur[0])] /\ call[0].op = "wait"
                \/ que' = [que EXCEPT ![s] = Tail(@)] /\ que[s] # <<>>
<1> USE OneCpu, TestConstants DEF InCall, InTrap
<1> DEFINE s == call[0].sem
<1>1. pc[0] = "body" /\ s \in Sems
  BY DEF kmt_sem_wait, kmt_sem_signal, UInv, IInv, PhaseInv, Call
<1>2. ev[0] = "none" /\ Return(0) = "user"
  BY <1>1 DEF UInv, CurInv, PCInv, Return
<1>3. cur[0] \in Workers
  BY <1>1, <1>2, CurrentWorker
<1>4. at[0] \in Own(cur[0]) /\ \E l \in Labels : <<l, call[0].op, s, at[0]>> \in Calls
  BY <1>1, <1>3 DEF PCInv, CurAt
<1>5. iff' = iff /\ UNCHANGED <<at, ret, ev, cur, ctx>>
  BY DEF kmt_sem_wait, kmt_sem_signal, sleep, wakeup, Leave, kmt_spin_unlock,
         popcli, UInv, IInv, IrqInv
<1>6. CASE kmt_sem_wait(0)
  BY <1>1, <1>2, <1>3, <1>4, <1>5, <1>6
     DEF kmt_sem_wait, sleep, Leave, kmt_spin_unlock
<1>7. CASE kmt_sem_signal(0)
  BY <1>1, <1>2, <1>3, <1>4, <1>5, <1>7
     DEF kmt_sem_signal, wakeup, Leave, kmt_spin_unlock
<1> QED
  BY <1>6, <1>7

\* A call takes a place or an item, or gives one up, in one step with the value.
LEMMA SemAt ==
  ASSUME OneCpuTest, UInv, PCInv, kmt_sem_wait(0) \/ kmt_sem_signal(0), machine' = "up",
         UNCHANGED pcVars
  PROVE  PCInv'
<1> USE OneCpu, TestConstants DEF InCall
<1> DEFINE s == call[0].sem
           o == call[0].op
           n == IF o = "wait" THEN value[s] - 1 ELSE value[s] + 1
<1>1. PICK w \in Workers : w = cur[0]
  BY CallDone
<1>2. /\ pc[0] = "body" /\ ev[0] = "none" /\ s \in Sems /\ at[0] \in Own(w)
      /\ \E l \in Labels : <<l, o, s, at[0]>> \in Calls
      /\ value' = [value EXCEPT ![s] = n]
      /\ iff' = iff /\ UNCHANGED <<at, ret, ev, cur, ctx, cnt, reg>>
      /\ \/ pc' = [pc EXCEPT ![0] = "user"]
         \/ pc' = [pc EXCEPT ![0] = "yield"] /\ o = "wait"
      /\ \/ que' = que
         \/ que' = [que EXCEPT ![s] = sem_push(@, w)] /\ o = "wait"
         \/ que' = [que EXCEPT ![s] = Tail(@)] /\ que[s] # <<>>
  BY <1>1, CallDone DEF pcVars
<1> HIDE DEF s, o
<1>3. /\ pc'[0] \in {"user", "yield"} /\ (pc'[0] = "yield" => o = "wait")
      /\ \A r \in Sems : value'[r] = IF r = s THEN n ELSE value[r]
  BY <1>2
<1>4. /\ Pos(w) = at[0] /\ Pos(w)' = at[0] /\ Pending(w) /\ ~ Pending(w)'
      /\ \A t \in Workers \ {w} : Pos(t)' = Pos(t) /\ (Pending(t)' <=> Pending(t))
  BY <1>1, <1>2, <1>3 DEF Pos, Pending
<1>5. \/ o = "wait" /\ s = "empty" /\ at[0] = "p1"
      \/ o = "wait" /\ s = "full" /\ at[0] = "c1"
      \/ s = "mutex" /\ at[0] \in {"p2", "c2"} /\ o = "wait"
      \/ s = "mutex" /\ at[0] \in {"p5", "c5"} /\ o = "signal"
      \/ o = "signal" /\ s = "full" /\ at[0] = "p0"
      \/ o = "signal" /\ s = "empty" /\ at[0] = "c0"
  BY <1>2 DEF Calls
<1>6. CtxAt'
  BY <1>2 DEF PCInv, CtxAt, Rest, Workers
<1>7. CurAt'
  <2>1. o = "wait" => at[0] \in Rest(w)
    BY <1>2, <1>5 DEF Own, Rest
  <2>2. iff[0] => at[0] = Entry[w]
    BY <1>1, <1>2 DEF PCInv, CurAt
  <2> QED
    BY <1>1, <1>2, <1>3, <2>1, <2>2 DEF CurAt, Own, Rest, Workers
<1>8. Loaded'
  BY <1>2, <1>5 DEF Loaded
<1>9. QueAt'
  <2>1. ASSUME NEW r \in {"empty", "full"}, NEW i \in 1 .. Len(que'[r])
        PROVE  \/ \E j \in 1 .. Len(que[r]) : que'[r][i] = que[r][j]
               \/ que'[r][i] = w /\ r = s /\ o = "wait"
    <3>1. que[r] \in Seq(Tasks) /\ r \in Sems /\ w \in Tasks
      OBVIOUS
    <3>2. CASE que'[r] = que[r]
      BY <2>1, <3>2
    <3>3. CASE que'[r] = sem_push(que[r], w) /\ r = s /\ o = "wait"
      BY <2>1, <3>1, <3>3 DEF sem_push
    <3>4. CASE que'[r] = Tail(que[r]) /\ que[r] # <<>>
      <4>1. i + 1 \in 1 .. Len(que[r]) /\ que'[r][i] = que[r][i + 1]
        BY <2>1, <3>1, <3>4
      <4> QED
        BY <4>1
    <3> QED
      <4>1. CASE que' = que
        BY <3>2, <4>1
      <4>2. CASE que' = [que EXCEPT ![s] = sem_push(@, w)] /\ o = "wait"
        <5>1. IF r = s THEN que'[r] = sem_push(que[r], w) ELSE que'[r] = que[r]
          BY <3>1, <4>2
        <5> QED
          BY <3>2, <3>3, <4>2, <5>1
      <4>3. CASE que' = [que EXCEPT ![s] = Tail(@)] /\ que[s] # <<>>
        <5>1. IF r = s THEN que'[r] = Tail(que[r]) /\ que[r] # <<>> ELSE que'[r] = que[r]
          BY <3>1, <4>3
        <5> QED
          BY <3>2, <3>4, <5>1
      <4> QED
        BY <1>2, <4>1, <4>2, <4>3
  <2>2. ASSUME NEW r \in {"empty", "full"}, NEW j \in 1 .. Len(que[r])
        PROVE  que[r][j] \in Workers /\ Pos(que[r][j]) = IF r = "empty" THEN "p1" ELSE "c1"
    BY <2>2, Queued DEF PCInv, QueAt
  <2>3. ASSUME NEW r \in {"empty", "full"}, NEW j \in 1 .. Len(que[r])
        PROVE  que[r][j] # w
    <3>1. r \in Sems
      BY <2>3
    <3>2. cur[0] = que[r][j] => pc[0] \notin {"user", "spin", "body", "iret"}
      BY <2>3, <3>1, Queued
    <3> QED
      BY <1>1, <1>2, <3>2
  <2>4. ASSUME NEW r \in {"empty", "full"}, NEW i \in 1 .. Len(que'[r]), NEW t, t = que'[r][i]
        PROVE  Pos(t)' = IF r = "empty" THEN "p1" ELSE "c1"
    <3>1. CASE t = w /\ r = s /\ o = "wait"
      BY <1>4, <1>5, <2>4, <3>1
    <3>2. CASE \E j \in 1 .. Len(que[r]) : t = que[r][j]
      <4>1. t \in Workers \ {w} /\ Pos(t) = IF r = "empty" THEN "p1" ELSE "c1"
        BY <2>2, <2>3, <2>4, <3>2
      <4> QED
        BY <1>4, <4>1
    <3>3. \/ que'[r][i] = w /\ r = s /\ o = "wait"
          \/ \E j \in 1 .. Len(que[r]) : que'[r][i] = que[r][j]
      BY <2>1, <2>4
    <3> QED
      BY <2>4, <3>1, <3>2, <3>3
  <2> QED
    BY <2>4 DEF QueAt
<1>10. ASSUME NEW t \in Workers, t # w
       PROVE  (HasPlace(t)' <=> HasPlace(t)) /\ (HasItem(t)' <=> HasItem(t))
  BY <1>4, <1>10 DEF HasPlace, HasItem
<1>11. Accounts'
  <2> DEFINE e == value["empty"]
             f == value["full"]
             p == Cardinality(Places)
             q == Cardinality(Items)
  <2>0. /\ reg' \in [CPU' -> Int] /\ cnt' = cnt /\ maxk \in Nat
        /\ Balanced(e, f, p, q, cnt)
    BY <1>2 DEF PCInv, Accounts, OneCpuTest, CPU
  <2>a. /\ IsFiniteSet(Places) /\ Cardinality(Places) \in Nat
        /\ IsFiniteSet(Items) /\ Cardinality(Items) \in Nat
        /\ IsFiniteSet(Places') /\ Cardinality(Places') \in Nat
        /\ IsFiniteSet(Items') /\ Cardinality(Items') \in Nat
    BY FS_Subset, FS_CardinalityType DEF Places, Items, Workers
  <2>b. \A t : /\ t \in Places <=> t \in Workers /\ HasPlace(t)
               /\ t \in Items <=> t \in Workers /\ HasItem(t)
               /\ t \in Places' <=> t \in Workers /\ HasPlace(t)'
               /\ t \in Items' <=> t \in Workers /\ HasItem(t)'
    BY DEF Places, Items, Workers
  <2>c. \A t : t # w => (t \in Places <=> t \in Places') /\ (t \in Items <=> t \in Items')
    BY <1>10, <2>b, Zenon
  <2>d. Moved(Places, Places', w) /\ Moved(Items, Items', w)
    BY <2>a, <2>c, OneMoves
  <2>e. /\ Balanced(e - 1, f, p + 1, q, cnt) /\ Balanced(e + 1, f, p - 1, q, cnt)
        /\ Balanced(e, f - 1, p, q + 1, cnt) /\ Balanced(e, f + 1, p, q - 1, cnt)
    BY <2>0, Balance
  <2>1. CASE o = "wait" /\ s = "empty" /\ at[0] = "p1"
    <3>1. w \notin Places /\ w \in Places' /\ w \notin Items /\ w \notin Items'
      BY <1>4, <2>b, <2>1 DEF HasPlace, HasItem
    <3>2. Cardinality(Places') = Cardinality(Places) + 1 /\ Cardinality(Items') = Cardinality(Items)
      BY <2>d, <3>1, Zenon DEF Moved
    <3>3. value'["empty"] = value["empty"] - 1 /\ value'["full"] = value["full"]
      BY <1>3, <2>1
    <3>4. Balanced(value'["empty"], value'["full"], Cardinality(Places'), Cardinality(Items'), cnt')
      BY <2>0, <2>e, <3>2, <3>3
    <3> QED
      BY <2>0, <3>4 DEF Accounts
  <2>2. CASE o = "wait" /\ s = "full" /\ at[0] = "c1"
    <3>1. w \notin Places /\ w \notin Places' /\ w \notin Items /\ w \in Items'
      BY <1>4, <2>b, <2>2 DEF HasPlace, HasItem
    <3>2. Cardinality(Places') = Cardinality(Places) /\ Cardinality(Items') = Cardinality(Items) + 1
      BY <2>d, <3>1, Zenon DEF Moved
    <3>3. value'["empty"] = value["empty"] /\ value'["full"] = value["full"] - 1
      BY <1>3, <2>2
    <3>4. Balanced(value'["empty"], value'["full"], Cardinality(Places'), Cardinality(Items'), cnt')
      BY <2>0, <2>e, <3>2, <3>3
    <3> QED
      BY <2>0, <3>4 DEF Accounts
  <2>3. CASE s = "mutex" /\ at[0] \in {"p2", "c2", "p5", "c5"}
    <3>1. (w \in Places' <=> w \in Places) /\ (w \in Items' <=> w \in Items)
      BY <1>4, <2>b, <2>3 DEF HasPlace, HasItem
    <3>2. Cardinality(Places') = Cardinality(Places) /\ Cardinality(Items') = Cardinality(Items)
      BY <2>d, <3>1, Zenon DEF Moved
    <3>3. value'["empty"] = value["empty"] /\ value'["full"] = value["full"]
      BY <1>3, <2>3
    <3>4. Balanced(value'["empty"], value'["full"], Cardinality(Places'), Cardinality(Items'), cnt')
      BY <2>0, <2>e, <3>2, <3>3
    <3> QED
      BY <2>0, <3>4 DEF Accounts
  <2>4. CASE o = "signal" /\ s = "full" /\ at[0] = "p0"
    <3>1. w \notin Places /\ w \notin Places' /\ w \in Items /\ w \notin Items'
      BY <1>4, <2>b, <2>4 DEF HasPlace, HasItem
    <3>2. Cardinality(Places') = Cardinality(Places) /\ Cardinality(Items) = Cardinality(Items') + 1
      BY <2>d, <3>1, Zenon DEF Moved
    <3>3. value'["empty"] = value["empty"] /\ value'["full"] = value["full"] + 1
      BY <1>3, <2>4
    <3>4. Cardinality(Items') = Cardinality(Items) - 1
      BY <2>a, <3>2
    <3>5. Balanced(value'["empty"], value'["full"], Cardinality(Places'), Cardinality(Items'), cnt')
      BY <2>0, <2>e, <3>2, <3>3, <3>4
    <3> QED
      BY <2>0, <3>5 DEF Accounts
  <2>5. CASE o = "signal" /\ s = "empty" /\ at[0] = "c0"
    <3>1. w \in Places /\ w \notin Places' /\ w \notin Items /\ w \notin Items'
      BY <1>4, <2>b, <2>5 DEF HasPlace, HasItem
    <3>2. Cardinality(Places) = Cardinality(Places') + 1 /\ Cardinality(Items') = Cardinality(Items)
      BY <2>d, <3>1, Zenon DEF Moved
    <3>3. value'["empty"] = value["empty"] + 1 /\ value'["full"] = value["full"]
      BY <1>3, <2>5
    <3>4. Cardinality(Places') = Cardinality(Places) - 1
      BY <2>a, <3>2
    <3>5. Balanced(value'["empty"], value'["full"], Cardinality(Places'), Cardinality(Items'), cnt')
      BY <2>0, <2>e, <3>2, <3>3, <3>4
    <3> QED
      BY <2>0, <3>5 DEF Accounts
  <2> QED
    BY <1>5, <2>1, <2>2, <2>3, <2>4, <2>5
<1> QED
  BY <1>2, <1>6, <1>7, <1>8, <1>9, <1>11 DEF PCInv
\* The load and the store: on one CPU nothing comes between them, and the store
\* turns a place into an item or an item into a place.
LEMMA CountAt ==
  ASSUME OneCpuTest, UInv, PCInv, TaskLocal(0), Count(0)
  PROVE  PCInv'
<1> USE OneCpu, TestConstants DEF InCall
<1>0. pc[0] = "user" /\ cur[0] \in Tasks /\ Local[at[0]] # {}
  BY CurrentWorker DEF TaskLocal
<1>1. PICK w \in Workers : w = cur[0]
  BY <1>0, CurrentWorker
<1>2. PICK m \in Local[at[0]] : at' = [at EXCEPT ![0] = m]
  BY DEF TaskLocal
<1>3. /\ UNCHANGED <<pc, iff, call, ret, ev, cur, ctx, value, que>>
      /\ at'[0] = m
  BY <1>2 DEF TaskLocal, taskVars, semVars
<1>4. <<at[0], m>> \in {<<"p2", "p3">>, <<"p3", "p4">>, <<"c2", "c3">>, <<"c3", "c4">>}
  BY <1>2, LocalMoves
<1>5. /\ Pos(w) = at[0] /\ Pos(w)' = m /\ ~ Pending(w) /\ ~ Pending(w)'
      /\ \A t \in Workers \ {w} : Pos(t)' = Pos(t) /\ (Pending(t)' <=> Pending(t))
  BY <1>0, <1>1, <1>3 DEF Pos, Pending
<1>6. at[0] \in Own(w) /\ (iff[0] => at[0] = Entry[w])
  BY <1>0, <1>1 DEF PCInv, CurAt
<1>7. CtxAt'
  BY <1>3 DEF PCInv, CtxAt, Rest, Workers
<1>8. CurAt'
  <2>1. m \in Own(w) /\ ~ iff[0]
    BY <1>4, <1>6 DEF Own
  <2> QED
    BY <1>0, <1>1, <1>3, <2>1 DEF CurAt, Own, Workers
<1>9. QueAt'
  <2>1. ASSUME NEW r \in {"empty", "full"}, NEW i \in 1 .. Len(que[r])
        PROVE  que[r][i] \in Workers \ {w}
    BY <1>0, <1>1, <2>1, Queued
  <2> QED
    BY <1>3, <1>5, <2>1 DEF PCInv, QueAt
<1> DEFINE e == value["empty"]
           f == value["full"]
           p == Cardinality(Places)
           q == Cardinality(Items)
<1>10. /\ cnt \in Int /\ reg \in [CPU -> Int] /\ CPU = {0} /\ maxk \in Nat
       /\ Balanced(e, f, p, q, cnt)
  BY DEF PCInv, Accounts, Balanced, OneCpuTest
<1>11. /\ at[0] \in {"p2", "c2"} => cnt' = cnt /\ reg' = [reg EXCEPT ![0] = cnt]
       /\ at[0] = "p3" => cnt' = cnt + 1 /\ reg' = reg
       /\ at[0] = "c3" => cnt' = cnt - 1 /\ reg' = reg
  BY <1>0, <1>1 DEF Count, PCInv, Loaded
<1>12. reg' \in [CPU -> Int] /\ cnt' \in Int /\ (m \in {"p3", "c3"} => reg'[0] = cnt')
  BY <1>4, <1>10, <1>11
<1>13. Loaded'
  BY <1>3, <1>12 DEF Loaded
<1>a. /\ IsFiniteSet(Places) /\ Cardinality(Places) \in Nat
      /\ IsFiniteSet(Items) /\ Cardinality(Items) \in Nat
      /\ IsFiniteSet(Places') /\ Cardinality(Places') \in Nat
      /\ IsFiniteSet(Items') /\ Cardinality(Items') \in Nat
  BY FS_Subset, FS_CardinalityType DEF Places, Items, Workers
<1>b. \A t : /\ t \in Places <=> t \in Workers /\ HasPlace(t)
             /\ t \in Items <=> t \in Workers /\ HasItem(t)
             /\ t \in Places' <=> t \in Workers /\ HasPlace(t)'
             /\ t \in Items' <=> t \in Workers /\ HasItem(t)'
  BY DEF Places, Items, Workers
<1>c. ASSUME NEW t \in Workers, t # w
      PROVE  (HasPlace(t)' <=> HasPlace(t)) /\ (HasItem(t)' <=> HasItem(t))
  BY <1>5, <1>c DEF HasPlace, HasItem
<1>d. \A t : t # w => (t \in Places <=> t \in Places') /\ (t \in Items <=> t \in Items')
  BY <1>b, <1>c, Zenon
<1>e. Moved(Places, Places', w) /\ Moved(Items, Items', w)
  BY <1>a, <1>d, OneMoves
<1>f. Balanced(e, f, p - 1, q + 1, cnt + 1) /\ Balanced(e, f, p + 1, q - 1, cnt - 1)
  BY <1>10, Balance
<1>14. Accounts'
  <2>1. CASE at[0] \in {"p2", "c2"}
    <3>1. (w \in Places <=> w \in Places') /\ (w \in Items <=> w \in Items')
      BY <1>4, <1>5, <1>b, <2>1 DEF HasPlace, HasItem
    <3>2. Cardinality(Places') = Cardinality(Places) /\ Cardinality(Items') = Cardinality(Items)
      BY <1>e, <3>1, Zenon DEF Moved
    <3> QED
      BY <1>3, <1>10, <1>11, <1>12, <2>1, <3>2 DEF Accounts, CPU
  <2>2. CASE at[0] = "p3"
    <3>1. w \in Places /\ w \notin Places' /\ w \notin Items /\ w \in Items'
      BY <1>4, <1>5, <1>b, <2>2 DEF HasPlace, HasItem
    <3>2. Cardinality(Places) = Cardinality(Places') + 1
          /\ Cardinality(Items') = Cardinality(Items) + 1
      BY <1>e, <3>1, Zenon DEF Moved
    <3>3. Cardinality(Places') = Cardinality(Places) - 1
      BY <1>a, <3>2
    <3>4. value' = value /\ cnt' = cnt + 1
      BY <1>3, <1>11, <2>2
    <3>5. Balanced(e, f, Cardinality(Places'), Cardinality(Items'), cnt')
      BY <1>f, <3>2, <3>3, <3>4
    <3> QED
      BY <1>12, <3>4, <3>5 DEF Accounts, CPU
  <2>3. CASE at[0] = "c3"
    <3>1. w \notin Places /\ w \in Places' /\ w \in Items /\ w \notin Items'
      BY <1>4, <1>5, <1>b, <2>3 DEF HasPlace, HasItem
    <3>2. Cardinality(Places') = Cardinality(Places) + 1
          /\ Cardinality(Items) = Cardinality(Items') + 1
      BY <1>e, <3>1, Zenon DEF Moved
    <3>3. Cardinality(Items') = Cardinality(Items) - 1
      BY <1>a, <3>2
    <3>4. value' = value /\ cnt' = cnt - 1
      BY <1>3, <1>11, <2>3
    <3>5. Balanced(e, f, Cardinality(Places'), Cardinality(Items'), cnt')
      BY <1>f, <3>2, <3>3, <3>4
    <3> QED
      BY <1>12, <3>4, <3>5 DEF Accounts, CPU
  <2> QED
    BY <1>4, <2>1, <2>2, <2>3
<1> QED
  BY <1>3, <1>7, <1>8, <1>9, <1>13, <1>14 DEF PCInv

\* Nobody is in the middle of anything after boot.
LEMMA PCInitInv == ASSUME OneCpuTest, PCInit PROVE PCInv
<1> USE TestConstants DEF PCInit, Init
<1>1. /\ cur[0] = NoTask /\ ev[0] = "none" /\ NoTask \notin Workers /\ cnt = 0
      /\ reg \in [CPU -> Int]
  OBVIOUS
<1>2. \A t \in Workers : ctx[t].at = Entry[t] /\ t # NoTask
  OBVIOUS
<1>3. \A t \in Workers : ~ HasPlace(t) /\ ~ HasItem(t)
  BY <1>1, <1>2 DEF HasPlace, HasItem, Pos, Pending
<1>4. Cardinality(Places) = 0 /\ Cardinality(Items) = 0
  <2>1. Places = {} /\ Items = {}
    BY <1>3 DEF Places, Items
  <2> QED
    BY <2>1, FS_EmptySet
<1>5. value["empty"] = maxk /\ value["full"] = 0 /\ que["empty"] = <<>> /\ que["full"] = <<>>
  BY DEF OneCpuTest, PCInitVal
<1>6. Accounts
  BY <1>1, <1>4, <1>5 DEF Accounts, Balanced, OneCpuTest
<1>7. CtxAt
  BY <1>2 DEF CtxAt, Rest
<1> QED
  BY <1>1, <1>5, <1>6, <1>7 DEF PCInv, CurAt, QueAt, Loaded

\* A step of the test is a step of the kernel.
LEMMA PCNextIsNext == ASSUME OneCpuTest, [PCNext]_allVars PROVE [Next]_vars
BY DEF PCNext, Next, CpuStep, allVars, vars

\* The tasks queued on a semaphore are no more than a set they all belong to has.
LEMMA QueuedCount ==
  ASSUME OneCpuTest, UInv, NEW s \in Sems, NEW S, IsFiniteSet(S),
         \A i \in 1 .. Len(que[s]) : que[s][i] \in S
  PROVE  value[s] + Cardinality(S) >= 0
<1> DEFINE n == Len(que[s])
           f == [i \in 1 .. n |-> que[s][i]]
<1>1. n \in Nat /\ value[s] \in Int /\ n = Neg(value[s])
  BY OneCpu DEF UInv, QueInv
<1>2. f \in Injection(1 .. n, S)
  BY DEF UInv, QueInv, Injection, IsInjective
<1>3. IsFiniteSet(1 .. n) /\ Cardinality(1 .. n) = n
  BY <1>1, FS_Interval
<1> HIDE DEF f, n
<1>4. Cardinality(1 .. n) <= Cardinality(S) /\ Cardinality(S) \in Nat
  BY <1>2, <1>3, FS_Injection, FS_CardinalityType
<1> QED
  BY <1>1, <1>3, <1>4 DEF Neg

\* The counter stays within the buffer (main.c:17, 28) on one CPU, for every size
\* of the buffer, every number of producers and consumers and every schedule.
THEOREM CounterInBuffer == ASSUME OneCpuTest PROVE PCSpec => []CntBounded
<1>1. PCInit => Init
  BY DEF PCInit
<1>2. [PCNext]_allVars => [Next]_vars
  BY PCNextIsNext
<1>3. PCSpec => Spec
  BY <1>1, <1>2, PTL DEF PCSpec, Spec
<1>4. PCSpec => []UInv
  BY <1>3, UpInvariance, PTL DEF OneCpuTest
<1>5. PCInit => PCInv
  BY PCInitInv
<1>6. UInv /\ UInv' /\ PCInv /\ [PCNext]_allVars => PCInv'
  <2> SUFFICES ASSUME UInv, UInv', PCInv, [PCNext]_allVars PROVE PCInv'
    OBVIOUS
  <2>0. machine' = "up" /\ CPU = {0}
    BY TestConstants DEF UInv
  <2>1. CASE UNCHANGED allVars
    <3>1. UNCHANGED <<pc, at, iff, call, ret, ev, cur, ctx, value, que, cnt, reg>>
      BY <2>1 DEF allVars, vars
    <3>2. \A t \in Workers : Pos(t)' = Pos(t) /\ (Pending(t)' <=> Pending(t))
      BY <3>1 DEF Pos, Pending, InCall
    <3>3. QueAt' /\ Accounts'
      BY <3>1, <3>2, NobodyMoves
    <3> QED
      BY <3>1, <3>3 DEF PCInv, CtxAt, CurAt, Loaded, Own, Rest, Workers, InCall
  <2>2. CASE TaskLocal(0) /\ Count(0)
    BY <2>2, CountAt
  <2>3. CASE Timer(0) /\ UNCHANGED pcVars
    <3>1. iff[0] /\ Enter(0, "timer", pc[0])
      BY <2>3 DEF Timer
    <3> QED
      BY <2>3, <3>1, CurrentWorker, EnterAt
  <2>4. CASE KernelStep(0) /\ UNCHANGED pcVars
    <3>1. CASE Yield(0)
      <4>1. pc[0] = "yield" /\ Enter(0, "yield", "user")
        BY <3>1 DEF Yield
      <4> QED
        BY <2>4, <4>1, EnterAt
    <3>2. CASE Smash(0)
      BY <2>0, <3>2 DEF Smash
    <3> QED
      BY <2>0, <2>4, <3>1, <3>2, TaskCallAt, SpinAcquireAt, SemAt, os_trapAt,
         SaveContextAt, ScanAt, ResumeAt DEF KernelStep
  <2> QED
    BY <2>0, <2>1, <2>2, <2>3, <2>4 DEF PCNext
<1>7. UInv /\ PCInv => CntBounded
  <2> SUFFICES ASSUME UInv, PCInv PROVE CntBounded
    OBVIOUS
  <2> USE TestConstants
  <2>1. \A i \in 1 .. Len(que["empty"]) : que["empty"][i] \in Places
    BY Queued DEF PCInv, QueAt, Places, HasPlace
  <2>2. \A i \in 1 .. Len(que["full"]) : que["full"][i] \in Items
    BY Queued DEF PCInv, QueAt, Items, HasItem
  <2>3. value["empty"] + Cardinality(Places) >= 0 /\ value["full"] + Cardinality(Items) >= 0
    BY <2>1, <2>2, QueuedCount, HandsFinite
  <2>4. /\ cnt \in Int /\ maxk \in Nat
        /\ value["empty"] + Cardinality(Places) + cnt = maxk
        /\ value["full"] + Cardinality(Items) = cnt
        /\ value["empty"] \in Int /\ value["full"] \in Int
        /\ Cardinality(Places) \in Nat /\ Cardinality(Items) \in Nat
    BY OneCpu, HandsFinite DEF PCInv, Accounts, Balanced, OneCpuTest
  <2> QED
    BY <2>3, <2>4 DEF CntBounded
<1> QED
  BY <1>4, <1>5, <1>6, <1>7, PTL DEF PCSpec

\* The test as main.c sets it up, two producers and two consumers, is an instance.
LEMMA TwoAndTwo ==
  ASSUME NCPU = 1, NTASK = 5, maxk \in Nat, Sems = PCSems, InitVal = PCInitVal,
         Labels = PCLabels, Prog = PCProg, Local = PCLocal, Entry = PCEntry
  PROVE  OneCpuTest
<1>1. ASSUME NEW t \in Tasks
      PROVE  IF t < NCPU THEN Entry[t] = "idle" ELSE Entry[t] \in {"p0", "c0"}
  <2>1. t \in {0, 1, 2, 3, 4} /\ t - NCPU + 1 = t
    BY DEF Tasks
  <2>2. Entry[t] = IF t < NCPU THEN "idle" ELSE <<"p0", "p0", "c0", "c0">>[t - NCPU + 1]
    BY DEF PCEntry
  <2> QED
    BY <2>1, <2>2
<1> QED
  BY <1>1 DEF OneCpuTest
=============================================================================
