-------------------------------- MODULE Kmt --------------------------------
(***************************************************************************)
(* Kernel multithreading of os-workbench/kernel: the trap entry (os.c),    *)
(* the round-robin scheduler, the spinlocks and the semaphores             *)
(* (kthreads.c, kthreads.h), on NCPU processors that interleave freely.    *)
(*                                                                         *)
(* A task is its index in tasks[]; the idle tasks wait[i] created by       *)
(* kmt_create_wait are 0..NCPU-1.  What a task computes is abstracted to a *)
(* program over labels: Prog[l] are the semaphore calls it can make at     *)
(* label l and Local[l] the labels it can move to on its own.              *)
(*                                                                         *)
(* Grain.  A semaphore call is three steps: the call with its pushcli, the *)
(* successful xchg, and the critical section with its unlock and popcli.   *)
(* The critical section is one step because value and que are only touched *)
(* under the lock and it writes one other shared word, the state of one    *)
(* task.  pushcli and popcli touch this processor's ncli and intena only.  *)
(* A trap is: entry, taking current_tasks_mutex, [input_notify's           *)
(* sem_signal,] save and demote, one step per index scanned (the last one  *)
(* with the switch and the release of the mutex), and the iret.            *)
(***************************************************************************)
EXTENDS Integers, Sequences, FiniteSets

CONSTANTS
  NCPU,      \* _ncpu()
  NTASK,     \* tasks_size once os_init has created every task
  MAX_TASK,  \* slots of tasks[] and of a semaphore's que[]
  Sems,      \* the semaphores
  InitVal,   \* value given to kmt_sem_init
  Labels,    \* program points of the tasks
  Entry,     \* entry point of each task
  Prog,      \* semaphore calls a task may make at a label
  Local,     \* labels a task may move to without a call
  KbdSem,    \* sem_kbdirq
  KbdLimit   \* bound: keyboard interrupts considered

CPU   == 0 .. NCPU - 1
Tasks == 0 .. NTASK - 1
Idle  == 0 .. NCPU - 1
Call  == [op : {"wait", "signal"}, sem : Sems]
Instr == [op : {"wait", "signal"}, sem : Sems, next : Labels]
Ctx   == [pc : {"user", "yield"}, at : Labels, iff : BOOLEAN]

NONE_CPU == -1
NoTask   == -1
NoCall   == [op |-> "none"]

\* The idle task `while (1);` makes no call; there is one idle task per CPU.
ASSUME KmtConstants ==
  /\ NCPU \in Nat \ {0}
  /\ NTASK \in Nat /\ NTASK >= NCPU
  /\ MAX_TASK \in Nat /\ NTASK <= MAX_TASK
  /\ InitVal \in [Sems -> Nat]
  /\ Entry \in [Tasks -> Labels]
  /\ Prog \in [Labels -> SUBSET Instr]
  /\ Local \in [Labels -> SUBSET Labels]
  /\ \A t \in Idle : Prog[Entry[t]] = {} /\ Local[Entry[t]] = {}
  /\ KbdSem \in Sems
  /\ KbdLimit \in Nat

VARIABLES
  machine,    \* "up", "halted" by _halt, or "undefined": two CPUs wreck a stack
  pc,         \* phase of each CPU
  at,         \* program point of the task the CPU runs
  iff,        \* EFLAGS.IF of the CPU
  call,       \* the semaphore call in progress on the CPU
  ret,        \* the trap frame: phase and IF the trap interrupted
  ev,         \* event of the trap in progress
  scan,       \* idx of the scheduler's loop
  stk,        \* whose stack the CPU stands on
  ncli, intena,
  cur,        \* current_tasks
  ctm,        \* current_tasks_mutex, by holder
  state,      \* task->state
  ctx,        \* task->ctx
  cpu_number, \* procs[..].cpu_number of the task's proc entry
  lk,         \* sem->lk, by holder
  value,      \* sem->value
  que,        \* sem->que from head to tail
  nirq        \* keyboard interrupts so far

cpuVars  == <<pc, at, iff, call, ret, ev, scan, stk, ncli, intena>>
taskVars == <<cur, ctm, state, ctx, cpu_number>>
semVars  == <<lk, value, que>>
vars == <<machine, pc, at, iff, call, ret, ev, scan, stk, ncli, intena,
          cur, ctm, state, ctx, cpu_number, lk, value, que, nirq>>

(***************************************************************************)
(* Boot: os_init has run on one CPU, create and sem_init included, and     *)
(* every CPU is in os_run, interrupts on, on its boot stack, about to      *)
(* _yield.                                                                 *)
(***************************************************************************)
Init ==
  /\ machine = "up"
  /\ pc = [c \in CPU |-> "yield"]
  /\ at = [c \in CPU |-> Entry[c]]
  /\ iff = [c \in CPU |-> TRUE]
  /\ call = [c \in CPU |-> NoCall]
  /\ ret = [c \in CPU |-> [pc |-> "user", iff |-> TRUE]]
  /\ ev = [c \in CPU |-> "none"]
  /\ scan = [c \in CPU |-> 0]
  /\ stk = [c \in CPU |-> NoTask]
  /\ ncli = [c \in CPU |-> 0]
  /\ intena = [c \in CPU |-> FALSE]
  /\ cur = [c \in CPU |-> NoTask]
  /\ ctm = NONE_CPU
  /\ state = [t \in Tasks |-> "STARTED"]
  /\ ctx = [t \in Tasks |-> [pc |-> "user", at |-> Entry[t], iff |-> TRUE]]
  /\ cpu_number = [t \in Tasks |-> NONE_CPU]
  /\ lk = [s \in Sems |-> NONE_CPU]
  /\ value = InitVal
  /\ que = [s \in Sems |-> <<>>]
  /\ nirq = 0

(***************************************************************************)
(* Interrupt management: pushcli reads EFLAGS after cli() has cleared IF.  *)
(* Definitions named Bug... are mutations of the one that follows: a       *)
(* property that none of them breaks would say nothing of the code.        *)
(***************************************************************************)
BugPushcliNoCli(c) ==
  /\ ncli' = [ncli EXCEPT ![c] = @ + 1]
  /\ intena' = [intena EXCEPT ![c] = iff[c]]
  /\ UNCHANGED iff

pushcli(c) ==
  /\ iff' = [iff EXCEPT ![c] = FALSE]
  /\ intena' = [intena EXCEPT ![c] = IF ncli[c] = 0 THEN iff'[c] ELSE @]
  /\ ncli' = [ncli EXCEPT ![c] = @ + 1]

BugPopcliNoDecrement(c) == UNCHANGED <<ncli, iff, intena>>

popcli(c) ==
  /\ ncli' = [ncli EXCEPT ![c] = @ - 1]
  /\ iff' = IF ncli'[c] = 0 /\ intena[c]
            THEN [iff EXCEPT ![c] = TRUE] ELSE iff
  /\ UNCHANGED intena

(***************************************************************************)
(* Spinlocks.  A failed xchg changes nothing: the CPU stays in "spin".     *)
(***************************************************************************)
kmt_spin_lock(c, k) ==
  /\ pushcli(c)
  /\ pc' = [pc EXCEPT ![c] = "spin"]
  /\ call' = [call EXCEPT ![c] = k]

SpinAcquire(c) ==
  /\ pc[c] = "spin"
  /\ lk[call[c].sem] = NONE_CPU
  /\ lk' = [lk EXCEPT ![call[c].sem] = c]
  /\ pc' = [pc EXCEPT ![c] = "body"]
  /\ UNCHANGED <<machine, at, iff, call, ret, ev, scan, stk, ncli, intena,
                 taskVars, value, que, nirq>>

\* Release, popcli and go on at phase next.
kmt_spin_unlock(c, next) ==
  /\ lk' = [lk EXCEPT ![call[c].sem] = NONE_CPU]
  /\ popcli(c)
  /\ pc' = [pc EXCEPT ![c] = next]
  /\ call' = [call EXCEPT ![c] = NoCall]

(***************************************************************************)
(* Semaphores.  que[s] is the ring from head to tail.  A push that fills   *)
(* the ring makes tail = head, which is how an empty ring looks.           *)
(***************************************************************************)
sem_push(q, t) == IF Len(q) + 1 = MAX_TASK THEN <<>> ELSE Append(q, t)

\* A call from trap context returns to the handler loop of os_trap.
Return(c) == IF ev[c] = "none" THEN "user" ELSE "save"

BugMustSleepAtZero(v) == v <= 0

MustSleep(v) == v < 0

BugMustWakeAtOne(v) == v <= 1

BugMustWakeNever(v) == FALSE

MustWake(v) == v <= 0

sleep(c, s) ==
  /\ state' = [state EXCEPT ![cur[c]] = "YIELD"]
  /\ que' = [que EXCEPT ![s] = sem_push(@, cur[c])]
  /\ kmt_spin_unlock(c, "yield")
  /\ UNCHANGED machine

wakeup(c, s) ==
  \/ /\ que[s] = <<>>
     /\ machine' = "halted"
     /\ UNCHANGED <<state, que, lk, iff, ncli, intena, pc, call>>
  \/ /\ que[s] # <<>>
     /\ state' = [state EXCEPT ![Head(que[s])] = "RUNNABLE"]
     /\ que' = [que EXCEPT ![s] = Tail(@)]
     /\ kmt_spin_unlock(c, Return(c))
     /\ UNCHANGED machine

\* The critical section is left at once, with neither a sleep nor a wakeup.
Leave(c) == kmt_spin_unlock(c, Return(c)) /\ UNCHANGED <<machine, state, que>>

kmt_sem_wait(c) ==
  /\ pc[c] = "body" /\ call[c].op = "wait"
  /\ LET s == call[c].sem IN
       /\ value' = [value EXCEPT ![s] = @ - 1]
       /\ IF MustSleep(value[s] - 1) THEN sleep(c, s) ELSE Leave(c)
  /\ UNCHANGED <<at, ret, ev, scan, stk, cur, ctm, ctx, cpu_number, nirq>>

kmt_sem_signal(c) ==
  /\ pc[c] = "body" /\ call[c].op = "signal"
  /\ LET s == call[c].sem IN
       /\ value' = [value EXCEPT ![s] = @ + 1]
       /\ IF MustWake(value[s] + 1) THEN wakeup(c, s) ELSE Leave(c)
  /\ UNCHANGED <<at, ret, ev, scan, stk, cur, ctm, ctx, cpu_number, nirq>>

(***************************************************************************)
(* Tasks.                                                                  *)
(***************************************************************************)
TaskCall(c) ==
  /\ pc[c] = "user"
  /\ \E i \in Prog[at[c]] :
       /\ kmt_spin_lock(c, [op |-> i.op, sem |-> i.sem])
       /\ at' = [at EXCEPT ![c] = i.next]
  /\ UNCHANGED <<machine, ret, ev, scan, stk, taskVars, semVars, nirq>>

TaskLocal(c) ==
  /\ pc[c] = "user"
  /\ \E l \in Local[at[c]] : at' = [at EXCEPT ![c] = l]
  /\ UNCHANGED <<machine, pc, iff, call, ret, ev, scan, stk, ncli, intena,
                 taskVars, semVars, nirq>>

(***************************************************************************)
(* Traps.  The entry stubs run cli; irq_handle builds the context from the *)
(* trap frame.  Interrupts are taken only with IF set.                     *)
(***************************************************************************)
Enter(c, e, resume) ==
  /\ ret' = [ret EXCEPT ![c] = [pc |-> resume, iff |-> iff[c]]]
  /\ iff' = [iff EXCEPT ![c] = FALSE]
  /\ ev' = [ev EXCEPT ![c] = e]
  /\ pc' = [pc EXCEPT ![c] = "trap"]
  /\ UNCHANGED <<machine, at, call, scan, stk, ncli, intena, taskVars, semVars>>

\* _yield(): int $0x80, which IF does not mask; the frame points behind it, where
\* sleep and with it sem_wait return.  An interrupt's frame points where it hit.
Yield(c) == pc[c] = "yield" /\ Enter(c, "yield", "user") /\ UNCHANGED nirq

Timer(c) == iff[c] /\ Enter(c, "timer", pc[c]) /\ UNCHANGED nirq

\* The I/O APIC routes the keyboard to CPU 0.
Keyboard ==
  /\ iff[0] /\ nirq < KbdLimit
  /\ Enter(0, "kbd", pc[0])
  /\ nirq' = nirq + 1

(***************************************************************************)
(* os_trap: take current_tasks_mutex, then call the handlers in seq order: *)
(* input_notify (seq 0, keyboard only) before the scheduler (INT32_MAX).   *)
(***************************************************************************)
os_trap(c) ==
  /\ pc[c] = "trap" /\ ctm = NONE_CPU
  /\ ctm' = c
  /\ \/ /\ ev[c] = "kbd"
        /\ kmt_spin_lock(c, [op |-> "signal", sem |-> KbdSem])
     \/ /\ ev[c] # "kbd"
        /\ pc' = [pc EXCEPT ![c] = "save"]
        /\ UNCHANGED <<iff, ncli, intena, call>>
  /\ UNCHANGED <<machine, at, ret, ev, scan, stk, cur, state, ctx, cpu_number,
                 semVars, nirq>>

BugNeverDemoted(s) == s

BugAlwaysDemoted(s) == "RUNNABLE"

\* Only a task that did not go to sleep is put back among the runnable ones.
Demoted(s) == IF s = "RUNNING" THEN "RUNNABLE" ELSE s

FirstIdx(c) == IF cur[c] = NoTask THEN 0 ELSE cur[c]

\* kmt_context_save_switch up to the loop.
SaveContext(c) ==
  /\ pc[c] = "save"
  /\ IF cur[c] = NoTask
     THEN UNCHANGED <<ctx, state>>
     ELSE /\ ctx' = [ctx EXCEPT ![cur[c]] =
                       [pc |-> ret[c].pc, at |-> at[c], iff |-> ret[c].iff]]
          /\ state' = [state EXCEPT ![cur[c]] = Demoted(@)]
  /\ scan' = [scan EXCEPT ![c] = FirstIdx(c)]
  /\ pc' = [pc EXCEPT ![c] = "scan"]
  /\ UNCHANGED <<machine, at, iff, call, ret, ev, stk, ncli, intena, cur, ctm,
                 cpu_number, semVars, nirq>>

BugNextIdx(c) == (scan[c] + 1) % (NTASK - 1)

NextIdx(c) == (scan[c] + 1) % NTASK

Ready(t) == state[t] \in {"STARTED", "RUNNABLE"}

ScanSkip(c) ==
  /\ pc[c] = "scan" /\ ~ Ready(NextIdx(c))
  /\ scan' = [scan EXCEPT ![c] = NextIdx(c)]
  /\ UNCHANGED <<machine, pc, at, iff, call, ret, ev, stk, ncli, intena,
                 taskVars, semVars, nirq>>

BugProcfsKeepsOld(c, old, new) == cpu_number' = [cpu_number EXCEPT ![new] = c]

\* The old task's cpu_number is reset before the new one's is set: they may be
\* the same task.
procfs_schdule(c, old, new) ==
  cpu_number' = [t \in Tasks |-> IF t = new THEN c
                                 ELSE IF t = old THEN NONE_CPU
                                 ELSE cpu_number[t]]

\* The loop ends, the switch is made and os_trap releases the mutex.  Between the
\* assignments another CPU may read /proc and find the old numbers: one step here,
\* since the mutex keeps every other switch out of it.
Switch(c) ==
  /\ pc[c] = "scan" /\ Ready(NextIdx(c))
  /\ LET t == NextIdx(c) IN
       /\ cur' = [cur EXCEPT ![c] = t]
       /\ state' = [state EXCEPT ![t] = "RUNNING"]
       /\ procfs_schdule(c, cur[c], t)
  /\ ctm' = NONE_CPU
  /\ scan' = [scan EXCEPT ![c] = 0]
  /\ pc' = [pc EXCEPT ![c] = "iret"]
  /\ UNCHANGED <<machine, at, iff, call, ret, ev, stk, ncli, intena, ctx,
                 semVars, nirq>>

(***************************************************************************)
(* The return: registers are loaded from the chosen task's ctx, after the  *)
(* mutex was released, and esp moves to that task's stack.  A CPU that     *)
(* has chosen another task and still executes the tail of irq_handle on    *)
(* this stack may or may not be hit; one that is to go on using the stack  *)
(* is.                                                                     *)
(***************************************************************************)
Sharers(c)   == {d \in CPU \ {c} : stk[d] = cur[c]}
Leaving(d)   == pc[d] = "iret" /\ cur[d] # stk[d]

Resume(c) ==
  LET t == cur[c] IN
  /\ pc[c] = "iret"
  /\ \A d \in Sharers(c) : Leaving(d)
  /\ pc' = [pc EXCEPT ![c] = ctx[t].pc]
  /\ at' = [at EXCEPT ![c] = ctx[t].at]
  /\ iff' = [iff EXCEPT ![c] = ctx[t].iff]
  /\ stk' = [stk EXCEPT ![c] = t]
  /\ ev' = [ev EXCEPT ![c] = "none"]
  /\ ret' = [ret EXCEPT ![c] = [pc |-> "user", iff |-> TRUE]]
  /\ UNCHANGED <<machine, call, scan, ncli, intena, taskVars, semVars, nirq>>

Smash(c) ==
  /\ pc[c] = "iret"
  /\ Sharers(c) # {}
  /\ machine' = "undefined"
  /\ UNCHANGED <<cpuVars, taskVars, semVars, nirq>>

(***************************************************************************)
KernelStep(c) ==
  \/ TaskCall(c)
  \/ SpinAcquire(c) \/ kmt_sem_wait(c) \/ kmt_sem_signal(c)
  \/ Yield(c)       \/ os_trap(c)      \/ SaveContext(c)
  \/ ScanSkip(c)    \/ Switch(c)       \/ Resume(c)  \/ Smash(c)

CpuStep(c) == KernelStep(c) \/ TaskLocal(c)

Up == machine = "up"

\* After _halt, or once a stack is wrecked, nothing more is said.
Stopped == ~ Up /\ UNCHANGED vars

Next ==
  \/ Up /\ \E c \in CPU : CpuStep(c)
  \/ Up /\ \E c \in CPU : Timer(c)
  \/ Up /\ Keyboard
  \/ Stopped

Spec == Init /\ [][Next]_vars

\* Each CPU goes on executing, its local APIC timer keeps firing, and a quantum
\* is long enough for a dispatched task to get its next call under way: no task
\* is for ever interrupted at its first instruction.
Fairness ==
  \A c \in CPU :
    /\ WF_vars(Up /\ CpuStep(c))
    /\ WF_vars(Up /\ Timer(c))
    /\ \A t \in Tasks \ Idle :
         SF_vars(Up /\ cur[c] = t /\ (TaskCall(c) \/ TaskLocal(c)))

FairSpec == Spec /\ Fairness
(***************************************************************************)
(* Properties.                                                             *)
(***************************************************************************)
Phases == {"user", "yield", "spin", "body", "trap", "save", "scan", "iret"}

CpuTypeOK ==
  /\ pc \in [CPU -> Phases]
  /\ at \in [CPU -> Labels]
  /\ iff \in [CPU -> BOOLEAN]
  /\ call \in [CPU -> Call \cup {NoCall}]
  /\ ret \in [CPU -> [pc : {"user", "yield"}, iff : BOOLEAN]]
  /\ ev \in [CPU -> {"none", "yield", "timer", "kbd"}]
  /\ scan \in [CPU -> Tasks]
  /\ stk \in [CPU -> Tasks \cup {NoTask}]
  /\ ncli \in [CPU -> {0, 1}]
  /\ intena \in [CPU -> BOOLEAN]

TaskTypeOK ==
  /\ cur \in [CPU -> Tasks \cup {NoTask}]
  /\ ctm \in CPU \cup {NONE_CPU}
  /\ state \in [Tasks -> {"STARTED", "RUNNABLE", "RUNNING", "YIELD"}]
  /\ ctx \in [Tasks -> Ctx]
  /\ cpu_number \in [Tasks -> CPU \cup {NONE_CPU}]

SemTypeOK ==
  /\ lk \in [Sems -> CPU \cup {NONE_CPU}]
  /\ value \in [Sems -> Int]
  /\ que \in [Sems -> Seq(Tasks)]

\* Every variable has its type; in particular a saved context (kthreads.c:27)
\* and a trap frame stand at a task's own code or at sleep's _yield, never
\* inside a spinlock section.
TypeOK ==
  /\ machine \in {"up", "halted", "undefined"}
  /\ nirq \in Nat
  /\ CpuTypeOK /\ TaskTypeOK /\ SemTypeOK

\* Lock order: a CPU that waits for current_tasks_mutex (os.c:39) holds no
\* semaphore's spinlock and is inside no pushcli, and every held spinlock is
\* held by a CPU inside its section.  So input_notify's sem_signal, which runs
\* with current_tasks_mutex held, never waits for a lock its own CPU holds.
LockOrder ==
  /\ \A c \in CPU : pc[c] = "trap" => ncli[c] = 0 /\ \A s \in Sems : lk[s] # c
  /\ \A s \in Sems : lk[s] # NONE_CPU =>
       pc[lk[s]] = "body" /\ call[lk[s]].sem = s

\* A negative value counts the queued tasks, up to wraps of the ring, and no
\* task is queued on a value that is not negative (kthreads.c:180, 189).
SemAccount ==
  Up => \A s \in Sems :
          Len(que[s]) = (IF value[s] < 0 THEN -value[s] ELSE 0) % MAX_TASK

\* wakeup always finds a task to wake and never reaches _halt(1)
\* (kthreads.c:161); the ring que[MAX_TASK] never fills up.
NoHalt == machine # "halted" /\ \A s \in Sems : -value[s] < MAX_TASK

\* No lost wakeup: the tasks in YIELD are the queued ones, each queued once, so
\* every task the scheduler passes over for good has someone left to wake it.
NoLostWakeup ==
  \A t \in Tasks :
    Cardinality({p \in Sems \X (1 .. NTASK) :
                   p[2] <= Len(que[p[1]]) /\ que[p[1]][p[2]] = t})
      = IF state[t] = "YIELD" THEN 1 ELSE 0

\* The loop of kmt_context_save_switch (kthreads.c:33) never runs without a
\* task to find, whatever the other CPUs do: there is an idle task left.
SchedulerFindsTask ==
  \A c \in CPU : pc[c] = "scan" => \E t \in Tasks : Ready(t)

\* /proc never names a CPU for a task that is not that CPU's current task
\* (procfs.c:36).
ProcCpu ==
  \A t \in Tasks : cpu_number[t] # NONE_CPU => cur[cpu_number[t]] = t

\* Only current tasks are RUNNING, and a current task stays RUNNING until it
\* goes to sleep or the scheduler demotes it (kthreads.c:30): it is not made
\* RUNNABLE, to be chosen by some CPU, while it still executes.
RunningIsCurrent ==
  /\ \A t \in Tasks : state[t] = "RUNNING" => \E c \in CPU : cur[c] = t
  /\ \A c \in CPU : cur[c] # NoTask /\ pc[c] # "scan" =>
       state[cur[c]] \in {"RUNNING", "YIELD"}

\* Round robin starves no task: one that is ready gets a CPU (kthreads.c:32-39).
ReadyRuns == \A t \in Tasks : Ready(t) ~> (state[t] = "RUNNING")

\* What input_notify signals is consumed (input.c:117, 129).
KbdServed == (value[KbdSem] > 0) ~> (value[KbdSem] <= 0)
=============================================================================
