------------------------------ MODULE ProdCons ------------------------------
(***************************************************************************)
(* The producer/consumer test of os-workbench/kernel/framework/main.c on   *)
(* top of Kmt: two producers and two consumers share cnt, counted by the   *)
(* semaphores empty and full and guarded by mutex.  cnt++ and cnt-- load   *)
(* and store in two steps.                                                 *)
(***************************************************************************)
EXTENDS Kmt

CONSTANT maxk  \* capacity of the buffer

\* The counter, and the register cnt is loaded into.  It belongs to the CPU: no
\* trap hits between load and store, interrupts are off since the first sem_wait.
VARIABLES cnt, reg

pcVars == <<cnt, reg>>
allVars == <<vars, cnt, reg>>

Step(o, s, n) == {[op |-> o, sem |-> s, next |-> n]}

PCSems == {"empty", "full", "mutex", "kbdirq"}
PCInitVal == [empty |-> maxk, full |-> 0, mutex |-> 1, kbdirq |-> 0]

BugProducerNoEmpty ==
  [p0 |-> Step("wait", "mutex", "p2"),   p1 |-> {},
   p2 |-> {}, p3 |-> {},
   p4 |-> Step("signal", "mutex", "p5"), p5 |-> Step("signal", "full", "p0")]

producer ==
  [p0 |-> Step("wait", "empty", "p1"),   p1 |-> Step("wait", "mutex", "p2"),
   p2 |-> {}, p3 |-> {},
   p4 |-> Step("signal", "mutex", "p5"), p5 |-> Step("signal", "full", "p0")]

BugConsumerKeepsMutex ==
  [c0 |-> Step("wait", "full", "c1"),    c1 |-> Step("wait", "mutex", "c2"),
   c2 |-> {}, c3 |-> {},
   c4 |-> Step("signal", "empty", "c0"), c5 |-> {}]

consumer ==
  [c0 |-> Step("wait", "full", "c1"),    c1 |-> Step("wait", "mutex", "c2"),
   c2 |-> {}, c3 |-> {},
   c4 |-> Step("signal", "mutex", "c5"), c5 |-> Step("signal", "empty", "c0")]

idle == [idle |-> {}]

PCLabels == DOMAIN producer \cup DOMAIN consumer \cup DOMAIN idle
PCProg ==
  [l \in PCLabels |-> IF l \in DOMAIN producer THEN producer[l]
                      ELSE IF l \in DOMAIN consumer THEN consumer[l] ELSE {}]
\* p2 loads, p3 stores; c2 and c3 likewise.
PCLocal ==
  [l \in PCLabels |-> CASE l = "p2" -> {"p3"} [] l = "p3" -> {"p4"}
                        [] l = "c2" -> {"c3"} [] l = "c3" -> {"c4"}
                        [] OTHER -> {}]
\* create_threads, after the idle tasks.
PCEntry ==
  [t \in Tasks |-> IF t < NCPU THEN "idle"
                   ELSE <<"p0", "p0", "c0", "c0">>[t - NCPU + 1]]
Workers == Tasks \ Idle

PCInit == Init /\ cnt = 0 /\ reg = [c \in CPU |-> 0]

\* What TaskLocal does to the counter.
Count(c) ==
  \/ /\ at[c] \in {"p2", "c2"}
     /\ reg' = [reg EXCEPT ![c] = cnt] /\ UNCHANGED cnt
  \/ at[c] = "p3" /\ cnt' = reg[c] + 1 /\ UNCHANGED reg
  \/ at[c] = "c3" /\ cnt' = reg[c] - 1 /\ UNCHANGED reg

PCNext ==
  \/ Up /\ \E c \in CPU : TaskLocal(c) /\ Count(c)
  \/ Up /\ \E c \in CPU : (KernelStep(c) \/ Timer(c)) /\ UNCHANGED pcVars

PCFairness ==
  \A c \in CPU :
    /\ WF_allVars(Up /\ CpuStep(c) /\ PCNext)
    /\ WF_allVars(Up /\ Timer(c) /\ UNCHANGED pcVars)
    /\ \A t \in Workers : SF_allVars(Up /\ cur[c] = t /\ TaskCall(c) /\ PCNext)

PCSpec == PCInit /\ [][PCNext]_allVars /\ PCFairness
(***************************************************************************)
(* Properties.                                                             *)
(***************************************************************************)
\* CPUs whose task executes between its wait(mutex) and its signal(mutex).
Inside ==
  {c \in CPU : pc[c] = "user" /\ at[c] \in {"p2", "p3", "p4", "c2", "c3", "c4"}}

\* The semaphores keep the counter within the buffer (main.c:17, 28): no item
\* is consumed that was not produced and at most maxk are pending.
CntBounded == cnt \in 0 .. maxk

\* Every producer and every consumer keeps getting into its section: the three
\* semaphores and the round robin starve nobody.
EveryWorkerProgresses ==
  \A t \in Workers :
    []<>(\E c \in Inside : cur[c] = t)
=============================================================================
