------------------------------- MODULE MCKmt -------------------------------
(***************************************************************************)
(* Kmt with the tasks that dev_init and os_init create: the input task     *)
(* turns keyboard interrupts into events (input.c), the tty task takes     *)
(* events and, under the tty's lock, may complete a line (tty.c), a shell  *)
(* writes and reads under that lock and waits for lines (shell.c).         *)
(***************************************************************************)
EXTENDS Kmt

CONSTANT SemBound  \* bound: how far below zero a semaphore is followed

Do(o, s, n) == [op |-> o, sem |-> s, next |-> n]

MCSems == {"kbdirq", "events", "ttylock", "cooked"}
MCInitVal == [s \in MCSems |-> IF s = "ttylock" THEN 1 ELSE 0]
MCProg ==
  [idle  |-> {},
   input |-> {Do("wait", "kbdirq", "push")},
   push  |-> {Do("signal", "events", "input")},
   pop   |-> {Do("wait", "events", "tty")},
   tty   |-> {Do("wait", "ttylock", "cook")},
   cook  |-> {Do("signal", "cooked", "done"), Do("signal", "ttylock", "pop")},
   done  |-> {Do("signal", "ttylock", "pop")},
   shell |-> {Do("wait", "ttylock", "io")},
   io    |-> {Do("signal", "ttylock", "line")},
   line  |-> {Do("wait", "cooked", "shell")}]
MCLabels == DOMAIN MCProg
MCLocal == [l \in MCLabels |-> {}]
MCEntry ==
  [t \in Tasks |-> IF t < NCPU THEN "idle"
                   ELSE <<"input", "pop", "shell">>[t - NCPU + 1]]

SemBounded == \A s \in Sems : value[s] >= -SemBound
=============================================================================
