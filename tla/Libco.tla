------------------------------- MODULE Libco -------------------------------
(***************************************************************************)
(* The coroutines of os-workbench/libco/co.c, under the kind of program    *)
(* its test is (libco/tests/main.c): one function of the main program      *)
(* starts coroutines and waits for each, a coroutine yields some number of *)
(* times and returns.                                                      *)
(*                                                                         *)
(* Grain.  There is one thread: a step goes from one setjmp or longjmp to  *)
(* the next.  A jmp_buf is the call that saved it.  A buffer of the main   *)
(* program may be jumped to after that call has returned, which C leaves   *)
(* undefined: in the build (gcc -O1) the later call from the same function *)
(* has its frame at the same address, so the code after the old setjmp     *)
(* runs with the arguments and the return address of the new call.  What   *)
(* that does to the caller's registers is left out.  Definitions named     *)
(* Bug... are mutations of the one that follows.                           *)
(***************************************************************************)
EXTENDS Integers, FiniteSets, FiniteSetsExt

CONSTANT N   \* coroutines that are started, fewer than MAX_CO

ASSUME LibcoConstants == N \in Nat \ {0}

Main  == 0
Rtns  == 0 .. N      \* slots of co_rtns; 0 is the main program's
NoRtn == -1

VARIABLES
  co_cnt, act_cnt,
  current,           \* index of the slot
  state,             \* END is also what an unused slot holds
  buf,               \* the call that saved the slot's jmp_buf, or "none"
  exec,              \* whose code is running: the machine's own registers
  call, thd,         \* the call main is in, and co_wait's argument
  waited,            \* co_wait has returned for these
  early,             \* history: of these, the ones that had not ended
  cut                \* history: one returned while main was in co_start

vars == <<co_cnt, act_cnt, current, state, buf, exec, call, thd, waited, early, cut>>

RunningRtns == {i \in Rtns : i < co_cnt /\ state[i] = "RUNNING"}

co_init ==
  /\ co_cnt = 1 /\ act_cnt = 1 /\ current = Main
  /\ state = [i \in Rtns |-> IF i = Main THEN "RUNNING" ELSE "END"]

Init ==
  /\ co_init
  /\ buf = [i \in Rtns |-> "none"]
  /\ exec = Main /\ call = "none" /\ thd = NoRtn
  /\ waited = {} /\ early = {} /\ cut = FALSE

(***************************************************************************)
(* Jumps, to main in state st of the slots or to a coroutine.  Landing in  *)
(* co_start makes main's present call return, whichever it is; landing in  *)
(* co_wait makes it look at its argument again.                            *)
(***************************************************************************)
WaitReturns(st) ==
  /\ call' = "none" /\ thd' = NoRtn
  /\ waited' = waited \cup {thd}
  /\ early' = IF st[thd] = "END" THEN early ELSE early \cup {thd}

BugNoRecheck(st) ==
  /\ exec' = Main
  /\ \/ /\ call = "start"
        /\ call' = "none" /\ UNCHANGED <<thd, waited, early>>
     \/ /\ call = "wait" /\ WaitReturns(st)

ResumeMain(st) ==
  /\ exec' = Main
  /\ \/ /\ buf[Main] = "wait" /\ UNCHANGED <<call, thd, waited, early>>
     \/ /\ buf[Main] = "start" /\ call = "start"
        /\ call' = "none" /\ UNCHANGED <<thd, waited, early>>
     \/ /\ buf[Main] = "start" /\ call = "wait" /\ WaitReturns(st)

ResumeRtn(i) == exec' = i /\ UNCHANGED <<call, thd, waited, early>>

\* The num-th slot that is running, if there are so many.
select_co(num) ==
  LET nth == {i \in RunningRtns : Cardinality({j \in RunningRtns : j < i}) = num}
  IN IF nth = {} THEN NoRtn ELSE Min(nth)

\* Drawn again and again until it is not the current one.
SwitchTo(m) ==
  /\ \E num \in 0 .. act_cnt - 1 : m = select_co(num)
  /\ m # current
  /\ current' = m
  /\ IF m = Main THEN ResumeMain(state) ELSE ResumeRtn(m)

(***************************************************************************)
(* The calls.  co_start runs func at once.  When func returns, current     *)
(* stays on its slot, and main's next co_wait saves its buffer there.      *)
(***************************************************************************)
BugStartNext ==
  /\ exec = Main /\ call = "none" /\ co_cnt <= N
  /\ co_cnt' = co_cnt + 1 /\ act_cnt' = act_cnt + 1
  /\ buf' = [buf EXCEPT ![Main] = "start"]
  /\ current' = co_cnt + 1
  /\ state' = [state EXCEPT ![co_cnt + 1] = "RUNNING"]
  /\ exec' = co_cnt + 1 /\ call' = "start"
  /\ UNCHANGED <<thd, waited, early, cut>>

co_start ==
  /\ exec = Main /\ call = "none" /\ co_cnt <= N
  /\ co_cnt' = co_cnt + 1 /\ act_cnt' = act_cnt + 1
  /\ buf' = [buf EXCEPT ![Main] = "start"]
  /\ current' = co_cnt
  /\ state' = [state EXCEPT ![co_cnt] = "RUNNING"]
  /\ exec' = co_cnt /\ call' = "start"
  /\ UNCHANGED <<thd, waited, early, cut>>

BugActCnt(c) ==
  /\ exec = c
  /\ state' = [state EXCEPT ![current] = "END"]
  /\ ResumeMain(state')
  /\ cut' = (cut \/ call = "start")
  /\ UNCHANGED <<co_cnt, act_cnt, current, buf>>

BugNoEnd(c) ==
  /\ exec = c
  /\ act_cnt' = act_cnt - 1
  /\ ResumeMain(state)
  /\ cut' = (cut \/ call = "start")
  /\ UNCHANGED <<co_cnt, state, current, buf>>

Return(c) ==
  /\ exec = c
  /\ state' = [state EXCEPT ![current] = "END"]
  /\ act_cnt' = act_cnt - 1
  /\ ResumeMain(state')
  /\ cut' = (cut \/ call = "start")
  /\ UNCHANGED <<co_cnt, current, buf>>

BugSaveNext(c, m) ==
  /\ exec = c
  /\ SwitchTo(m)
  /\ buf' = [buf EXCEPT ![m] = "yield"]
  /\ UNCHANGED <<co_cnt, act_cnt, state, cut>>

co_yield(c, m) ==
  /\ exec = c
  /\ buf' = [buf EXCEPT ![current] = "yield"]
  /\ SwitchTo(m)
  /\ UNCHANGED <<co_cnt, act_cnt, state, cut>>

co_wait(t) ==
  /\ exec = Main /\ call = "none"
  /\ t \in 1 .. co_cnt - 1 /\ t \notin waited
  /\ buf' = [buf EXCEPT ![current] = "wait"]
  /\ call' = "wait" /\ thd' = t
  /\ UNCHANGED <<co_cnt, act_cnt, current, state, exec, waited, early, cut>>

\* The rest of co_wait, at the first return of its setjmp and at every other.
WaitSwitch(m) ==
  /\ exec = Main /\ call = "wait" /\ state[thd] # "END"
  /\ SwitchTo(m)
  /\ UNCHANGED <<co_cnt, act_cnt, state, buf, cut>>

WaitEnded ==
  /\ exec = Main /\ call = "wait" /\ state[thd] = "END"
  /\ WaitReturns(state)
  /\ UNCHANGED <<co_cnt, act_cnt, current, state, buf, exec, cut>>

Draw(m) == WaitSwitch(m) \/ \E c \in 1 .. N : co_yield(c, m)

Done == waited = 1 .. N /\ exec = Main

Next ==
  \/ co_start \/ WaitEnded
  \/ \E t \in 1 .. N : co_wait(t)
  \/ \E m \in Rtns : Draw(m)
  \/ \E c \in 1 .. N : Return(c)
  \/ Done /\ UNCHANGED vars

(***************************************************************************)
(* A coroutine that is resumed again and again gets to its end, and rand() *)
(* draws every slot again and again.                                       *)
(***************************************************************************)
Fairness ==
  /\ WF_vars(Next)
  /\ \A c \in 1 .. N : SF_vars(Return(c))
  /\ \A m \in Rtns : SF_vars(Draw(m))

Spec == Init /\ [][Next]_vars /\ Fairness

-----------------------------------------------------------------------------
TypeOK ==
  /\ co_cnt \in 1 .. N + 1 /\ act_cnt \in Int
  /\ current \in Rtns /\ exec \in Rtns
  /\ state \in [Rtns -> {"RUNNING", "END"}]
  /\ buf \in [Rtns -> {"none", "start", "yield", "wait"}]
  /\ call \in {"none", "start", "wait"} /\ thd \in 1 .. N \cup {NoRtn}
  /\ waited \subseteq 1 .. N /\ early \subseteq waited /\ cut \in BOOLEAN

(***************************************************************************)
(* select_co counts down from rand() % act_cnt over the slots that are     *)
(* running: it returns one of them, and any of them, and not -1.  The      *)
(* counter and the states are kept by different calls.                     *)
(***************************************************************************)
SelectReachesAll ==
  {select_co(num) : num \in 0 .. act_cnt - 1} = RunningRtns

(***************************************************************************)
(* A coroutine that can be drawn was suspended in a co_yield of its own:   *)
(* neither a call of main (which saves to current, whoever that is) nor    *)
(* another coroutine has taken its buffer.                                 *)
(***************************************************************************)
BuffersAreOwn ==
  \A c \in RunningRtns \ {Main} : c # exec => buf[c] = "yield"

(***************************************************************************)
(* co_wait returns before its coroutine has ended only when some coroutine *)
(* ended while main was in co_start: current is then not main's slot, and  *)
(* slot 0 keeps the buffer of a co_start that has returned.                *)
(***************************************************************************)
EarlyOnlyIfCut == early # {} => cut

\* main gets through all its co_waits, however the draws go.
AllWaitsReturn == <>Done
=============================================================================
