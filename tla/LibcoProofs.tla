----------------------------- MODULE LibcoProofs -----------------------------
(***************************************************************************)
(* The types of module Libco, when co_wait can return early, and that every *)
(* coroutine can be drawn, for every number of coroutines.                 *)
(***************************************************************************)
EXTENDS Libco, FiniteSetTheorems, TLAPS

(***************************************************************************)
(* Who runs: a coroutine that runs is current and main is inside a call;   *)
(* main is never inside co_start while it runs itself, and slot 0 has the  *)
(* buffer of a co_start as long as main is inside it.                      *)
(***************************************************************************)
Running ==
  /\ exec = Main => call # "start"
  /\ exec # Main => call # "none" /\ current = exec
  /\ call = "start" => buf[Main] = "start"
  /\ call = "wait" => thd \in 1 .. N

(***************************************************************************)
(* Until a coroutine has ended in co_start, a jump to main lands where     *)
(* main is: while it waits, slot 0 has the buffer of a co_wait, because    *)
(* main's buffer goes there (current is main's slot) or has gone there     *)
(* before.                                                                 *)
(***************************************************************************)
Landing ==
  ~ cut => /\ early = {}
           /\ call = "wait" => buf[Main] = "wait"
           /\ exec = Main /\ call = "none" /\ current # Main => buf[Main] = "wait"

IInv == TypeOK /\ Running /\ Landing

(***************************************************************************)
(* Main runs with another slot as current only when that slot has ended,   *)
(* so that what main saves there is nobody's.                              *)
(***************************************************************************)
Own ==
  /\ exec = Main /\ current # Main => state[current] = "END"
  /\ BuffersAreOwn

-----------------------------------------------------------------------------
\* The program starts with main in no call and in its own slot (co_init).
LEMMA InitIInv == Init => IInv
<1>1. SUFFICES ASSUME Init PROVE IInv
  OBVIOUS
<1>2. /\ co_cnt \in 1 .. N + 1 /\ act_cnt \in Int
      /\ current \in Rtns /\ exec \in Rtns
  BY <1>1, LibcoConstants DEF Init, co_init, Main, Rtns
<1>3. state \in [Rtns -> {"RUNNING", "END"}]
  BY <1>1 DEF Init, co_init
<1>4. buf \in [Rtns -> {"none", "start", "yield", "wait"}]
  BY <1>1 DEF Init
<1>5. /\ call \in {"none", "start", "wait"} /\ thd \in 1 .. N \cup {NoRtn}
      /\ waited \subseteq 1 .. N /\ early \subseteq waited /\ cut \in BOOLEAN
  BY <1>1 DEF Init
<1>6. Running /\ Landing
  BY <1>1 DEF Init, co_init, Running, Landing
<1>7. QED
  BY <1>2, <1>3, <1>4, <1>5, <1>6 DEF IInv, TypeOK

\* A co_wait that returns, after a jump or not, keeps what is known of waited and early.
LEMMA WaitReturnsType ==
  ASSUME TypeOK, Running, call = "wait", NEW st, WaitReturns(st)
  PROVE  /\ call' = "none" /\ thd' = NoRtn
         /\ waited' \subseteq 1 .. N /\ early' \subseteq waited'
         /\ st[thd] = "END" => early' = early
BY DEF TypeOK, Running, WaitReturns

(***************************************************************************)
(* What a jump to main does (ResumeMain): it ends main's co_start, or main *)
(* is in its co_wait again, or co_wait returns, which takes a cut.         *)
(***************************************************************************)
LEMMA ResumeMainLands ==
  ASSUME IInv, exec # Main \/ call = "wait", NEW st, ResumeMain(st)
  PROVE  /\ exec' = Main
         /\ call' \in {"none", "wait"} /\ thd' \in 1 .. N \cup {NoRtn}
         /\ call' = "wait" => thd' \in 1 .. N /\ call = "wait"
         /\ waited' \subseteq 1 .. N /\ early' \subseteq waited'
         /\ ~ cut => early' = {} /\ (call' = "none" => call = "start")
<1>1. CASE buf[Main] = "wait" /\ UNCHANGED <<call, thd, waited, early>>
  BY <1>1 DEF IInv, TypeOK, Running, Landing, ResumeMain
<1>2. CASE buf[Main] = "start" /\ call = "start"
           /\ call' = "none" /\ UNCHANGED <<thd, waited, early>>
  BY <1>2 DEF IInv, TypeOK, Running, Landing, ResumeMain
<1>3. CASE buf[Main] = "start" /\ call = "wait" /\ WaitReturns(st)
  <2>1. cut
    BY <1>3 DEF IInv, Landing
  <2>2. QED
    BY <1>3, <2>1, WaitReturnsType DEF IInv, ResumeMain
<1>4. QED
  BY <1>1, <1>2, <1>3 DEF ResumeMain

-----------------------------------------------------------------------------
\* One lemma per call.  co_start goes over slot 0, and main is inside it.
LEMMA StartStep == ASSUME IInv, co_start PROVE IInv'
<1>1. TypeOK'
  BY LibcoConstants DEF IInv, TypeOK, co_start, Main, Rtns
<1>2. Running' /\ Landing'
  BY LibcoConstants DEF IInv, TypeOK, co_start, Main, Rtns, Running, Landing
<1>3. QED
  BY <1>1, <1>2 DEF IInv

\* A coroutine that ends inside co_start cuts it; otherwise main is waiting.
LEMMA ReturnStep == ASSUME IInv, NEW c \in 1 .. N, Return(c) PROVE IInv'
<1>1. exec # Main /\ ResumeMain(state')
  BY DEF Return, Main
<1>2. /\ exec' = Main
      /\ call' \in {"none", "wait"} /\ thd' \in 1 .. N \cup {NoRtn}
      /\ call' = "wait" => thd' \in 1 .. N /\ call = "wait"
      /\ waited' \subseteq 1 .. N /\ early' \subseteq waited'
      /\ ~ cut => early' = {} /\ (call' = "none" => call = "start")
  BY <1>1, ResumeMainLands
<1>3. TypeOK'
  BY <1>2, LibcoConstants DEF IInv, TypeOK, Return, Main, Rtns
<1>4. Running'
  BY <1>2 DEF Running
<1>5. Landing'
  BY <1>2 DEF IInv, Landing, Return, TypeOK
<1>6. QED
  BY <1>3, <1>4, <1>5 DEF IInv

\* A switch by a co_yield or by co_wait, with slot 0's buffer as it was.
LEMMA SwitchStep ==
  ASSUME IInv, exec # Main \/ call = "wait", NEW m \in Rtns, SwitchTo(m),
         buf' \in [Rtns -> {"none", "start", "yield", "wait"}],
         buf'[Main] = buf[Main], UNCHANGED <<co_cnt, act_cnt, state, cut>>
  PROVE  IInv'
<1>1. current' = m
  BY DEF SwitchTo
<1>2. CASE m = Main
  <2>1. /\ exec' = Main
        /\ call' \in {"none", "wait"} /\ thd' \in 1 .. N \cup {NoRtn}
        /\ call' = "wait" => thd' \in 1 .. N /\ call = "wait"
        /\ waited' \subseteq 1 .. N /\ early' \subseteq waited'
        /\ ~ cut => early' = {} /\ (call' = "none" => call = "start")
    BY <1>2, ResumeMainLands DEF SwitchTo
  <2>2. TypeOK'
    BY <1>1, <2>1, LibcoConstants DEF IInv, TypeOK, Main, Rtns
  <2>3. Running' /\ Landing'
    BY <1>1, <1>2, <2>1 DEF IInv, Running, Landing
  <2>4. QED
    BY <2>2, <2>3 DEF IInv
<1>3. CASE m # Main
  <2>1. exec' = m /\ UNCHANGED <<call, thd, waited, early>>
    BY <1>3 DEF SwitchTo, ResumeRtn
  <2>2. TypeOK'
    BY <1>1, <2>1 DEF IInv, TypeOK
  <2>3. call # "none"
    BY DEF IInv, Running
  <2>4. Running' /\ Landing'
    BY <1>1, <1>3, <2>1, <2>3 DEF IInv, Running, Landing
  <2>5. QED
    BY <2>2, <2>4 DEF IInv
<1>4. QED
  BY <1>2, <1>3

\* co_yield saves in the slot of the coroutine that runs, never in main's.
LEMMA YieldStep ==
  ASSUME IInv, NEW c \in 1 .. N, NEW m \in Rtns, co_yield(c, m) PROVE IInv'
<1>1. exec # Main /\ current \in Rtns /\ current # Main
  BY DEF co_yield, Main, IInv, Running, TypeOK
<1>2. /\ buf' \in [Rtns -> {"none", "start", "yield", "wait"}]
      /\ buf'[Main] = buf[Main]
  BY <1>1 DEF co_yield, IInv, TypeOK
<1>3. QED
  BY <1>1, <1>2, SwitchStep DEF co_yield

\* co_wait saves in current's slot: if that is not main's, main's has a co_wait's.
LEMMA WaitStep == ASSUME IInv, NEW t \in 1 .. N, co_wait(t) PROVE IInv'
<1>1. TypeOK'
  BY DEF IInv, TypeOK, co_wait
<1>2. Running'
  BY DEF IInv, TypeOK, Running, co_wait
<1>3. Landing'
  BY LibcoConstants DEF IInv, TypeOK, Running, Landing, co_wait, Main, Rtns
<1>4. QED
  BY <1>1, <1>2, <1>3 DEF IInv

\* The rest of co_wait, when it switches away.
LEMMA WaitSwitchStep ==
  ASSUME IInv, NEW m \in Rtns, WaitSwitch(m) PROVE IInv'
<1>1. call = "wait" /\ SwitchTo(m) /\ UNCHANGED <<co_cnt, act_cnt, state, cut>>
  BY DEF WaitSwitch
<1>2. /\ buf' \in [Rtns -> {"none", "start", "yield", "wait"}]
      /\ buf'[Main] = buf[Main]
  BY DEF WaitSwitch, IInv, TypeOK
<1>3. QED
  BY <1>1, <1>2, SwitchStep

\* It returns because its coroutine has ended: early stays as it is.
LEMMA WaitEndedStep == ASSUME IInv, WaitEnded PROVE IInv'
<1>1. call = "wait" /\ state[thd] = "END" /\ WaitReturns(state)
  BY DEF WaitEnded
<1>2. /\ call' = "none" /\ thd' = NoRtn
      /\ waited' \subseteq 1 .. N /\ early' \subseteq waited' /\ early' = early
  BY <1>1, WaitReturnsType DEF IInv
<1>3. TypeOK'
  BY <1>2 DEF IInv, TypeOK, WaitEnded
<1>4. Running' /\ Landing'
  BY <1>1, <1>2 DEF IInv, Running, Landing, WaitEnded
<1>5. QED
  BY <1>3, <1>4 DEF IInv

\* Every step of the program keeps IInv.
LEMMA NextIInv == IInv /\ [Next]_vars => IInv'
<1>1. SUFFICES ASSUME IInv, [Next]_vars PROVE IInv'
  OBVIOUS
<1>2. CASE co_start
  BY <1>1, <1>2, StartStep
<1>3. CASE WaitEnded
  BY <1>1, <1>3, WaitEndedStep
<1>4. CASE \E t \in 1 .. N : co_wait(t)
  BY <1>1, <1>4, WaitStep
<1>5. CASE \E m \in Rtns : Draw(m)
  BY <1>1, <1>5, WaitSwitchStep, YieldStep DEF Draw
<1>6. CASE \E c \in 1 .. N : Return(c)
  BY <1>1, <1>6, ReturnStep
<1>7. CASE UNCHANGED vars
  BY <1>1, <1>7 DEF vars, IInv, TypeOK, Running, Landing
<1>8. QED
  BY <1>1, <1>2, <1>3, <1>4, <1>5, <1>6, <1>7 DEF Next

-----------------------------------------------------------------------------
\* A switch, after the running coroutine's own buffer has been saved.
LEMMA SwitchOwn ==
  ASSUME IInv, Own, NEW m \in Rtns, SwitchTo(m), UNCHANGED <<co_cnt, state>>,
         \A i \in Rtns : i # exec => buf'[i] = buf[i],
         exec # Main => buf'[exec] = "yield"
  PROVE  Own'
<1>1. current' = m /\ exec' = m
  BY DEF SwitchTo, ResumeMain, ResumeRtn
<1>2. RunningRtns' = RunningRtns
  BY DEF RunningRtns
<1>3. BuffersAreOwn'
  BY <1>1, <1>2 DEF IInv, TypeOK, Own, BuffersAreOwn, RunningRtns
<1>4. QED
  BY <1>1, <1>3 DEF Own

(***************************************************************************)
(* Every step keeps Own: the calls of main go over no buffer that can be   *)
(* jumped to, and a coroutine goes over its own.                           *)
(***************************************************************************)
LEMMA NextOwn == IInv /\ Own /\ [Next]_vars => Own'
<1>1. SUFFICES ASSUME IInv, Own, [Next]_vars PROVE Own'
  OBVIOUS
<1>2. CASE co_start
  <2>1. exec' = co_cnt /\ exec' # Main /\ co_cnt \in Rtns
    BY <1>1, <1>2, LibcoConstants DEF co_start, IInv, TypeOK, Main, Rtns
  <2>2. \A i \in RunningRtns' : i # exec' => i \in RunningRtns
    BY <1>1, <1>2, <2>1, LibcoConstants DEF co_start, RunningRtns, IInv, TypeOK, Rtns
  <2>3. \A i \in RunningRtns \ {Main} : buf'[i] = buf[i] /\ i # exec
    BY <1>1, <1>2 DEF co_start, RunningRtns, IInv, TypeOK
  <2>4. QED
    BY <1>1, <2>1, <2>2, <2>3 DEF Own, BuffersAreOwn
<1>3. CASE WaitEnded
  BY <1>1, <1>3 DEF WaitEnded, Own, BuffersAreOwn, RunningRtns
<1>4. CASE \E t \in 1 .. N : co_wait(t)
  <2>1. /\ UNCHANGED <<co_cnt, current, state, exec>>
        /\ buf' = [buf EXCEPT ![current] = "wait"] /\ exec = Main
    BY <1>4 DEF co_wait
  <2>2. RunningRtns' = RunningRtns
    BY <2>1 DEF RunningRtns
  <2>3. \A i \in RunningRtns \ {Main} : buf'[i] = buf[i]
    BY <1>1, <2>1 DEF Own, RunningRtns, IInv, TypeOK
  <2>4. QED
    BY <1>1, <2>1, <2>2, <2>3 DEF Own, BuffersAreOwn
<1>5. CASE \E m \in Rtns : Draw(m)
  <2>1. PICK m \in Rtns : Draw(m)
    BY <1>5
  <2>2. CASE WaitSwitch(m)
    BY <1>1, <2>2, SwitchOwn DEF WaitSwitch
  <2>3. CASE \E c \in 1 .. N : co_yield(c, m)
    <3>1. PICK c \in 1 .. N : co_yield(c, m)
      BY <2>3
    <3>2. exec = current /\ exec \in Rtns /\ SwitchTo(m) /\ UNCHANGED <<co_cnt, state>>
      BY <1>1, <3>1 DEF co_yield, IInv, Running, TypeOK, Main
    <3>3. /\ \A i \in Rtns : i # exec => buf'[i] = buf[i]
          /\ buf'[exec] = "yield"
      BY <1>1, <3>1, <3>2 DEF co_yield, IInv, TypeOK
    <3>4. QED
      BY <1>1, <3>2, <3>3, SwitchOwn
  <2>4. QED
    BY <2>1, <2>2, <2>3 DEF Draw
<1>6. CASE \E c \in 1 .. N : Return(c)
  <2>1. /\ state' = [state EXCEPT ![current] = "END"]
        /\ exec' = Main /\ exec = current /\ UNCHANGED <<co_cnt, current, buf>>
    BY <1>1, <1>6 DEF Return, ResumeMain, IInv, Running, Main
  <2>2. RunningRtns' \subseteq RunningRtns \ {current}
    BY <1>1, <2>1 DEF RunningRtns, IInv, TypeOK
  <2>3. QED
    BY <1>1, <2>1, <2>2 DEF Own, BuffersAreOwn, IInv, TypeOK
<1>7. CASE UNCHANGED vars
  BY <1>1, <1>7 DEF vars, Own, BuffersAreOwn, RunningRtns
<1>8. QED
  BY <1>1, <1>2, <1>3, <1>4, <1>5, <1>6, <1>7 DEF Next

-----------------------------------------------------------------------------
(***************************************************************************)
(* IInv holds of every run of the coroutines, however rand() draws.        *)
(***************************************************************************)
THEOREM CoInvariance == Spec => []IInv
BY InitIInv, NextIInv, PTL DEF Spec

\* The counters, the slots and main's call keep their types.
THEOREM CoTypeCorrect == Spec => []TypeOK
<1>1. IInv => TypeOK
  BY DEF IInv
<1>2. QED
  BY <1>1, CoInvariance, PTL

(***************************************************************************)
(* For every number of coroutines, co_wait returns early only after a      *)
(* coroutine has ended while main was inside a co_start: a program whose   *)
(* coroutines all outlive the co_start of the last can rely on it.         *)
(***************************************************************************)
THEOREM NoEarlyWait == Spec => []EarlyOnlyIfCut
<1>1. IInv => EarlyOnlyIfCut
  BY DEF IInv, Landing, EarlyOnlyIfCut
<1>2. QED
  BY <1>1, CoInvariance, PTL

(***************************************************************************)
(* Any coroutine that select_co can return, other than the running one,    *)
(* has the buffer of a co_yield of its own, for every number of them.      *)
(***************************************************************************)
THEOREM BuffersOwned == Spec => []BuffersAreOwn
<1>1. Init => Own
  BY DEF Init, co_init, Own, BuffersAreOwn, RunningRtns, Rtns, Main
<1>2. IInv /\ Own /\ [Next]_vars => Own'
  BY NextOwn
<1>3. Own => BuffersAreOwn
  BY DEF Own
<1>4. QED
  BY <1>1, <1>2, <1>3, CoInvariance, PTL DEF Spec

-----------------------------------------------------------------------------
\* The number of smaller members tells the members of a finite set of integers
\* apart, and every number up to the size of the set is one of a member.
LEMMA Ranks ==
  ASSUME NEW S \in SUBSET Int, IsFiniteSet(S)
  PROVE  /\ \A i \in S : Cardinality({j \in S : j < i}) \in 0 .. Cardinality(S) - 1
         /\ \A i, k \in S :
              Cardinality({j \in S : j < i}) = Cardinality({j \in S : j < k}) => i = k
         /\ \A n \in 0 .. Cardinality(S) - 1 :
              \E i \in S : Cardinality({j \in S : j < i}) = n
<1> DEFINE Below(i) == {j \in S : j < i}
           rank == [i \in S |-> Cardinality(Below(i))]
           T == 0 .. Cardinality(S) - 1
<1>0. Cardinality(S) \in Nat
  BY FS_CardinalityType
<1>1. ASSUME NEW i \in S PROVE IsFiniteSet(Below(i)) /\ Cardinality(Below(i)) \in Nat
  <2>1. Below(i) \in SUBSET S
    OBVIOUS
  <2> QED
    BY <2>1, FS_Subset, FS_CardinalityType
<1>2. ASSUME NEW i \in S, NEW U \in SUBSET S, i \in U, Below(i) \subseteq U
      PROVE  Cardinality(Below(i)) + 1 <= Cardinality(U)
  <2>0. IsFiniteSet(U)
    BY <1>2, FS_Subset
  <2>a. i \in Int /\ ~ (i < i)
    OBVIOUS
  <2>1. IsFiniteSet(U) /\ i \notin Below(i)
    BY <2>0, <2>a
  <2>2. Below(i) \cup {i} \in SUBSET U
    BY <1>2
  <2>3. Cardinality(Below(i) \cup {i}) = Cardinality(Below(i)) + 1
    BY <1>1, <2>1, FS_AddElement
  <2>4. Cardinality(Below(i) \cup {i}) <= Cardinality(U)
    BY <2>1, <2>2, FS_Subset
  <2> QED
    BY <2>3, <2>4
<1>3. ASSUME NEW i \in S PROVE Cardinality(Below(i)) \in T
  <2>1. Cardinality(Below(i)) + 1 <= Cardinality(S)
    BY <1>2
  <2>2. Cardinality(Below(i)) \in Nat
    BY <1>1
  <2> HIDE DEF Below
  <2> QED
    BY <1>0, <2>1, <2>2
<1>4. ASSUME NEW i \in S, NEW k \in S, i < k
      PROVE  Cardinality(Below(i)) # Cardinality(Below(k))
  <2>1. Below(k) \in SUBSET S /\ i \in Below(k)
    BY <1>4
  <2>2. Below(i) \subseteq Below(k)
    <3>1. \A j \in S : j < i => j < k
      <4>1. \A j \in S : j \in Int
        OBVIOUS
      <4> QED
        BY <1>4, <4>1
    <3> QED
      BY <3>1
  <2>3. Cardinality(Below(i)) + 1 <= Cardinality(Below(k))
    BY <1>2, <2>1, <2>2
  <2> QED
    BY <1>1, <2>3
<1>5. ASSUME NEW i \in S, NEW k \in S, Cardinality(Below(i)) = Cardinality(Below(k))
      PROVE  i = k
  <2>1. i \in Int /\ k \in Int /\ ~ (i < k) /\ ~ (k < i)
    BY <1>4, <1>5
  <2> QED
    BY <2>1
<1>6. rank \in Injection(S, T)
  BY <1>3, <1>5 DEF Injection, IsInjective
<1>7. IsFiniteSet(T) /\ Cardinality(T) = Cardinality(S)
  BY <1>0, FS_Interval
<1>8. rank \in Surjection(S, T)
  <2> HIDE DEF rank, T
  <2> QED
    BY <1>6, <1>7, FS_Injection
<1>9. \A n \in T : \E i \in S : Cardinality(Below(i)) = n
  BY <1>8 DEF Surjection
<1> QED
  BY <1>3, <1>5, <1>9

\* The counter of running coroutines is exact, and a coroutine that runs is one.
Counted ==
  /\ act_cnt = Cardinality(RunningRtns)
  /\ exec # Main => exec \in RunningRtns

\* Slots are numbers, and there are finitely many.
LEMMA RunningFinite ==
  /\ IsFiniteSet(RunningRtns) /\ Cardinality(RunningRtns) \in Nat
  /\ RunningRtns \in SUBSET Int /\ NoRtn \notin RunningRtns
<1>1. IsFiniteSet(Rtns)
  BY LibcoConstants, FS_Interval DEF Rtns
<1>2. RunningRtns \in SUBSET Rtns /\ Rtns \subseteq Int /\ NoRtn \notin Rtns
  BY LibcoConstants DEF RunningRtns, Rtns, NoRtn
<1> QED
  BY <1>1, <1>2, FS_Subset, FS_CardinalityType

\* With the counter exact, select_co (co.c:70-80) returns every running slot and
\* nothing else.
LEMMA CountedSelects == ASSUME Counted PROVE SelectReachesAll
<1> DEFINE S == RunningRtns
           Rank(i) == Cardinality({j \in S : j < i})
           nth(num) == {i \in S : Rank(i) = num}
<1>1. /\ \A i \in S : Rank(i) \in 0 .. act_cnt - 1
      /\ \A i, k \in S : Rank(i) = Rank(k) => i = k
      /\ \A n \in 0 .. act_cnt - 1 : \E i \in S : Rank(i) = n
  BY RunningFinite, Ranks DEF Counted
<1>2. ASSUME NEW i \in S PROVE select_co(Rank(i)) = i
  <2>1. nth(Rank(i)) = {i}
    BY <1>1
  <2>2. Min({i}) = i
    BY RunningFinite DEF Min
  <2> HIDE DEF nth, Rank
  <2>3. select_co(Rank(i)) = IF nth(Rank(i)) = {} THEN NoRtn ELSE Min(nth(Rank(i)))
    BY DEF select_co, nth, Rank
  <2> QED
    BY <2>1, <2>2, <2>3
<1> HIDE DEF Rank, nth
<1>3. \A n \in 0 .. act_cnt - 1 : select_co(n) \in S
  BY <1>1, <1>2
<1>4. \A i \in S : \E n \in 0 .. act_cnt - 1 : select_co(n) = i
  BY <1>1, <1>2
<1> QED
  BY <1>3, <1>4 DEF SelectReachesAll

\* Every step keeps the counter exact: co_start takes an unused slot, and the
\* coroutine that returns was running.
LEMMA NextCounted == IInv /\ Counted /\ [Next]_vars => Counted'
<1> SUFFICES ASSUME IInv, Counted, [Next]_vars PROVE Counted'
  OBVIOUS
<1>1. CASE co_start
  <2>1. co_cnt \in Rtns /\ co_cnt \notin RunningRtns
    BY <1>1, LibcoConstants DEF co_start, IInv, TypeOK, Rtns, RunningRtns
  <2>2. \A i : i \in RunningRtns' <=> i \in RunningRtns \/ i = co_cnt
    BY <1>1, <2>1, LibcoConstants DEF co_start, IInv, TypeOK, Rtns, RunningRtns
  <2>3. RunningRtns' = RunningRtns \cup {co_cnt}
    BY <2>2
  <2>4. Cardinality(RunningRtns') = Cardinality(RunningRtns) + 1
    BY <2>1, <2>3, RunningFinite, FS_AddElement
  <2> QED
    BY <1>1, <2>2, <2>4 DEF co_start, Counted
<1>2. CASE \E c \in 1 .. N : Return(c)
  <2>1. /\ state' = [state EXCEPT ![current] = "END"] /\ act_cnt' = act_cnt - 1
        /\ exec' = Main /\ exec = current /\ exec # Main /\ co_cnt' = co_cnt
    BY <1>2 DEF Return, ResumeMain, IInv, Running, Main
  <2>2. current \in RunningRtns
    BY <2>1 DEF Counted
  <2>3. \A i : i \in RunningRtns' <=> i \in RunningRtns /\ i # current
    BY <2>1, <2>2 DEF RunningRtns, IInv, TypeOK
  <2>4. RunningRtns' = RunningRtns \ {current}
    BY <2>3
  <2>5. Cardinality(RunningRtns') = Cardinality(RunningRtns) - 1
    BY <2>2, <2>4, RunningFinite, FS_RemoveElement
  <2> QED
    BY <2>1, <2>5 DEF Counted
<1>3. ASSUME NEW m \in Rtns, SwitchTo(m), UNCHANGED <<co_cnt, act_cnt, state>>
      PROVE  Counted'
  <2>1. RunningRtns' = RunningRtns
    BY <1>3 DEF RunningRtns
  <2>2. m \in RunningRtns
    BY <1>3, CountedSelects DEF SwitchTo, SelectReachesAll
  <2>3. exec' = m
    BY <1>3 DEF SwitchTo, ResumeMain, ResumeRtn
  <2> QED
    BY <1>3, <2>1, <2>2, <2>3 DEF Counted
<1>4. CASE \E m \in Rtns : Draw(m)
  BY <1>3, <1>4 DEF Draw, WaitSwitch, co_yield
<1>5. ASSUME UNCHANGED <<co_cnt, act_cnt, state, exec>> PROVE Counted'
  <2>1. RunningRtns' = RunningRtns
    BY <1>5 DEF RunningRtns
  <2> QED
    BY <1>5, <2>1 DEF Counted
<1>6. CASE WaitEnded \/ (\E t \in 1 .. N : co_wait(t)) \/ UNCHANGED vars
  BY <1>5, <1>6 DEF WaitEnded, co_wait, vars
<1> QED
  BY <1>1, <1>2, <1>4, <1>6 DEF Next

\* For every number of coroutines, a draw out of act_cnt returns a running slot, and
\* every running slot can be drawn: co_yield's loop (co.c:85-88) never jumps through
\* slot -1, and no coroutine is out of its reach.
THEOREM EveryoneDrawn == Spec => []SelectReachesAll
<1>1. Init => Counted
  <2> SUFFICES ASSUME Init PROVE Counted
    OBVIOUS
  <2>1. RunningRtns = {0}
    BY LibcoConstants DEF Init, co_init, RunningRtns, Rtns, Main
  <2> QED
    BY <2>1, FS_Singleton DEF Init, co_init, Counted
<1>2. IInv /\ Counted /\ [Next]_vars => Counted'
  BY NextCounted
<1>3. Counted => SelectReachesAll
  BY CountedSelects
<1> QED
  BY <1>1, <1>2, <1>3, CoInvariance, PTL DEF Spec
=============================================================================
