----------------------------- MODULE MCConsole -----------------------------
(***************************************************************************)
(* The terminals and their shells alone, for rings that hold several       *)
(* lines: instead of the input device there is an environment that         *)
(* delivers the events of the keys in any order, as the device might.      *)
(***************************************************************************)
EXTENDS Console

Deliver ==
  /\ tpc = "wait"
  /\ \E k \in Keys \cap DOMAIN keymap : ev' = event(k)
  /\ tpc' = "cook"
  /\ UNCHANGED <<status, inVars, evVars, event_sem, ttydev, q, cooked, cursor, shVars>>

TtyNext ==
  \/ Up /\ (Deliver \/ tty_cook \/ Echo)
  \/ Up /\ \E t \in Ttys : ShellPrompt(t) \/ ShellWait(t) \/ tty_read(t)
  \/ Halted

TtySpec == Init /\ [][TtyNext]_vars
=============================================================================
