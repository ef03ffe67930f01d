------------------------------- MODULE Lines -------------------------------
(***************************************************************************)
(* What a terminal promises its shell: characters are edited into a line,  *)
(* Enter completes it, and every read takes the oldest completed line,     *)
(* whole and once, and returns its first Count characters.  Backspace      *)
(* never reaches a line that is complete.                                  *)
(***************************************************************************)
EXTENDS Sequences, SequencesExt

CONSTANTS
  Ttys,
  Newline,
  Plain,   \* the characters that are only stored
  Count    \* what a shell asks for

VARIABLES
  lines,  \* completed lines of each terminal, oldest first
  edit,   \* the line being typed
  got     \* what the last read returned, until the shell is done with it

vars == <<lines, edit, got>>

Init ==
  /\ lines = [t \in Ttys |-> <<>>]
  /\ edit = [t \in Ttys |-> <<>>]
  /\ got = [t \in Ttys |-> <<>>]

Type(t, ch) ==
  /\ edit' = [edit EXCEPT ![t] = Append(@, ch)]
  /\ UNCHANGED <<lines, got>>

Erase(t) ==
  /\ edit[t] # <<>>
  /\ edit' = [edit EXCEPT ![t] = Front(@)]
  /\ UNCHANGED <<lines, got>>

Enter(t) ==
  /\ lines' = [lines EXCEPT ![t] = Append(@, Append(edit[t], Newline))]
  /\ edit' = [edit EXCEPT ![t] = <<>>]
  /\ UNCHANGED got

Start(l) == SubSeq(l, 1, IF Len(l) < Count THEN Len(l) ELSE Count)

Read(t) ==
  /\ lines[t] # <<>>
  /\ got' = [got EXCEPT ![t] = Start(Head(lines[t]))]
  /\ lines' = [lines EXCEPT ![t] = Tail(@)]
  /\ UNCHANGED edit

Forget(t) ==
  /\ got' = [got EXCEPT ![t] = <<>>]
  /\ UNCHANGED <<lines, edit>>

Next ==
  \E t \in Ttys :
    \/ \E ch \in Plain : Type(t, ch)
    \/ Erase(t) \/ Enter(t) \/ Read(t) \/ Forget(t)

Spec == Init /\ [][Next]_vars
=============================================================================
