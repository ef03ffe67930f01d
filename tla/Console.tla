------------------------------ MODULE Console ------------------------------
(***************************************************************************)
(* From key to shell: the input device (devices/input/input.c), its event  *)
(* ring and the terminals (devices/tty/tty.c) with their line rings and    *)
(* cursors, driven by input_task, tty_task and one shell_task per tty.     *)
(*                                                                         *)
(* Grain.  A section under in->lock or tty->lock is one step: nothing in   *)
(* it blocks.  sem_wait and sem_signal are steps of their own; here a      *)
(* semaphore is its counter (Kmt is about how it comes to be one).  Pixels *)
(* and cell contents are left out: of the screen there is the cursor.      *)
(* panic() halts the machine, and nothing is said of it after a shell has  *)
(* written outside its readbuf.  A slot of the event ring is cleared when  *)
(* it is popped: it is written before it is read again.  Definitions named *)
(* Bug... are mutations of the one that follows.                           *)
(***************************************************************************)
EXTENDS Integers, Sequences, FiniteSets, FiniteSetsExt, SequencesExt

CONSTANTS
  Keys,     \* the keys that are used
  NEVENTS,  \* slots of the event ring
  BUF_SZ,   \* TTY_COOK_BUF_SZ
  READ_SZ,  \* sizeof(readbuf) of a shell
  Ttys,     \* the terminals, by the character that selects them with Alt
  LINES, COLUMNS,
  PROMPT    \* length of a shell's prompt

NUL == "NUL"
NL  == "NL"
BS  == "BS"
CR  == "CR"  \* only ever written, no key sends it

keymap ==
  [K_1 |-> "1", K_2 |-> "2", K_RETURN |-> NL, K_BACKSPACE |-> BS, K_A |-> "a"]

\* There is no entry for Return.
keymap_shift ==
  [K_1 |-> "!", K_2 |-> "@", K_RETURN |-> NUL, K_BACKSPACE |-> BS, K_A |-> "A"]

ModKeys == {"LCTRL", "RCTRL", "LALT", "RALT", "LSHIFT", "RSHIFT"}
Letters == {"K_A"}
Chars == {"1", "2", "a", "!", "@", "A", NUL, NL, BS}
Event == [ctrl : BOOLEAN, alt : BOOLEAN, data : Chars]
SIZE  == LINES * COLUMNS

ASSUME ConsoleConstants ==
  /\ Keys \subseteq ModKeys \cup {"CAPSLOCK"} \cup DOMAIN keymap
  /\ NEVENTS \in Nat /\ NEVENTS > 1
  /\ BUF_SZ \in Nat /\ BUF_SZ > 1 /\ READ_SZ \in Nat \ {0}
  /\ Ttys \subseteq {"1", "2"} /\ "1" \in Ttys
  /\ LINES \in Nat \ {0} /\ COLUMNS \in Nat \ {0} /\ SIZE > 1
  /\ PROMPT \in Nat

VARIABLES
  status,             \* "up", the message of the panic, or "readbuf overrun"
  down, capslock,     \* modifier keys that are down, and the caps lock
  events, front, rear, event_sem,
  inpc,               \* input_task: "read" a key or "signal" an event
  ttydev,             \* tty_task's current terminal
  tpc, ev,            \* tty_task and the event it handles
  q,                  \* the line ring of each terminal
  cooked,             \* its semaphore of complete lines
  cursor,
  spc, readbuf        \* the shells, and what they have read

inVars  == <<down, capslock, inpc>>
evVars  == <<events, front, rear>>
ttyVars == <<ttydev, tpc, ev>>
shVars  == <<spc, readbuf>>
vars == <<status, down, capslock, events, front, rear, event_sem, inpc, ttydev,
          tpc, ev, q, cooked, cursor, spc, readbuf>>

NoEvent == [ctrl |-> FALSE, alt |-> FALSE, data |-> NUL]

input_init ==
  /\ down = {} /\ capslock = FALSE
  /\ events = [i \in 0 .. NEVENTS - 1 |-> NoEvent]
  /\ front = 0 /\ rear = 0 /\ event_sem = 0

\* pmm->alloc returns memory that nobody has used before: zeroes.
tty_init ==
  /\ q = [t \in Ttys |-> [buf |-> [i \in 0 .. BUF_SZ - 1 |-> NUL],
                          front |-> 0, rear |-> 0, full |-> FALSE]]
  /\ cooked = [t \in Ttys |-> 0]
  /\ cursor = [t \in Ttys |-> 0]

\* The devices are initialised, the tasks are at the top of their loops.
Init ==
  /\ status = "up"
  /\ input_init /\ inpc = "read"
  /\ tty_init /\ ttydev = "1" /\ tpc = "wait" /\ ev = NoEvent
  /\ spc = [t \in Ttys |-> "prompt"]
  /\ readbuf = [t \in Ttys |-> <<>>]

(***************************************************************************)
(* input_task.                                                             *)
(***************************************************************************)
Held(ks) == down \cap ks # {}

\* The event of a character key.
event(k) ==
  LET ctrl  == Held({"LCTRL", "RCTRL"})
      alt   == Held({"LALT", "RALT"})
      shift == Held({"LSHIFT", "RSHIFT"}) # (k \in Letters /\ capslock)
  IN [ctrl |-> ctrl, alt |-> alt,
      data |-> IF ~ ctrl /\ ~ alt /\ shift THEN keymap_shift[k] ELSE keymap[k]]

push_event(e) ==
  /\ events' = [events EXCEPT ![rear] = e]
  /\ rear' = (rear + 1) % NEVENTS
  /\ IF rear' = front
     THEN status' = "input queue full" /\ UNCHANGED inpc
     ELSE inpc' = "signal" /\ UNCHANGED status

\* input_keydown for a key that goes down: a character, a modifier, the lock.
KeyDown ==
  /\ inpc = "read"
  /\ \/ /\ \E k \in Keys \cap DOMAIN keymap : push_event(event(k))
        /\ UNCHANGED <<down, capslock>>
     \/ /\ \E k \in Keys \ DOMAIN keymap :
             /\ down' = down \cup ({k} \cap ModKeys)
             /\ capslock' = (capslock # (k = "CAPSLOCK"))
        /\ UNCHANGED <<status, inpc, events, rear>>
  /\ UNCHANGED <<front, event_sem, ttyVars, q, cooked, cursor, shVars>>

KeyUp ==
  /\ inpc = "read"
  /\ \E k \in down : down' = down \ {k}
  /\ UNCHANGED <<status, capslock, inpc, evVars, event_sem, ttyVars, q, cooked,
                 cursor, shVars>>

SignalEvent ==
  /\ inpc = "signal"
  /\ event_sem' = event_sem + 1
  /\ inpc' = "read"
  /\ UNCHANGED <<status, down, capslock, evVars, ttyVars, q, cooked, cursor,
                 shVars>>

(***************************************************************************)
(* The ring of a terminal.  The byte at rear is always '\0'; a completed   *)
(* line ends in "\n\0", which is what stops a backspace.                   *)
(***************************************************************************)
BugEnqueueNoWrap(r, ch) ==
  LET n == r.rear + 1 IN
  [r EXCEPT !.buf[r.rear] = ch, !.rear = n, !.full = @ \/ n = r.front]

tty_enqueue(r, ch) ==
  LET n == (r.rear + 1) % BUF_SZ IN
  [r EXCEPT !.buf[r.rear] = ch, !.buf[n] = IF n = r.front THEN @ ELSE NUL,
            !.rear = n, !.full = @ \/ n = r.front]

Before(i) == (i - 1) % BUF_SZ

BugPopsAnything(r) == r.front # r.rear

\* tty_pop_back pops, and tty_cook then returns 0.
CanPop(r) == r.buf[Before(r.rear)] # NUL

tty_pop_back(r) ==
  IF CanPop(r)
  THEN [r EXCEPT !.rear = Before(@), !.buf[Before(r.rear)] = NUL]
  ELSE r

BugCookedNoEnd(r, ch) ==
  IF ch = BS THEN tty_pop_back(r) ELSE tty_enqueue(r, ch)

Cooked(r, ch) ==
  CASE ch = NL -> tty_enqueue(tty_enqueue(r, NL), NUL)
    [] ch = BS -> tty_pop_back(r)
    [] OTHER   -> tty_enqueue(r, ch)

(***************************************************************************)
(* The screen: where tty_putc leaves the cursor, and what it marks dirty.  *)
(***************************************************************************)
Column(c) == c % COLUMNS

BugScrolled(c) == c

Scrolled(c) == IF c = SIZE THEN c - COLUMNS ELSE c

tty_putc(c, ch) ==
  CASE ch = CR -> c - Column(c)
    [] ch = BS -> IF c > 0 THEN c - 1 ELSE c
    [] ch = NL -> Scrolled(c - Column(c) + COLUMNS)
    [] OTHER   -> Scrolled(c + 1)

Row(c) == {c - Column(c) + i : i \in 0 .. COLUMNS - 1}

tty_mark(c, ch) ==
  LET n == tty_putc(c, ch) IN
  CASE ch = CR -> Row(n)
    [] ch = BS -> {n, n + 1}
    [] ch = NL -> IF c - Column(c) + COLUMNS = SIZE THEN 0 .. SIZE - 1
                  ELSE Row(n - COLUMNS) \cup Row(n)
    [] OTHER   -> IF c + 1 = SIZE THEN 0 .. SIZE - 1 ELSE {n - 1, n}

tty_write(t, s) == cursor' = [cursor EXCEPT ![t] = FoldLeft(tty_putc, @, s)]

(***************************************************************************)
(* tty_task: pop_event, then switch the terminal or cook and echo.         *)
(***************************************************************************)
BugCanTake(v) == v >= 0

CanTake(v) == v > 0

WaitEvent ==
  /\ tpc = "wait" /\ CanTake(event_sem)
  /\ event_sem' = event_sem - 1
  /\ tpc' = "pop"
  /\ UNCHANGED <<status, inVars, evVars, ttydev, ev, q, cooked, cursor, shVars>>

pop_event ==
  /\ tpc = "pop"
  /\ IF rear = front
     THEN /\ status' = "input queue empty"
          /\ UNCHANGED <<events, front, ev, tpc>>
     ELSE /\ ev' = events[front]
          /\ events' = [events EXCEPT ![front] = NoEvent]
          /\ front' = (front + 1) % NEVENTS
          /\ tpc' = IF ev'.ctrl \/ ev'.alt THEN "switch" ELSE "cook"
          /\ UNCHANGED status
  /\ UNCHANGED <<inVars, rear, event_sem, ttydev, q, cooked, cursor, shVars>>

Handled == tpc' = "wait" /\ ev' = NoEvent

SwitchTty ==
  /\ tpc = "switch"
  /\ ttydev' = IF ev.alt /\ ev.data \in Ttys THEN ev.data ELSE ttydev
  /\ Handled
  /\ UNCHANGED <<status, inVars, evVars, event_sem, q, cooked, cursor, shVars>>

\* A panic in tty_enqueue leaves the ring to nobody.
tty_cook ==
  LET r == Cooked(q[ttydev], ev.data) IN
  /\ tpc = "cook"
  /\ \/ /\ r.full
        /\ status' = "tty queue full"
        /\ UNCHANGED <<q, cooked, tpc, ev>>
     \/ /\ ~ r.full
        /\ q' = [q EXCEPT ![ttydev] = r]
        /\ cooked' = [cooked EXCEPT ![ttydev] = IF ev.data = NL THEN @ + 1 ELSE @]
        /\ IF ev.data = BS /\ ~ CanPop(q[ttydev])
           THEN Handled ELSE tpc' = "echo" /\ UNCHANGED ev
        /\ UNCHANGED status
  /\ UNCHANGED <<inVars, evVars, event_sem, ttydev, cursor, shVars>>

Echo ==
  /\ tpc = "echo"
  /\ tty_write(ttydev, <<ev.data>>)
  /\ Handled
  /\ UNCHANGED <<status, inVars, evVars, event_sem, ttydev, q, cooked, shVars>>

(***************************************************************************)
(* shell_task: write the prompt, read a line.  tty_read goes on to the     *)
(* next '\0', which it skips, stores no more than READ_SZ characters and   *)
(* returns the length of the line, n, whatever it has stored.  The shell   *)
(* then clears readbuf[n - 1].                                             *)
(***************************************************************************)
ShellPrompt(t) ==
  /\ spc[t] = "prompt"
  /\ tty_write(t, [i \in 1 .. PROMPT |-> "$"])
  /\ spc' = [spc EXCEPT ![t] = "wait"]
  /\ readbuf' = [readbuf EXCEPT ![t] = <<>>]
  /\ UNCHANGED <<status, inVars, evVars, event_sem, ttyVars, q, cooked>>

ShellWait(t) ==
  /\ spc[t] = "wait" /\ CanTake(cooked[t])
  /\ cooked' = [cooked EXCEPT ![t] = @ - 1]
  /\ spc' = [spc EXCEPT ![t] = "read"]
  /\ UNCHANGED <<status, inVars, evVars, event_sem, ttyVars, q, cursor, readbuf>>

Stored(n) == IF n < READ_SZ THEN n ELSE READ_SZ

tty_read(t) ==
  LET r == q[t]
      At(i) == r.buf[(r.front + i) % BUF_SZ]
      n == Min({i \in 0 .. BUF_SZ - 1 : At(i) = NUL})
  IN
  /\ spc[t] = "read"
  /\ readbuf' = [readbuf EXCEPT ![t] = [i \in 1 .. Stored(n) |-> At(i - 1)]]
  /\ q' = [q EXCEPT ![t].front = (@ + n + 1) % BUF_SZ]
  /\ spc' = [spc EXCEPT ![t] = "prompt"]
  /\ status' = IF n - 1 \in 0 .. READ_SZ - 1 THEN status ELSE "readbuf overrun"
  /\ UNCHANGED <<inVars, evVars, event_sem, ttyVars, cooked, cursor>>

(***************************************************************************)
Up == status = "up"
Halted == ~ Up /\ UNCHANGED vars

Next ==
  \/ Up /\ (KeyDown \/ KeyUp \/ SignalEvent)
  \/ Up /\ (WaitEvent \/ pop_event \/ SwitchTty \/ tty_cook \/ Echo)
  \/ Up /\ \E t \in Ttys : ShellPrompt(t) \/ ShellWait(t) \/ tty_read(t)
  \/ Halted

Spec == Init /\ [][Next]_vars
(***************************************************************************)
(* Properties.                                                             *)
(***************************************************************************)
\* Every variable has its type: the rings' indices stay inside the rings, and
\* no read stores more than fits.
TypeOK ==
  /\ status \in {"up", "input queue full", "input queue empty", "tty queue full",
                 "readbuf overrun"}
  /\ inpc \in {"read", "signal"}
  /\ tpc \in {"wait", "pop", "switch", "cook", "echo"}
  /\ down \subseteq ModKeys /\ capslock \in BOOLEAN
  /\ events \in [0 .. NEVENTS - 1 -> Event]
  /\ front \in 0 .. NEVENTS - 1 /\ rear \in 0 .. NEVENTS - 1
  /\ event_sem \in 0 .. NEVENTS
  /\ ttydev \in Ttys /\ ev \in Event
  /\ \A t \in Ttys : /\ q[t].buf \in [0 .. BUF_SZ - 1 -> Chars]
                     /\ q[t].front \in 0 .. BUF_SZ - 1
                     /\ q[t].rear \in 0 .. BUF_SZ - 1
                     /\ cooked[t] \in Nat /\ cursor[t] \in Nat
                     /\ spc[t] \in {"prompt", "wait", "read"}
                     /\ Len(readbuf[t]) <= READ_SZ

\* An event that the semaphore announces is in the ring (input.c:24, 30-34):
\* pop_event never reaches its panic.
NoEmptyPop == status # "input queue empty"

\* The characters of a ring from front to rear, and the lines they make up.
Content(r) ==
  [i \in 1 .. (r.rear - r.front) % BUF_SZ |-> r.buf[(r.front + i - 1) % BUF_SZ]]

Split(r) ==
  LET c == Content(r)
      ends == {i \in DOMAIN c : c[i] = NUL} \cup {0}
      End(k) == CHOOSE e \in ends : Cardinality({d \in ends : d < e}) = k
      n == Cardinality(ends) - 1
  IN [lines |-> [k \in 1 .. n |-> SubSeq(c, End(k - 1) + 1, End(k) - 1)],
      edit  |-> SubSeq(c, End(n) + 1, Len(c))]

\* "tty cooked lines" (tty.c:193): the semaphore, together with a read that has
\* passed it, counts the lines in the ring.
CookedCountsLines ==
  \A t \in Ttys :
    Len(Split(q[t]).lines) = cooked[t] + (IF spc[t] = "read" THEN 1 ELSE 0)

\* Wherever the cursor can get, tty_putc marks cells of the screen only and
\* leaves the cursor on the screen (tty.c:139-171).
MarksOnScreen ==
  \A t \in Ttys : \A ch \in {CR, NL, BS, "a"} :
    /\ tty_putc(cursor[t], ch) \in 0 .. SIZE - 1
    /\ tty_mark(cursor[t], ch) \subseteq 0 .. SIZE - 1

\* The rings implement Lines: each read takes the oldest completed line and
\* returns it as it was edited, as far as the shell's buffer goes, and
\* backspace stops at the beginning of the line (tty.c:12-32, 65-83, 197-216).
L == INSTANCE Lines WITH
       Newline <- NL,
       Count <- READ_SZ,
       Plain <- Chars \ {NUL, NL, BS},
       lines <- [t \in Ttys |-> Split(q[t]).lines],
       edit <- [t \in Ttys |-> Split(q[t]).edit],
       got <- readbuf

LineDiscipline == L!Spec
=============================================================================
