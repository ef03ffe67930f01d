--------------------------- MODULE ConsoleProofs ---------------------------
(***************************************************************************)
(* Proofs about Console for every size of the rings and of the screen.     *)
(***************************************************************************)
EXTENDS Console, Lemmas, SequenceTheorems

Ring ==
  [buf : [0 .. BUF_SZ - 1 -> Chars], front : 0 .. BUF_SZ - 1,
   rear : 0 .. BUF_SZ - 1, full : BOOLEAN]
Screen == 0 .. SIZE - 1

\* tty_write folds tty_putc.
PutcTo(p, c, x) == tty_putc(c, x)
Putc == INSTANCE Lemmas WITH apply <- PutcTo

(***************************************************************************)
(* The screen.                                                             *)
(***************************************************************************)
\* A cell lies in one of the LINES rows, and the row lies on the screen.
LEMMA RowOnScreen ==
  ASSUME NEW c \in Screen
  PROVE  /\ Column(c) \in 0 .. COLUMNS - 1 /\ c - Column(c) \in Screen
         /\ c - Column(c) + COLUMNS \in 1 .. SIZE
         /\ (c - Column(c)) % COLUMNS = 0
         /\ c - Column(c) + COLUMNS < SIZE =>
              /\ c - Column(c) + COLUMNS + COLUMNS <= SIZE
              /\ (c - Column(c) + COLUMNS) % COLUMNS = 0
<1> DEFINE k == c \div COLUMNS
           r == c % COLUMNS
<1>1. COLUMNS \in Nat \ {0} /\ LINES \in Nat \ {0} /\ SIZE = COLUMNS * LINES
  BY ConsoleConstants DEF SIZE
<1>2. c \in Int /\ 0 <= c /\ c < COLUMNS * LINES
  BY <1>1 DEF Screen
<1>3. r \in 0 .. COLUMNS - 1 /\ k \in Int /\ c = (COLUMNS * k) + r
  BY <1>1, <1>2, DivMod
<1> HIDE DEF k, r
<1>4. k >= 0
  <2> SUFFICES ASSUME k <= -1 PROVE FALSE
    BY <1>3
  <2>1. COLUMNS * k <= -COLUMNS
    BY <1>1, <1>3
  <2> QED
    BY <1>1, <1>2, <1>3, <2>1
<1>5. \A i \in Int : (COLUMNS * i) % COLUMNS = 0
  <2> TAKE i \in Int
  <2>1. COLUMNS * i = (COLUMNS * i) + 0 /\ COLUMNS * i \in Int
    BY <1>1
  <2> QED
    BY <1>1, <2>1, ModUnique
<1>6. ASSUME NEW i \in Int, COLUMNS * i < COLUMNS * LINES
      PROVE  (COLUMNS * i) + COLUMNS <= COLUMNS * LINES
  <2>1. i < LINES
    <3> SUFFICES ASSUME i >= LINES PROVE FALSE
      BY <1>1
    <3>1. COLUMNS * i >= COLUMNS * LINES
      BY <1>1
    <3> QED
      BY <1>1, <1>6, <3>1
  <2>2. COLUMNS * (i + 1) <= COLUMNS * LINES
    BY <1>1, <2>1
  <2> QED
    BY <1>1, <2>2
<1>7. c - Column(c) = COLUMNS * k /\ Column(c) = r
  BY <1>1, <1>3 DEF Column, r
<1> DEFINE b == COLUMNS * k
<1>8. b \in Int /\ b >= 0 /\ b < COLUMNS * LINES /\ b + COLUMNS <= COLUMNS * LINES
  <2>1. b < COLUMNS * LINES
    BY <1>1, <1>2, <1>3
  <2> QED
    BY <1>1, <1>3, <1>4, <1>6, <2>1
<1>9. b % COLUMNS = 0
  BY <1>3, <1>5
<1>10. b + COLUMNS < COLUMNS * LINES =>
         /\ b + COLUMNS + COLUMNS <= COLUMNS * LINES
         /\ (b + COLUMNS) % COLUMNS = 0
  <2>1. b + COLUMNS = COLUMNS * (k + 1) /\ k + 1 \in Int
    BY <1>1, <1>3
  <2> QED
    BY <1>5, <1>6, <2>1
<1> HIDE DEF b
<1>11. c - Column(c) = b
  BY <1>7 DEF b
<1> QED
  BY <1>1, <1>3, <1>7, <1>8, <1>9, <1>10, <1>11 DEF Screen

\* Whatever is written, tty_putc leaves the cursor on the screen (tty.c:139-171).
LEMMA PutcOnScreen ==
  ASSUME NEW c \in Screen, NEW ch
  PROVE  tty_putc(c, ch) \in Screen
<1>1. COLUMNS \in Nat \ {0} /\ SIZE \in Nat
  BY ConsoleConstants DEF SIZE
<1>2. /\ c - Column(c) \in Screen /\ c - Column(c) + COLUMNS \in 1 .. SIZE
      /\ Column(c) \in 0 .. COLUMNS - 1
  BY RowOnScreen
<1>3. SIZE - COLUMNS \in Screen
  BY <1>1, ConsoleConstants, RowOnScreen DEF Screen
<1> QED
  BY <1>1, <1>2, <1>3 DEF tty_putc, Scrolled, Screen

\* tty_write of any string keeps the cursor on the screen.
LEMMA WriteOnScreen ==
  ASSUME NEW E, NEW c \in Screen, NEW s \in Seq(E)
  PROVE  FoldLeft(tty_putc, c, s) \in Screen
<1>1. \A y \in Screen, e \in E : PutcTo(0, y, e) \in Screen
  BY PutcOnScreen DEF PutcTo
<1>2. Putc!Fold(0, c, s) \in Screen
  BY <1>1, Putc!FoldType
<1>3. Putc!Fold(0, c, s) = FoldLeft(tty_putc, c, s)
  BY DEF FoldLeft, MapThenFoldSet, Max, PutcTo,
         Putc!Fold, Putc!FoldLeft, Putc!MapThenFoldSet, Putc!Max
<1> QED
  BY <1>2, <1>3
(***************************************************************************)
(* The rings.                                                              *)
(***************************************************************************)
\* The next and the previous slot of a terminal's ring.
LEMMA Slots ==
  ASSUME NEW i \in 0 .. BUF_SZ - 1
  PROVE  /\ BUF_SZ \in Nat /\ BUF_SZ > 1
         /\ (i + 1) % BUF_SZ = (IF i + 1 = BUF_SZ THEN 0 ELSE i + 1)
         /\ Before(i) = (IF i = 0 THEN BUF_SZ - 1 ELSE i - 1)
         /\ (i + 1) % BUF_SZ \in 0 .. BUF_SZ - 1 /\ Before(i) \in 0 .. BUF_SZ - 1
<1>1. BUF_SZ \in Nat \ {0} /\ BUF_SZ > 1 /\ i \in Int
  BY ConsoleConstants
<1>2. i % BUF_SZ = i
  BY <1>1, ModSmall
<1>3. (i + 1) % BUF_SZ = IF (i % BUF_SZ) + 1 = BUF_SZ THEN 0 ELSE (i % BUF_SZ) + 1
  BY <1>1, ModSucc, Zenon
<1>4. Before(i) = IF i = 0 THEN BUF_SZ - 1 ELSE i - 1
  <2>1. CASE i = 0
    <3>1. i - 1 = (BUF_SZ * (-1)) + (BUF_SZ - 1) /\ BUF_SZ - 1 \in 0 .. BUF_SZ - 1
          /\ i - 1 \in Int /\ -1 \in Int
      BY <1>1, <2>1
    <3> QED
      BY <1>1, <2>1, <3>1, ModUnique DEF Before
  <2>2. CASE i # 0
    <3>1. i - 1 \in 0 .. BUF_SZ - 1
      BY <1>1, <2>2
    <3> QED
      BY <1>1, <2>2, <3>1, ModSmall DEF Before
  <2> QED
    BY <2>1, <2>2
<1> QED
  BY <1>1, <1>2, <1>3, <1>4

\* The next slot of the event ring.
LEMMA EventSlots ==
  ASSUME NEW i \in 0 .. NEVENTS - 1
  PROVE  /\ NEVENTS \in Nat /\ NEVENTS > 1
         /\ (i + 1) % NEVENTS = (IF i + 1 = NEVENTS THEN 0 ELSE i + 1)
<1>1. NEVENTS \in Nat \ {0} /\ NEVENTS > 1 /\ i \in Int
  BY ConsoleConstants
<1>2. i % NEVENTS = i
  BY <1>1, ModSmall
<1>3. (i + 1) % NEVENTS = IF (i % NEVENTS) + 1 = NEVENTS THEN 0 ELSE (i % NEVENTS) + 1
  BY <1>1, ModSucc, Zenon
<1> QED
  BY <1>1, <1>2, <1>3

\* What tty_enqueue does to each field (tty.c:12-20).
LEMMA Enqueue ==
  ASSUME NEW r \in Ring, NEW ch \in Chars
  PROVE  LET n == (r.rear + 1) % BUF_SZ
             e == tty_enqueue(r, ch)
         IN  /\ e \in Ring /\ e.rear = n /\ e.front = r.front
             /\ (e.full <=> r.full \/ n = r.front)
             /\ n # r.front => e.buf = [r.buf EXCEPT ![r.rear] = ch, ![n] = NUL]
<1> DEFINE n == (r.rear + 1) % BUF_SZ
           e == tty_enqueue(r, ch)
           b == [r.buf EXCEPT ![r.rear] = ch]
           d == [b EXCEPT ![n] = IF n = r.front THEN r.buf[n] ELSE NUL]
<1>1. /\ r.buf \in [0 .. BUF_SZ - 1 -> Chars] /\ r.rear \in 0 .. BUF_SZ - 1
      /\ r.front \in 0 .. BUF_SZ - 1 /\ r.full \in BOOLEAN
  BY DEF Ring
<1>2. n \in 0 .. BUF_SZ - 1 /\ n # r.rear
  <2>1. /\ BUF_SZ \in Nat /\ BUF_SZ > 1 /\ n \in 0 .. BUF_SZ - 1
        /\ n = IF r.rear + 1 = BUF_SZ THEN 0 ELSE r.rear + 1
    BY <1>1, Slots
  <2> HIDE DEF n
  <2> QED
    BY <1>1, <2>1
<1> HIDE DEF n
<1>3. d \in [0 .. BUF_SZ - 1 -> Chars] /\ NUL \in Chars
  BY <1>1, <1>2 DEF Chars
<1>4. e = [r EXCEPT !.buf = d, !.rear = n, !.full = @ \/ n = r.front]
  BY DEF tty_enqueue, n
<1>5. /\ e.buf = d /\ e.rear = n /\ e.front = r.front
      /\ e.full = (r.full \/ n = r.front)
      /\ e \in Ring
  <2> HIDE DEF e, d
  <2>1. r = [buf |-> r.buf, front |-> r.front, rear |-> r.rear, full |-> r.full]
    BY DEF Ring
  <2>2. e = [buf |-> d, front |-> r.front, rear |-> n, full |-> (r.full \/ n = r.front)]
    BY <1>4, <2>1
  <2> QED
    BY <1>1, <1>2, <1>3, <2>2 DEF Ring
<1>6. n # r.front => d = [r.buf EXCEPT ![r.rear] = ch, ![n] = NUL]
  BY <1>1, <1>2
<1> HIDE DEF e, d
<1> QED
  BY <1>5, <1>6 DEF e, n
\* What tty_pop_back does to each field (tty.c:22-32).
LEMMA PopBack ==
  ASSUME NEW r \in Ring, CanPop(r)
  PROVE  LET n == Before(r.rear)
             e == tty_pop_back(r)
         IN  /\ e \in Ring /\ e.rear = n /\ e.front = r.front /\ e.full = r.full
             /\ e.buf = [r.buf EXCEPT ![n] = NUL]
<1> DEFINE n == Before(r.rear)
           e == tty_pop_back(r)
           d == [r.buf EXCEPT ![n] = NUL]
<1>1. /\ r.buf \in [0 .. BUF_SZ - 1 -> Chars] /\ r.rear \in 0 .. BUF_SZ - 1
      /\ r.front \in 0 .. BUF_SZ - 1 /\ r.full \in BOOLEAN
      /\ r = [buf |-> r.buf, front |-> r.front, rear |-> r.rear, full |-> r.full]
  BY DEF Ring
<1>2. n \in 0 .. BUF_SZ - 1
  BY <1>1, Slots
<1> HIDE DEF n
<1>3. d \in [0 .. BUF_SZ - 1 -> Chars]
  BY <1>1, <1>2 DEF Chars
<1>4. e = [r EXCEPT !.rear = n, !.buf = d]
  BY DEF tty_pop_back, n
<1> HIDE DEF e, d
<1>5. e = [buf |-> d, front |-> r.front, rear |-> n, full |-> r.full]
  BY <1>1, <1>4
<1>6. e.buf = d /\ e.rear = n /\ e.front = r.front /\ e.full = r.full /\ e \in Ring
  BY <1>1, <1>2, <1>3, <1>5 DEF Ring
<1> QED
  BY <1>6 DEF e, n, d

\* A ring between two operations: it is not full and the byte at rear is '\0'.
Sound(r) == r \in Ring /\ ~ r.full /\ r.buf[r.rear] = NUL

\* tty_enqueue keeps a ring sound or finds it full.
LEMMA EnqueueSound ==
  ASSUME NEW r, Sound(r), NEW ch \in Chars
  PROVE  LET e == tty_enqueue(r, ch) IN e \in Ring /\ (e.full \/ Sound(e))
<1> DEFINE n == (r.rear + 1) % BUF_SZ
           e == tty_enqueue(r, ch)
<1>1. /\ r \in Ring /\ r.buf \in [0 .. BUF_SZ - 1 -> Chars] /\ r.full = FALSE
      /\ r.rear \in 0 .. BUF_SZ - 1 /\ n \in 0 .. BUF_SZ - 1
  BY Slots DEF Sound, Ring
<1>2. /\ e \in Ring /\ e.rear = n /\ (e.full <=> r.full \/ n = r.front)
      /\ n # r.front => e.buf = [r.buf EXCEPT ![r.rear] = ch, ![n] = NUL]
  BY <1>1, Enqueue
<1> HIDE DEF n, e
<1>3. e \in Ring /\ (e.full \/ Sound(e))
  BY <1>1, <1>2 DEF Sound
<1> QED
  BY <1>3 DEF e

\* The panic of tty_enqueue is not forgotten by the next one.
LEMMA FullStays ==
  ASSUME NEW r \in Ring, r.full, NEW ch \in Chars
  PROVE  tty_enqueue(r, ch) \in Ring /\ tty_enqueue(r, ch).full
BY Enqueue

\* tty_cook keeps a ring sound or finds it full, whatever the key.
LEMMA CookedSound ==
  ASSUME NEW r, Sound(r), NEW ch \in Chars
  PROVE  LET e == Cooked(r, ch) IN e \in Ring /\ (e.full \/ Sound(e))
<1>0. NL \in Chars /\ NUL \in Chars /\ r \in Ring
  BY DEF Chars, Sound
<1>1. CASE ch = NL
  <2> DEFINE d == tty_enqueue(r, NL)
             e == tty_enqueue(d, NUL)
  <2>1. d \in Ring /\ (d.full \/ Sound(d))
    BY <1>0, EnqueueSound
  <2> HIDE DEF d
  <2>2. e \in Ring /\ (e.full \/ Sound(e))
    BY <1>0, <2>1, EnqueueSound, FullStays
  <2> HIDE DEF e
  <2>3. Cooked(r, ch) = e
    BY <1>1 DEF Cooked, e, d, NL, BS
  <2> QED
    BY <2>2, <2>3
<1>2. CASE ch = BS
  <2>1. Cooked(r, ch) = tty_pop_back(r)
    BY <1>2 DEF Cooked, NL, BS
  <2>2. CASE CanPop(r)
    <3>1. r.rear \in 0 .. BUF_SZ - 1 /\ r.buf \in [0 .. BUF_SZ - 1 -> Chars]
      BY <1>0 DEF Ring
    <3>2. Before(r.rear) \in 0 .. BUF_SZ - 1
      BY <3>1, Slots
    <3> DEFINE e == tty_pop_back(r)
    <3>3. /\ e \in Ring /\ e.rear = Before(r.rear) /\ e.full = r.full
          /\ e.buf = [r.buf EXCEPT ![Before(r.rear)] = NUL]
      BY <1>0, <2>2, PopBack
    <3> HIDE DEF e
    <3>4. Sound(e)
      BY <3>1, <3>2, <3>3 DEF Sound
    <3> QED
      BY <2>1, <3>3, <3>4 DEF e
  <2>3. CASE ~ CanPop(r)
    BY <1>0, <2>1, <2>3 DEF tty_pop_back
  <2> QED
    BY <2>2, <2>3
<1>3. CASE ch # NL /\ ch # BS
  <2>1. Cooked(r, ch) = tty_enqueue(r, ch)
    BY <1>3 DEF Cooked
  <2> QED
    BY <2>1, EnqueueSound
<1> QED
  BY <1>1, <1>2, <1>3
(***************************************************************************)
(* The invariant.                                                          *)
(***************************************************************************)
\* Events in the ring.
Used == IF rear >= front THEN rear - front ELSE rear - front + NEVENTS

\* Each of them is announced, about to be announced, or about to be popped.
Announced ==
  event_sem + (IF inpc = "signal" THEN 1 ELSE 0) + (IF tpc = "pop" THEN 1 ELSE 0)

\* The keyboard and the event ring.
InputInv ==
  /\ status \in {"up", "input queue full", "tty queue full", "readbuf overrun"}
  /\ down \subseteq ModKeys /\ capslock \in BOOLEAN
  /\ events \in [0 .. NEVENTS - 1 -> Event]
  /\ front \in 0 .. NEVENTS - 1 /\ rear \in 0 .. NEVENTS - 1
  /\ event_sem \in 0 .. NEVENTS - 1
  /\ inpc \in {"read", "signal"}
  /\ tpc \in {"wait", "pop", "switch", "cook", "echo"}
  /\ Up => Announced = Used

\* The terminals.
TtyInv ==
  /\ ttydev \in Ttys /\ ev \in Event
  /\ q \in [Ttys -> Ring] /\ \A t \in Ttys : Sound(q[t])
  /\ cooked \in [Ttys -> Nat]
  /\ cursor \in [Ttys -> Screen]

\* The shells.
ShellInv ==
  /\ spc \in [Ttys -> {"prompt", "wait", "read"}]
  /\ readbuf \in [Ttys -> Seq(Chars)]
  /\ \A t \in Ttys : Len(readbuf[t]) <= READ_SZ

CInv == InputInv /\ TtyInv /\ ShellInv
\* A key's event is an event.
LEMMA EventType ==
  ASSUME NEW k \in DOMAIN keymap
  PROVE  event(k) \in Event
<1>1. k \in {"K_1", "K_2", "K_RETURN", "K_BACKSPACE", "K_A"}
  BY DEF keymap
<1>2. keymap[k] \in Chars /\ keymap_shift[k] \in Chars
  BY <1>1 DEF keymap, keymap_shift, Chars, NUL, NL, BS
<1> DEFINE s == Held({"LSHIFT", "RSHIFT"}) # (k \in Letters /\ capslock)
<1>3. Held({"LCTRL", "RCTRL"}) \in BOOLEAN /\ Held({"LALT", "RALT"}) \in BOOLEAN
  BY DEF Held
<1> QED
  BY <1>2, <1>3 DEF event, Event

\* push_event after the panic test, and pop_event: what they do to the number of
\* events in the ring.
LEMMA UsedStep ==
  ASSUME NEW i \in 0 .. NEVENTS - 1, NEW j \in 0 .. NEVENTS - 1
  PROVE  LET Cells(f, r) == IF r >= f THEN r - f ELSE r - f + NEVENTS
             m == (j + 1) % NEVENTS
             n == (i + 1) % NEVENTS
         IN  /\ m \in 0 .. NEVENTS - 1 /\ n \in 0 .. NEVENTS - 1
             /\ Cells(i, j) \in 0 .. NEVENTS - 1
             /\ m # i => Cells(i, m) = Cells(i, j) + 1
             /\ i # j => Cells(n, j) = Cells(i, j) - 1
             /\ (i = j <=> Cells(i, j) = 0)
<1>1. /\ NEVENTS \in Nat /\ NEVENTS > 1
      /\ (i + 1) % NEVENTS = (IF i + 1 = NEVENTS THEN 0 ELSE i + 1)
      /\ (j + 1) % NEVENTS = (IF j + 1 = NEVENTS THEN 0 ELSE j + 1)
  BY EventSlots
<1> DEFINE m == (j + 1) % NEVENTS
           n == (i + 1) % NEVENTS
<1> HIDE DEF m, n
<1>2. m = (IF j + 1 = NEVENTS THEN 0 ELSE j + 1) /\ n = (IF i + 1 = NEVENTS THEN 0 ELSE i + 1)
  BY <1>1 DEF m, n
<1>3. LET Cells(f, r) == IF r >= f THEN r - f ELSE r - f + NEVENTS
      IN  /\ m \in 0 .. NEVENTS - 1 /\ n \in 0 .. NEVENTS - 1
          /\ Cells(i, j) \in 0 .. NEVENTS - 1
          /\ m # i => Cells(i, m) = Cells(i, j) + 1
          /\ i # j => Cells(n, j) = Cells(i, j) - 1
          /\ (i = j <=> Cells(i, j) = 0)
  BY <1>1, <1>2
<1> QED
  BY <1>3 DEF m, n

\* The keyboard's half of the invariant is preserved by every step.
LEMMA InputStep ==
  ASSUME InputInv, TtyInv, [Next]_vars
  PROVE  InputInv'
<1>0. /\ NEVENTS \in Nat /\ NEVENTS > 1
      /\ front \in 0 .. NEVENTS - 1 /\ rear \in 0 .. NEVENTS - 1
      /\ events \in [0 .. NEVENTS - 1 -> Event] /\ event_sem \in 0 .. NEVENTS - 1
  BY ConsoleConstants DEF InputInv
<1>1. CASE Up /\ KeyDown
  <2>1. CASE \E k \in Keys \cap DOMAIN keymap :
               push_event(event(k)) /\ UNCHANGED <<down, capslock>>
    <3>1. PICK k \in Keys \cap DOMAIN keymap :
               push_event(event(k)) /\ UNCHANGED <<down, capslock>>
      BY <2>1
    <3>2. event(k) \in Event
      BY EventType
    <3>3. /\ events' = [events EXCEPT ![rear] = event(k)]
          /\ rear' = (rear + 1) % NEVENTS
          /\ front' = front /\ event_sem' = event_sem /\ tpc' = tpc /\ inpc = "read"
          /\ down' = down /\ capslock' = capslock
          /\ \/ rear' = front /\ status' = "input queue full" /\ inpc' = inpc
             \/ rear' # front /\ inpc' = "signal" /\ status' = status
      BY <1>1, <3>1 DEF push_event, KeyDown, ttyVars
    <3> HIDE DEF event
    <3>4. events' \in [0 .. NEVENTS - 1 -> Event]
      BY <1>0, <3>2, <3>3
    <3>5. /\ rear' \in 0 .. NEVENTS - 1
          /\ rear' # front => Used' = Used + 1 /\ Used' \in 0 .. NEVENTS - 1
      BY <1>0, <3>3, UsedStep DEF Used
    <3>6. Announced = Used /\ event_sem \in 0 .. NEVENTS - 1 /\ status = "up"
      BY <1>1 DEF InputInv, Up
    <3>7. rear' # front => Announced' = Announced + 1
      <4>1. inpc = "read" /\ event_sem' = event_sem /\ tpc' = tpc
            /\ (rear' # front => inpc' = "signal")
        BY <3>3
      <4> QED
        BY <1>0, <4>1 DEF Announced
    <3>8. Up' => Announced' = Used'
      BY <3>3, <3>5, <3>6, <3>7 DEF Up
    <3> QED
      BY <3>3, <3>4, <3>5, <3>8 DEF InputInv
  <2>2. CASE \E k \in Keys \ DOMAIN keymap :
               /\ down' = down \cup ({k} \cap ModKeys)
               /\ capslock' = (capslock # (k = "CAPSLOCK"))
               /\ UNCHANGED <<status, inpc, events, rear>>
    <3>1. capslock' \in BOOLEAN
      BY <2>2, Zenon
    <3>2. down' \subseteq ModKeys
      BY <2>2 DEF InputInv
    <3>3. UNCHANGED <<status, inpc, events, rear, front, event_sem, tpc>>
      BY <1>1, <2>2 DEF KeyDown, ttyVars
    <3> QED
      BY <3>1, <3>2, <3>3 DEF InputInv, Announced, Used, Up
  <2> QED
    BY <1>1, <2>1, <2>2 DEF KeyDown
<1>2. CASE Up /\ KeyUp
  BY <1>2 DEF KeyUp, InputInv, Announced, Used, Up, ttyVars, evVars
<1>3. CASE Up /\ SignalEvent
  <2>1. /\ event_sem' = event_sem + 1 /\ inpc = "signal" /\ inpc' = "read"
        /\ UNCHANGED <<status, down, capslock, events, front, rear, tpc>>
    BY <1>3 DEF SignalEvent, evVars, ttyVars
  <2>2. Used \in 0 .. NEVENTS - 1 /\ Used' = Used
    BY <1>0, <2>1, UsedStep DEF Used
  <2> QED
    BY <1>0, <1>3, <2>1, <2>2 DEF InputInv, Announced, Up
<1>4. CASE Up /\ WaitEvent
  BY <1>0, <1>4 DEF WaitEvent, CanTake, InputInv, Announced, Used, Up, inVars, evVars
<1>5. CASE Up /\ pop_event
  <2>1. rear # front
    <3>0. tpc = "pop"
      BY <1>5 DEF pop_event
    <3>1. Announced > 0
      BY <1>0, <3>0 DEF Announced
    <3>2. Announced = Used
      BY <1>5 DEF InputInv
    <3>3. rear = front => Used = 0
      BY <1>0 DEF Used
    <3> QED
      BY <3>1, <3>2, <3>3
  <2>2. /\ events' = [events EXCEPT ![front] = NoEvent]
        /\ front' = (front + 1) % NEVENTS
        /\ tpc = "pop" /\ tpc' \in {"switch", "cook"}
        /\ UNCHANGED <<status, down, capslock, inpc, rear, event_sem>>
    BY <1>5, <2>1 DEF pop_event, inVars
  <2>3. events' \in [0 .. NEVENTS - 1 -> Event]
    BY <1>0, <2>2 DEF NoEvent, Event, Chars
  <2>4. front' \in 0 .. NEVENTS - 1 /\ Used' = Used - 1
    BY <1>0, <2>1, <2>2, UsedStep DEF Used
  <2> QED
    BY <1>0, <1>5, <2>2, <2>3, <2>4 DEF InputInv, Announced, Up
<1>6. CASE Up /\ SwitchTty
  BY <1>6 DEF SwitchTty, Handled, InputInv, Announced, Used, Up, inVars, evVars
<1>7. CASE Up /\ tty_cook
  <2>1. /\ tpc = "cook" /\ tpc' \in {"cook", "wait", "echo"}
        /\ status' \in {status, "tty queue full"}
        /\ UNCHANGED <<down, capslock, inpc, events, front, rear, event_sem>>
    BY <1>7 DEF tty_cook, Handled, inVars, evVars
  <2> QED
    BY <1>7, <2>1 DEF InputInv, Announced, Used, Up
<1>8. CASE Up /\ Echo
  BY <1>8 DEF Echo, Handled, InputInv, Announced, Used, Up, inVars, evVars
<1>9. CASE Up /\ \E t \in Ttys : ShellPrompt(t) \/ ShellWait(t) \/ tty_read(t)
  <2>1. /\ UNCHANGED <<inVars, evVars, event_sem, ttyVars>>
        /\ status' \in {status, "readbuf overrun"}
    BY <1>9 DEF ShellPrompt, ShellWait, tty_read
  <2> QED
    BY <1>9, <2>1 DEF InputInv, Announced, Used, Up, inVars, evVars, ttyVars
<1>10. CASE Halted \/ UNCHANGED vars
  BY <1>10 DEF Halted, vars, InputInv, Announced, Used, Up
<1> QED
  BY <1>1, <1>2, <1>3, <1>4, <1>5, <1>6, <1>7, <1>8, <1>9, <1>10 DEF Next
\* In a sound ring tty_read finds its '\0', and front stays on the ring.
LEMMA ReadEnds ==
  ASSUME NEW r, Sound(r)
  PROVE  LET n == Min({i \in 0 .. BUF_SZ - 1 : r.buf[(r.front + i) % BUF_SZ] = NUL})
         IN  /\ n \in 0 .. BUF_SZ - 1 /\ r.buf[(r.front + n) % BUF_SZ] = NUL
             /\ \A i \in 0 .. n - 1 : r.buf[(r.front + i) % BUF_SZ] # NUL
             /\ (r.front + n + 1) % BUF_SZ \in 0 .. BUF_SZ - 1
<1> DEFINE Z == {i \in 0 .. BUF_SZ - 1 : r.buf[(r.front + i) % BUF_SZ] = NUL}
           n == Min(Z)
<1>1. /\ BUF_SZ \in Nat \ {0} /\ r.front \in 0 .. BUF_SZ - 1 /\ r.rear \in 0 .. BUF_SZ - 1
      /\ r.buf[r.rear] = NUL
  BY ConsoleConstants DEF Sound, Ring
<1> DEFINE d == (r.rear - r.front) % BUF_SZ
<1>2. d \in 0 .. BUF_SZ - 1 /\ (r.front + d) % BUF_SZ = r.rear
  BY <1>1, AcrossRing
<1>3. Z \in SUBSET Nat /\ Z # {}
  BY <1>1, <1>2
<1>4. \E m \in Z : \A k \in Z : m <= k
  <2> HIDE DEF Z
  <2> QED
    BY <1>3, LeastNatural
<1>5. n \in Z /\ \A k \in Z : n <= k
  <2> HIDE DEF Z
  <2> QED
    BY <1>4 DEF Min
<1> HIDE DEF n
<1>6. n \in 0 .. BUF_SZ - 1 /\ r.buf[(r.front + n) % BUF_SZ] = NUL
  BY <1>5
<1>7. \A i \in 0 .. n - 1 : r.buf[(r.front + i) % BUF_SZ] # NUL
  BY <1>1, <1>5
<1>8. (r.front + n + 1) % BUF_SZ \in 0 .. BUF_SZ - 1
  <2>1. r.front + n + 1 \in Int
    BY <1>1, <1>6
  <2> QED
    BY <1>1, <2>1, DivMod, Zenon
<1> QED
  BY <1>6, <1>7, <1>8 DEF n
\* The terminals' half of the invariant is preserved by every step.
LEMMA TtyStep ==
  ASSUME InputInv, TtyInv, [Next]_vars
  PROVE  TtyInv'
<1> DEFINE Rest == <<ttydev, ev, q, cooked, cursor>>
<1>0. /\ ttydev \in Ttys /\ ev \in Event /\ ev.data \in Chars
      /\ q \in [Ttys -> Ring] /\ \A t \in Ttys : Sound(q[t])
      /\ cooked \in [Ttys -> Nat] /\ cursor \in [Ttys -> Screen]
  BY DEF TtyInv, Event
<1>1. CASE UNCHANGED Rest
  BY <1>1 DEF TtyInv
<1>2. CASE Up /\ (KeyDown \/ KeyUp \/ SignalEvent \/ WaitEvent \/ Halted)
  <2>1. UNCHANGED Rest
    BY <1>2 DEF KeyDown, KeyUp, SignalEvent, WaitEvent, Halted, vars, ttyVars
  <2> QED
    BY <1>1, <2>1
<1>3. CASE Up /\ pop_event
  <2>1. events[front] \in Event
    BY DEF InputInv
  <2>2. UNCHANGED <<ttydev, q, cooked, cursor>> /\ ev' \in {ev, events[front]}
    BY <1>3 DEF pop_event
  <2> QED
    BY <1>0, <2>1, <2>2 DEF TtyInv
<1>4. NoEvent \in Event
  BY DEF NoEvent, Event, Chars
<1>5. CASE Up /\ SwitchTty
  BY <1>0, <1>4, <1>5 DEF SwitchTty, Handled, TtyInv
<1>6. CASE Up /\ tty_cook
  <2> DEFINE r == Cooked(q[ttydev], ev.data)
  <2>1. r \in Ring /\ (r.full \/ Sound(r))
    BY <1>0, CookedSound
  <2>2. /\ UNCHANGED <<ttydev, cursor>>
        /\ \/ UNCHANGED <<q, cooked, ev>>
           \/ /\ ~ r.full /\ q' = [q EXCEPT ![ttydev] = r]
              /\ cooked' = [cooked EXCEPT ![ttydev] = IF ev.data = NL THEN @ + 1 ELSE @]
              /\ ev' \in {ev, NoEvent}
    BY <1>6 DEF tty_cook, Handled
  <2> HIDE DEF r
  <2>3. q' \in [Ttys -> Ring] /\ \A t \in Ttys : Sound(q'[t])
    BY <1>0, <2>1, <2>2
  <2>4. cooked' \in [Ttys -> Nat]
    BY <1>0, <2>2
  <2> QED
    BY <1>0, <1>4, <2>2, <2>3, <2>4 DEF TtyInv
<1>7. ASSUME NEW t \in Ttys, NEW E, NEW s \in Seq(E), tty_write(t, s)
      PROVE  cursor' \in [Ttys -> Screen]
  <2>1. FoldLeft(tty_putc, cursor[t], s) \in Screen
    BY <1>0, WriteOnScreen
  <2>2. cursor' = [cursor EXCEPT ![t] = FoldLeft(tty_putc, cursor[t], s)]
    BY <1>7 DEF tty_write
  <2> QED
    BY <1>0, <2>1, <2>2
<1>8. CASE Up /\ Echo
  <2>1. <<ev.data>> \in Seq(Chars)
    BY <1>0
  <2>2. tty_write(ttydev, <<ev.data>>) /\ ev' = NoEvent /\ UNCHANGED <<ttydev, q, cooked>>
    BY <1>8 DEF Echo, Handled
  <2>3. cursor' \in [Ttys -> Screen]
    BY <1>0, <1>7, <2>1, <2>2
  <2> QED
    BY <1>0, <1>4, <2>2, <2>3 DEF TtyInv
<1>9. ASSUME NEW t \in Ttys, ShellPrompt(t)
      PROVE  TtyInv'
  <2>1. [i \in 1 .. PROMPT |-> "$"] \in Seq({"$"})
    BY ConsoleConstants
  <2>2. tty_write(t, [i \in 1 .. PROMPT |-> "$"]) /\ UNCHANGED <<ttydev, ev, q, cooked>>
    BY <1>9 DEF ShellPrompt, ttyVars
  <2>3. cursor' \in [Ttys -> Screen]
    BY <1>7, <2>1, <2>2
  <2> QED
    BY <1>0, <2>2, <2>3 DEF TtyInv
<1>10. ASSUME NEW t \in Ttys, ShellWait(t)
       PROVE  TtyInv'
  <2>1. /\ UNCHANGED <<ttydev, ev, q, cursor>> /\ cooked[t] > 0
        /\ cooked' = [cooked EXCEPT ![t] = @ - 1]
    BY <1>10 DEF ShellWait, CanTake, ttyVars
  <2>2. cooked' \in [Ttys -> Nat]
    BY <1>0, <2>1
  <2> QED
    BY <1>0, <2>1, <2>2 DEF TtyInv
<1>11. ASSUME NEW t \in Ttys, tty_read(t)
       PROVE  TtyInv'
  <2> DEFINE n == Min({i \in 0 .. BUF_SZ - 1 : q[t].buf[(q[t].front + i) % BUF_SZ] = NUL})
             m == (q[t].front + n + 1) % BUF_SZ
  <2>1. m \in 0 .. BUF_SZ - 1
    BY <1>0, ReadEnds
  <2>2. UNCHANGED <<ttydev, ev, cooked, cursor>> /\ q' = [q EXCEPT ![t].front = m]
    BY <1>11 DEF tty_read, ttyVars
  <2> HIDE DEF m
  <2>3. q'[t] = [q[t] EXCEPT !.front = m] /\ \A u \in Ttys : u # t => q'[u] = q[u]
    BY <1>0, <2>2
  <2>4. [q[t] EXCEPT !.front = m] \in Ring /\ Sound([q[t] EXCEPT !.front = m])
    <3>1. q[t] \in Ring /\ Sound(q[t])
      BY <1>0
    <3> QED
      BY <2>1, <3>1 DEF Ring, Sound
  <2>5. q' \in [Ttys -> Ring] /\ \A u \in Ttys : Sound(q'[u])
    BY <1>0, <2>2, <2>3, <2>4
  <2> QED
    BY <1>0, <2>2, <2>5 DEF TtyInv
<1>12. CASE Halted \/ UNCHANGED vars
  BY <1>1, <1>12 DEF Halted, vars
<1> QED
  BY <1>2, <1>3, <1>5, <1>6, <1>8, <1>9, <1>10, <1>11, <1>12 DEF Next

\* No shell's read stores more than fits.
LEMMA ShellStep ==
  ASSUME TtyInv, ShellInv, [Next]_vars
  PROVE  ShellInv'
<1>0. /\ READ_SZ \in Nat \ {0} /\ spc \in [Ttys -> {"prompt", "wait", "read"}]
      /\ readbuf \in [Ttys -> Seq(Chars)] /\ \A t \in Ttys : Len(readbuf[t]) <= READ_SZ
  BY ConsoleConstants DEF ShellInv
<1>1. CASE UNCHANGED <<spc, readbuf>>
  BY <1>1 DEF ShellInv
<1>2. CASE KeyDown \/ KeyUp \/ SignalEvent \/ WaitEvent \/ pop_event \/ SwitchTty \/ tty_cook
  BY <1>1, <1>2
     DEF KeyDown, KeyUp, SignalEvent, WaitEvent, pop_event, SwitchTty, tty_cook, shVars
<1>3. CASE Echo
  BY <1>1, <1>3 DEF Echo, shVars
<1>4. ASSUME NEW t \in Ttys, ShellPrompt(t)
      PROVE  ShellInv'
  <2>1. /\ spc' = [spc EXCEPT ![t] = "wait"] /\ readbuf' = [readbuf EXCEPT ![t] = <<>>]
    BY <1>4 DEF ShellPrompt
  <2>2. <<>> \in Seq(Chars) /\ Len(<<>>) <= READ_SZ
    BY <1>0
  <2> QED
    BY <1>0, <2>1, <2>2 DEF ShellInv
<1>5. ASSUME NEW t \in Ttys, ShellWait(t)
      PROVE  ShellInv'
  BY <1>0, <1>5 DEF ShellWait, ShellInv
<1>6. ASSUME NEW t \in Ttys, tty_read(t)
      PROVE  ShellInv'
  <2> DEFINE n == Min({i \in 0 .. BUF_SZ - 1 : q[t].buf[(q[t].front + i) % BUF_SZ] = NUL})
             k == Stored(n)
             g == [i \in 1 .. k |-> q[t].buf[(q[t].front + (i - 1)) % BUF_SZ]]
  <2>1. /\ spc' = [spc EXCEPT ![t] = "prompt"] /\ readbuf' = [readbuf EXCEPT ![t] = g]
    BY <1>6 DEF tty_read
  <2>2. n \in 0 .. BUF_SZ - 1
    BY ReadEnds DEF TtyInv
  <2>3. BUF_SZ \in Nat \ {0} /\ q[t].front \in Nat /\ q[t].buf \in [0 .. BUF_SZ - 1 -> Chars]
    BY ConsoleConstants DEF TtyInv, Ring
  <2> HIDE DEF n
  <2>4. k \in Nat /\ k <= READ_SZ
    BY <1>0, <2>2 DEF Stored
  <2> HIDE DEF k
  <2>5. \A i \in 1 .. k : q[t].front + (i - 1) \in Int
    BY <2>3, <2>4
  <2>6. \A x \in Int : x % BUF_SZ \in 0 .. BUF_SZ - 1
    BY <2>3, DivMod, Zenon
  <2>7. \A i \in 1 .. k : q[t].buf[(q[t].front + (i - 1)) % BUF_SZ] \in Chars
    BY <2>3, <2>5, <2>6
  <2>8. g \in Seq(Chars) /\ Len(g) = k
    BY <2>4, <2>7
  <2> HIDE DEF g
  <2> QED
    BY <1>0, <2>1, <2>4, <2>8 DEF ShellInv
<1>7. CASE Halted \/ UNCHANGED vars
  BY <1>1, <1>7 DEF Halted, vars
<1> QED
  BY <1>2, <1>3, <1>4, <1>5, <1>6, <1>7 DEF Next

\* The invariant holds throughout.
LEMMA ConsoleInvariance == Spec => []CInv
<1>1. Init => CInv
  <2> SUFFICES ASSUME Init PROVE CInv
    OBVIOUS
  <2> USE ConsoleConstants
  <2>1. NoEvent \in Event /\ [i \in 0 .. BUF_SZ - 1 |-> NUL] \in [0 .. BUF_SZ - 1 -> Chars]
    BY DEF NoEvent, Event, Chars
  <2>2. InputInv
    BY <2>1, SMTT(20) DEF Init, input_init, InputInv, Announced, Used, Up
  <2>3. 0 \in Screen
    BY DEF Screen, SIZE
  <2>4. \A t \in Ttys : Sound(q[t])
    <3> DEFINE b == [i \in 0 .. BUF_SZ - 1 |-> NUL]
               r == [buf |-> b, front |-> 0, rear |-> 0, full |-> FALSE]
    <3>1. \A t \in Ttys : q[t] = r
      BY DEF Init, tty_init
    <3>2. 0 \in 0 .. BUF_SZ - 1
      OBVIOUS
    <3>3. b \in [0 .. BUF_SZ - 1 -> Chars] /\ b[0] = NUL
      BY <2>1, <3>2
    <3> HIDE DEF b
    <3>4. r \in Ring /\ ~ r.full /\ r.buf[r.rear] = NUL
      BY <3>2, <3>3 DEF Ring
    <3> HIDE DEF r
    <3> QED
      BY <3>1, <3>4 DEF Sound
  <2>5. q \in [Ttys -> Ring]
    BY <2>4 DEF Init, tty_init, Sound
  <2>6. cooked \in [Ttys -> Nat] /\ cursor \in [Ttys -> Screen]
    BY <2>3 DEF Init, tty_init
  <2>7. ShellInv
    <3>1. <<>> \in Seq(Chars) /\ Len(<<>>) <= READ_SZ
      OBVIOUS
    <3> QED
      BY <3>1 DEF Init, ShellInv
  <2> QED
    BY <2>1, <2>2, <2>4, <2>5, <2>6, <2>7 DEF CInv, TtyInv, Init
<1>2. CInv /\ [Next]_vars => CInv'
  BY InputStep, TtyStep, ShellStep DEF CInv
<1> QED
  BY <1>1, <1>2, PTL DEF Spec

\* Type correctness: the indices of the event ring and of every line ring stay
\* inside them, the semaphore counts fewer events than there are slots, and no
\* read stores more than the shell asked for (tty.c:206).
THEOREM ConsoleTypes == Spec => []TypeOK
<1>1. CInv => TypeOK
  <2> SUFFICES ASSUME CInv PROVE TypeOK
    OBVIOUS
  <2>0. NEVENTS \in Nat /\ event_sem \in 0 .. NEVENTS - 1
    BY ConsoleConstants, Zenon DEF CInv, InputInv
  <2>1. event_sem \in 0 .. NEVENTS
    BY <2>0
  <2>2. \A t \in Ttys : /\ q[t].buf \in [0 .. BUF_SZ - 1 -> Chars]
                        /\ q[t].front \in 0 .. BUF_SZ - 1
                        /\ q[t].rear \in 0 .. BUF_SZ - 1
                        /\ cooked[t] \in Nat
    BY DEF CInv, TtyInv, Ring
  <2>3. \A t \in Ttys : /\ cursor[t] \in Nat /\ spc[t] \in {"prompt", "wait", "read"}
                        /\ Len(readbuf[t]) <= READ_SZ
    <3>1. SIZE \in Int
      BY ConsoleConstants DEF SIZE
    <3>2. \A t \in Ttys : cursor[t] \in 0 .. SIZE - 1
      BY DEF CInv, TtyInv, Screen
    <3>3. \A t \in Ttys : cursor[t] \in Nat
      BY <3>1, <3>2
    <3> QED
      BY <3>3 DEF CInv, ShellInv
  <2> QED
    BY <2>1, <2>2, <2>3 DEF TypeOK, CInv, InputInv, TtyInv
<1> QED
  BY <1>1, ConsoleInvariance, PTL

\* pop_event never finds the ring empty (input.c:30-34): each unit of the
\* semaphore stands for an event that is in the ring.
THEOREM PopFindsEvent == Spec => []NoEmptyPop
<1>1. CInv => NoEmptyPop
  BY DEF CInv, InputInv, NoEmptyPop
<1> QED
  BY <1>1, ConsoleInvariance, PTL

\* On a screen of any size, tty_putc marks cells of the screen only and leaves
\* the cursor on it (tty.c:139-171).
THEOREM CursorOnScreen == Spec => []MarksOnScreen
<1>1. ASSUME NEW c \in Screen, NEW ch
      PROVE  tty_mark(c, ch) \subseteq 0 .. SIZE - 1
  <2>0. COLUMNS \in Nat \ {0} /\ SIZE \in Nat /\ SIZE > 1 /\ COLUMNS <= SIZE
    <3>1. c - Column(c) \in Screen /\ c - Column(c) + COLUMNS \in 1 .. SIZE
      BY RowOnScreen
    <3> QED
      BY <3>1, ConsoleConstants DEF SIZE, Screen
  <2>1. tty_putc(c, ch) \in Screen
    BY PutcOnScreen
  <2>2. /\ Column(c) \in 0 .. COLUMNS - 1 /\ c - Column(c) \in Screen
        /\ c - Column(c) + COLUMNS \in 1 .. SIZE
        /\ Column(c - Column(c)) = 0
        /\ c - Column(c) + COLUMNS < SIZE =>
             /\ c - Column(c) + COLUMNS + COLUMNS <= SIZE
             /\ Column(c - Column(c) + COLUMNS) = 0
    BY RowOnScreen DEF Column
  <2> DEFINE b == c - Column(c)
  <2> HIDE DEF b
  <2>3. /\ b \in Screen /\ b + COLUMNS \in 1 .. SIZE /\ Column(b) = 0
        /\ b + COLUMNS < SIZE =>
             b + COLUMNS + COLUMNS <= SIZE /\ Column(b + COLUMNS) = 0
    BY <2>2 DEF b
  <2>4. Row(b) \subseteq 0 .. SIZE - 1
    BY <2>0, <2>3 DEF Row, Screen
  <2>5. CASE ch = CR
    <3>1. tty_putc(c, ch) = b /\ tty_mark(c, ch) = Row(b)
      BY <2>5 DEF tty_putc, tty_mark, CR, BS, NL, b
    <3> QED
      BY <2>4, <3>1
  <2>6. CASE ch = BS
    <3> DEFINE n == IF c > 0 THEN c - 1 ELSE c
    <3>1. tty_mark(c, ch) = {n, n + 1}
      BY <2>6 DEF tty_putc, tty_mark, CR, BS, NL
    <3>2. n \in 0 .. SIZE - 1 /\ n + 1 \in 0 .. SIZE - 1
      BY <2>0 DEF Screen
    <3> QED
      BY <3>1, <3>2
  <2>7. CASE ch = NL
    <3>1. tty_mark(c, ch) =
            IF b + COLUMNS = SIZE THEN 0 .. SIZE - 1
            ELSE Row(Scrolled(b + COLUMNS) - COLUMNS) \cup Row(Scrolled(b + COLUMNS))
      BY <2>7 DEF tty_putc, tty_mark, CR, BS, NL, b
    <3>2. CASE b + COLUMNS = SIZE
      BY <3>1, <3>2
    <3>3. CASE b + COLUMNS # SIZE
      <4>1. Scrolled(b + COLUMNS) = b + COLUMNS /\ Scrolled(b + COLUMNS) - COLUMNS = b
        BY <2>0, <2>3, <3>3 DEF Scrolled, Screen
      <4>2. Row(b + COLUMNS) \subseteq 0 .. SIZE - 1
        BY <2>0, <2>3, <3>3 DEF Row, Screen
      <4>3. tty_mark(c, ch) = Row(b) \cup Row(b + COLUMNS)
        BY <3>1, <3>3, <4>1, Zenon
      <4> QED
        BY <2>4, <4>2, <4>3, Zenon
    <3> QED
      BY <3>2, <3>3
  <2>8. CASE ch \notin {CR, BS, NL}
    <3>1. tty_mark(c, ch) = IF c + 1 = SIZE THEN 0 .. SIZE - 1
                            ELSE {Scrolled(c + 1) - 1, Scrolled(c + 1)}
      BY <2>8 DEF tty_putc, tty_mark
    <3> QED
      BY <2>0, <3>1 DEF Scrolled, Screen
  <2> QED
    BY <2>5, <2>6, <2>7, <2>8
<1>2. CInv => MarksOnScreen
  BY <1>1, PutcOnScreen DEF CInv, TtyInv, MarksOnScreen, Screen
<1> QED
  BY <1>2, ConsoleInvariance, PTL
(***************************************************************************)
(* Lines: a sequence of characters is cut at its '\0's.                    *)
(***************************************************************************)
Ends(c) == {i \in DOMAIN c : c[i] = NUL} \cup {0}

LinesOf(c) ==
  [k \in 1 .. Cardinality(Ends(c)) - 1 |->
     SubSeq(c, Nth(Ends(c), k - 1) + 1, Nth(Ends(c), k) - 1)]

EditOf(c) == SubSeq(c, Nth(Ends(c), Cardinality(Ends(c)) - 1) + 1, Len(c))

\* The lines of a ring are those of its contents.
LEMMA SplitIs ==
  ASSUME NEW r
  PROVE  Split(r).lines = LinesOf(Content(r)) /\ Split(r).edit = EditOf(Content(r))
BY DEF Split, LinesOf, EditOf, Ends, Nth

\* Parts of two sequences that agree there are equal.
LEMMA SubSeqAgree ==
  ASSUME NEW E, NEW s, NEW t, NEW i \in Int, NEW j \in Int, NEW k \in Int, NEW l \in Int,
         j - i = l - k, \A a \in i .. j : s[a] \in E /\ s[a] = t[a + (k - i)]
  PROVE  SubSeq(s, i, j) = SubSeq(t, k, l) /\ SubSeq(s, i, j) \in Seq(E)
<1> DEFINE x == SubSeq(s, i, j)
           y == SubSeq(t, k, l)
<1>1. /\ x \in Seq(E) /\ Len(x) = (IF i <= j THEN j - i + 1 ELSE 0)
      /\ \A a \in 1 .. j - i + 1 : x[a] = s[i + a - 1]
  BY SubSeqProperties
<1>2. \A a \in k .. l : t[a] \in E
  <2> TAKE a \in k .. l
  <2>1. a + (i - k) \in i .. j /\ (a + (i - k)) + (k - i) = a
    OBVIOUS
  <2> QED
    BY <2>1
<1>3. /\ y \in Seq(E) /\ Len(y) = (IF k <= l THEN l - k + 1 ELSE 0)
      /\ \A a \in 1 .. l - k + 1 : y[a] = t[k + a - 1]
  BY <1>2, SubSeqProperties
<1> HIDE DEF x, y
<1>4. Len(x) = Len(y)
  BY <1>1, <1>3
<1>5. ASSUME NEW a \in 1 .. Len(x) PROVE x[a] = y[a]
  <2>1. /\ a \in 1 .. j - i + 1 /\ a \in 1 .. l - k + 1
        /\ i + a - 1 \in i .. j /\ (i + a - 1) + (k - i) = k + a - 1
    BY <1>1, <1>5
  <2>2. s[i + a - 1] = t[k + a - 1]
    BY <2>1
  <2> QED
    BY <1>1, <1>3, <2>1, <2>2
<1>6. x = y
  BY <1>1, <1>3, <1>4, <1>5, SeqEqual
<1> QED
  BY <1>1, <1>6 DEF x, y

\* The ends of the lines can be listed.
LEMMA EndsListed ==
  ASSUME NEW c \in Seq(Chars)
  PROVE  /\ Ends(c) \in SUBSET (0 .. Len(c)) /\ Ends(c) \in SUBSET Nat /\ 0 \in Ends(c)
         /\ \E n \in Nat : \E f : IsEnum(f, Ends(c), n)
<1>1. Ends(c) \in SUBSET (0 .. Len(c)) /\ 0 \in Ends(c) /\ Len(c) \in Nat
  BY DEF Ends
<1>2. \E n \in Nat : \E f : IsEnum(f, Ends(c), n)
  BY <1>1, EnumExists
<1>3. Ends(c) \in SUBSET Nat
  BY <1>1
<1> QED
  BY <1>1, <1>2, <1>3

\* Any listing of the ends gives the lines.
LEMMA LinesListed ==
  ASSUME NEW c \in Seq(Chars), NEW n, NEW f, IsEnum(f, Ends(c), n)
  PROVE  /\ n \in Nat /\ f[0] = 0 /\ \A k \in 0 .. n : f[k] \in 0 .. Len(c) /\ f[k] \in Ends(c)
         /\ \A j, k \in 0 .. n : j < k => f[j] < f[k]
         /\ \A e \in Ends(c) : \E k \in 0 .. n : f[k] = e
         /\ LinesOf(c) = [k \in 1 .. n |-> SubSeq(c, f[k - 1] + 1, f[k] - 1)]
         /\ EditOf(c) = SubSeq(c, f[n] + 1, Len(c))
         /\ LinesOf(c) \in Seq(Seq(Chars)) /\ Len(LinesOf(c)) = n
         /\ EditOf(c) \in Seq(Chars)
<1>1. /\ n \in Nat /\ f \in [0 .. n -> Ends(c)]
      /\ \A j, k \in 0 .. n : j < k => f[j] < f[k]
      /\ \A e \in Ends(c) : \E k \in 0 .. n : f[k] = e
  BY DEF IsEnum
<1>2. Ends(c) \in SUBSET (0 .. Len(c)) /\ 0 \in Ends(c) /\ Ends(c) \in SUBSET Nat
      /\ Len(c) \in Nat
  BY EndsListed
<1>3. \A k \in 0 .. n : f[k] \in 0 .. Len(c) /\ f[k] \in Ends(c)
  BY <1>1, <1>2
<1>4. f[0] = 0
  <2>1. PICK k \in 0 .. n : f[k] = 0
    BY <1>1, <1>2
  <2>2. 0 \in 0 .. n /\ (k = 0 \/ 0 < k)
    BY <1>1
  <2>3. 0 < k => f[0] < 0
    BY <1>1, <2>1, <2>2
  <2>4. f[0] \in Nat
    BY <1>2, <1>3, <2>2
  <2> QED
    BY <2>1, <2>2, <2>3, <2>4
<1>5. Cardinality(Ends(c)) = n + 1 /\ \A k \in 0 .. n : Nth(Ends(c), k) = f[k]
  <2> DEFINE S == Ends(c)
  <2>1. S \in SUBSET Nat /\ IsEnum(f, S, n)
    BY <1>2
  <2> HIDE DEF S
  <2>2. Cardinality(S) = n + 1 /\ \A k \in 0 .. n : Nth(S, k) = f[k]
    BY <2>1, EnumNth
  <2> QED
    BY <2>2 DEF S
<1>6. Cardinality(Ends(c)) - 1 = n
  BY <1>1, <1>5
<1>7. LinesOf(c) = [k \in 1 .. n |-> SubSeq(c, f[k - 1] + 1, f[k] - 1)]
  <2>1. LinesOf(c) = [k \in 1 .. n |->
                        SubSeq(c, Nth(Ends(c), k - 1) + 1, Nth(Ends(c), k) - 1)]
    BY <1>6 DEF LinesOf
  <2>2. \A k \in 1 .. n : Nth(Ends(c), k - 1) = f[k - 1] /\ Nth(Ends(c), k) = f[k]
    <3> TAKE k \in 1 .. n
    <3>1. k - 1 \in 0 .. n /\ k \in 0 .. n
      BY <1>1
    <3> QED
      BY <1>5, <3>1
  <2> QED
    BY <2>1, <2>2, Zenon
<1>8. EditOf(c) = SubSeq(c, f[n] + 1, Len(c))
  <2>1. n \in 0 .. n
    BY <1>1
  <2> QED
    BY <1>5, <1>6, <2>1 DEF EditOf
<1>9. ASSUME NEW i \in Int, NEW j \in Int, 1 <= i, j <= Len(c)
      PROVE  SubSeq(c, i, j) \in Seq(Chars)
  <2>1. \A a \in i .. j : c[a] \in Chars
    BY <1>2, <1>9
  <2> QED
    BY <2>1, SubSeqProperties
<1>10. \A k \in 1 .. n : SubSeq(c, f[k - 1] + 1, f[k] - 1) \in Seq(Chars)
  <2> TAKE k \in 1 .. n
  <2>1. k - 1 \in 0 .. n /\ k \in 0 .. n
    BY <1>1
  <2>2. /\ f[k - 1] + 1 \in Int /\ 1 <= f[k - 1] + 1
        /\ f[k] - 1 \in Int /\ f[k] - 1 <= Len(c)
    BY <1>2, <1>3, <2>1
  <2> QED
    BY <1>9, <2>2
<1>11. LinesOf(c) \in Seq(Seq(Chars)) /\ Len(LinesOf(c)) = n
  <2>1. LinesOf(c) \in [1 .. n -> Seq(Chars)]
    BY <1>7, <1>10, Zenon
  <2> QED
    BY <1>1, <2>1
<1>12. EditOf(c) \in Seq(Chars)
  <2>1. f[n] + 1 \in Int /\ 1 <= f[n] + 1 /\ Len(c) \in Int /\ Len(c) <= Len(c)
    BY <1>1, <1>2, <1>3
  <2> QED
    BY <1>8, <1>9, <2>1
<1> QED
  BY <1>1, <1>3, <1>4, <1>7, <1>8, <1>11, <1>12
\* A character that is only stored is appended to the line being edited.
LEMMA SplitPlain ==
  ASSUME NEW c \in Seq(Chars), NEW x \in Chars, x # NUL
  PROVE  /\ LinesOf(Append(c, x)) = LinesOf(c)
         /\ EditOf(Append(c, x)) = Append(EditOf(c), x)
<1> DEFINE d == Append(c, x)
           N == Len(c)
<1>1. /\ d \in Seq(Chars) /\ Len(d) = N + 1 /\ N \in Nat /\ d[N + 1] = x
      /\ \A i \in 1 .. N : d[i] = c[i]
  OBVIOUS
<1> HIDE DEF d
<1>2. Ends(d) = Ends(c)
  <2>1. DOMAIN d = 1 .. N + 1 /\ DOMAIN c = 1 .. N
    BY <1>1
  <2>2. \A i : i \in Ends(d) <=> i \in Ends(c)
    BY <1>1, <2>1 DEF Ends
  <2> QED
    BY <2>2, Zenon
<1>3. PICK n \in Nat : \E f : IsEnum(f, Ends(c), n)
  BY EndsListed
<1>4. PICK f : IsEnum(f, Ends(c), n)
  BY <1>3
<1>5. /\ \A k \in 0 .. n : f[k] \in 0 .. N
      /\ LinesOf(c) = [k \in 1 .. n |-> SubSeq(c, f[k - 1] + 1, f[k] - 1)]
      /\ EditOf(c) = SubSeq(c, f[n] + 1, N) /\ EditOf(c) \in Seq(Chars)
  BY <1>4, LinesListed, SMTT(20)
<1>6. IsEnum(f, Ends(d), n)
  BY <1>2, <1>4
<1>7. /\ LinesOf(d) = [k \in 1 .. n |-> SubSeq(d, f[k - 1] + 1, f[k] - 1)]
      /\ EditOf(d) = SubSeq(d, f[n] + 1, N + 1) /\ EditOf(d) \in Seq(Chars)
  BY <1>1, <1>6, LinesListed, SMTT(20)
<1>8. ASSUME NEW k \in 1 .. n
      PROVE  SubSeq(d, f[k - 1] + 1, f[k] - 1) = SubSeq(c, f[k - 1] + 1, f[k] - 1)
  <2> DEFINE i == f[k - 1] + 1
             j == f[k] - 1
  <2>1. k - 1 \in 0 .. n /\ k \in 0 .. n
    OBVIOUS
  <2>2. i \in Int /\ j \in Int /\ 1 <= i /\ j <= N
    <3>1. f[k - 1] \in 0 .. N /\ f[k] \in 0 .. N
      BY <1>5, <2>1, Zenon
    <3> QED
      BY <1>1, <3>1
  <2> HIDE DEF i, j
  <2>3. j - i = j - i /\ \A a \in i .. j : d[a] \in Chars /\ d[a] = c[a + (i - i)]
    BY <1>1, <2>2
  <2>4. SubSeq(d, i, j) = SubSeq(c, i, j)
    BY <2>2, <2>3, SubSeqAgree
  <2> QED
    BY <2>4 DEF i, j
<1>9. LinesOf(d) = LinesOf(c)
  BY <1>5, <1>7, <1>8, Zenon
<1>10. EditOf(d) = Append(EditOf(c), x)
  <2> DEFINE i == f[n] + 1
             u == SubSeq(d, i, N + 1)
             v == SubSeq(c, i, N)
  <2>1. i \in Int /\ 1 <= i /\ i <= N + 1 /\ N + 1 \in Int /\ N \in Int
    BY <1>1, <1>5
  <2> HIDE DEF i
  <2>2. \A a \in i .. N + 1 : d[a] \in Chars
    BY <1>1, <2>1
  <2>3. \A a \in i .. N : c[a] \in Chars
    BY <1>1, <2>1
  <2>4. /\ u \in Seq(Chars) /\ Len(u) = N + 1 - i + 1
        /\ \A a \in 1 .. N + 1 - i + 1 : u[a] = d[i + a - 1]
    BY <2>1, <2>2, SubSeqProperties
  <2>5. /\ v \in Seq(Chars) /\ Len(v) = N - i + 1
        /\ \A a \in 1 .. N - i + 1 : v[a] = c[i + a - 1]
    BY <2>1, <2>3, SubSeqProperties
  <2> HIDE DEF u, v, N
  <2>6. Append(v, x) \in Seq(Chars) /\ Len(Append(v, x)) = Len(u)
    <3>1. Append(v, x) \in Seq(Chars) /\ Len(Append(v, x)) = Len(v) + 1
      BY <2>5, AppendProperties
    <3> QED
      BY <2>1, <2>4, <2>5, <3>1
  <2>7. ASSUME NEW a \in 1 .. Len(u) PROVE u[a] = Append(v, x)[a]
    <3>1. u[a] = d[i + a - 1] /\ i + a - 1 \in 1 .. N + 1
      BY <2>1, <2>4, <2>7
    <3>2. CASE a = Len(u)
      <4>1. i + a - 1 = N + 1 /\ a = Len(v) + 1
        BY <2>1, <2>4, <2>5, <3>2
      <4> QED
        BY <1>1, <2>5, <3>1, <4>1
    <3>3. CASE a # Len(u)
      <4>1. i + a - 1 \in 1 .. N /\ a \in 1 .. Len(v) /\ a \in 1 .. N - i + 1
        BY <2>1, <2>4, <2>5, <2>7, <3>3, SMTT(20)
      <4>2. d[i + a - 1] = c[i + a - 1] /\ v[a] = c[i + a - 1]
        BY <1>1, <2>5, <4>1
      <4> QED
        BY <2>5, <3>1, <4>1, <4>2
    <3> QED
      BY <3>2, <3>3
  <2>8. u = Append(v, x)
    BY <2>4, <2>6, <2>7, SeqEqual
  <2> QED
    BY <1>5, <1>7, <2>8 DEF u, v, i
<1> QED
  BY <1>9, <1>10 DEF d

\* A '\0' completes the line being edited.
LEMMA SplitNul ==
  ASSUME NEW c \in Seq(Chars)
  PROVE  /\ LinesOf(Append(c, NUL)) = Append(LinesOf(c), EditOf(c))
         /\ EditOf(Append(c, NUL)) = <<>>
<1> DEFINE d == Append(c, NUL)
           N == Len(c)
<1>0. NUL \in Chars
  BY DEF Chars
<1>1. /\ d \in Seq(Chars) /\ Len(d) = N + 1 /\ N \in Nat /\ d[N + 1] = NUL
      /\ \A i \in 1 .. N : d[i] = c[i]
  BY <1>0
<1> HIDE DEF d
<1>2. Ends(d) = Ends(c) \cup {N + 1}
  <2>1. DOMAIN d = 1 .. N + 1 /\ DOMAIN c = 1 .. N
    BY <1>1
  <2>2. \A i : i \in Ends(d) <=> i \in Ends(c) \cup {N + 1}
    BY <1>1, <2>1 DEF Ends
  <2> QED
    BY <2>2, Zenon
<1>3. PICK n \in Nat : \E f : IsEnum(f, Ends(c), n)
  BY EndsListed
<1>4. PICK f : IsEnum(f, Ends(c), n)
  BY <1>3
<1>5. /\ \A k \in 0 .. n : f[k] \in 0 .. N /\ f[k] \in Ends(c)
      /\ \A j, k \in 0 .. n : j < k => f[j] < f[k]
      /\ \A e \in Ends(c) : \E k \in 0 .. n : f[k] = e
      /\ LinesOf(c) = [k \in 1 .. n |-> SubSeq(c, f[k - 1] + 1, f[k] - 1)]
      /\ EditOf(c) = SubSeq(c, f[n] + 1, N) /\ EditOf(c) \in Seq(Chars)
      /\ LinesOf(c) \in Seq(Seq(Chars)) /\ Len(LinesOf(c)) = n
  BY <1>4, LinesListed, SMTT(20)
<1> DEFINE g == [k \in 0 .. n + 1 |-> IF k = n + 1 THEN N + 1 ELSE f[k]]
<1>6. g[n + 1] = N + 1 /\ \A k \in 0 .. n : g[k] = f[k] /\ k \in 0 .. n + 1
  OBVIOUS
<1>7. IsEnum(g, Ends(d), n + 1)
  <2>1. g \in [0 .. n + 1 -> Ends(d)]
    BY <1>2, <1>5
  <2> HIDE DEF g
  <2>2. \A e \in Ends(d) : \E k \in 0 .. n + 1 : g[k] = e
    <3> TAKE e \in Ends(d)
    <3>1. CASE e = N + 1
      <4>1. n + 1 \in 0 .. n + 1
        OBVIOUS
      <4> QED
        BY <1>6, <3>1, <4>1
    <3>2. CASE e \in Ends(c)
      BY <1>5, <1>6, <3>2
    <3> QED
      BY <1>2, <3>1, <3>2
  <2>3. ASSUME NEW j \in 0 .. n + 1, NEW k \in 0 .. n + 1, j < k
        PROVE  g[j] < g[k]
    <3>1. j \in 0 .. n /\ g[j] = f[j] /\ f[j] \in 0 .. N
      BY <1>5, <1>6, <2>3
    <3>2. CASE k = n + 1
      BY <1>1, <1>6, <3>1, <3>2
    <3>3. CASE k # n + 1
      <4>1. k \in 0 .. n
        BY <3>3
      <4> QED
        BY <1>5, <1>6, <2>3, <3>1, <4>1
    <3> QED
      BY <3>2, <3>3
  <2>4. n + 1 \in Nat
    OBVIOUS
  <2> QED
    BY <2>1, <2>2, <2>3, <2>4 DEF IsEnum
<1> HIDE DEF g
<1>8. /\ LinesOf(d) = [k \in 1 .. n + 1 |-> SubSeq(d, g[k - 1] + 1, g[k] - 1)]
      /\ EditOf(d) = SubSeq(d, g[n + 1] + 1, N + 1)
      /\ LinesOf(d) \in Seq(Seq(Chars)) /\ Len(LinesOf(d)) = n + 1
  <2> DEFINE m == n + 1
  <2>1. IsEnum(g, Ends(d), m)
    BY <1>7
  <2> HIDE DEF m
  <2>2. /\ LinesOf(d) = [k \in 1 .. m |-> SubSeq(d, g[k - 1] + 1, g[k] - 1)]
        /\ EditOf(d) = SubSeq(d, g[m] + 1, N + 1)
        /\ LinesOf(d) \in Seq(Seq(Chars)) /\ Len(LinesOf(d)) = m
    BY <1>1, <2>1, LinesListed, SMTT(20)
  <2> QED
    BY <2>2 DEF m
<1>9. EditOf(d) = <<>>
  <2>1. g[n + 1] + 1 \in Int /\ N + 1 \in Int /\ N + 1 < g[n + 1] + 1
    BY <1>1, <1>6
  <2> QED
    BY <1>8, <2>1, SubSeqEmpty
<1>10. ASSUME NEW i \in Int, NEW j \in Int, 1 <= i, j <= N
       PROVE  SubSeq(d, i, j) = SubSeq(c, i, j)
  <2>1. j - i = j - i /\ \A a \in i .. j : d[a] \in Chars /\ d[a] = c[a + (i - i)]
    BY <1>1, <1>10, SMTT(20)
  <2> QED
    BY <2>1, SubSeqAgree
<1> DEFINE p == LinesOf(d)
           r == Append(LinesOf(c), EditOf(c))
<1>11. r \in Seq(Seq(Chars)) /\ Len(r) = n + 1 /\ r[n + 1] = EditOf(c)
       /\ \A k \in 1 .. n : r[k] = LinesOf(c)[k]
  <2> DEFINE U == LinesOf(c)
             e == EditOf(c)
             Q == Seq(Chars)
  <2>1. U \in Seq(Q) /\ e \in Q /\ Len(U) = n
    BY <1>5
  <2> HIDE DEF U, e, Q
  <2>2. /\ Append(U, e) \in Seq(Q) /\ Len(Append(U, e)) = Len(U) + 1
        /\ \A i \in 1 .. Len(U) : Append(U, e)[i] = U[i]
        /\ Append(U, e)[Len(U) + 1] = e
    BY <2>1, AppendProperties
  <2> QED
    BY <2>1, <2>2 DEF U, e, Q
<1>12. ASSUME NEW k \in 1 .. n + 1 PROVE p[k] = r[k]
  <2>1. p[k] = SubSeq(d, g[k - 1] + 1, g[k] - 1)
    BY <1>8
  <2>2. CASE k = n + 1
    <3>1. k - 1 = n /\ n \in 0 .. n
      BY <2>2
    <3>2. g[k - 1] + 1 = f[n] + 1 /\ g[k] - 1 = N /\ f[n] + 1 \in Int /\ 1 <= f[n] + 1
      BY <1>1, <1>5, <1>6, <2>2, <3>1, SMTT(20)
    <3>3. SubSeq(d, f[n] + 1, N) = SubSeq(c, f[n] + 1, N)
      BY <1>1, <1>10, <3>2, N \in Int, N <= N
    <3> QED
      BY <1>5, <1>11, <2>1, <2>2, <3>2, <3>3
  <2>3. CASE k # n + 1
    <3>1. k - 1 \in 0 .. n /\ k \in 0 .. n /\ k \in 1 .. n
      BY <2>3
    <3>2. /\ g[k - 1] = f[k - 1] /\ g[k] = f[k] /\ f[k - 1] + 1 \in Int
          /\ 1 <= f[k - 1] + 1 /\ f[k] - 1 \in Int /\ f[k] - 1 <= N
      <4>1. f[k - 1] \in 0 .. N /\ f[k] \in 0 .. N
        BY <1>5, <3>1, Zenon
      <4>2. g[k - 1] = f[k - 1] /\ g[k] = f[k]
        BY <1>6, <3>1, Zenon
      <4> QED
        BY <1>1, <4>1, <4>2
    <3>3. SubSeq(d, f[k - 1] + 1, f[k] - 1) = SubSeq(c, f[k - 1] + 1, f[k] - 1)
      BY <1>10, <3>2
    <3>4. LinesOf(c)[k] = SubSeq(c, f[k - 1] + 1, f[k] - 1)
      BY <1>5, <3>1
    <3> QED
      BY <1>11, <2>1, <3>1, <3>2, <3>3, <3>4
  <2> QED
    BY <2>2, <2>3
<1> HIDE DEF p, r
<1>13. p = r
  <2>1. p \in Seq(Seq(Chars)) /\ Len(p) = n + 1
    BY <1>8 DEF p
  <2> QED
    BY <1>11, <1>12, <2>1, SeqEqual
<1> QED
  BY <1>9, <1>13 DEF p, r, d
\* The lines of a sequence, by some listing of their ends.
LEMMA LinesWitness ==
  ASSUME NEW c \in Seq(Chars)
  PROVE  \E n \in Nat : \E f :
           /\ f[0] = 0 /\ \A k \in 0 .. n : f[k] \in 0 .. Len(c) /\ f[k] \in Ends(c)
           /\ \A j, k \in 0 .. n : j < k => f[j] < f[k]
           /\ \A e \in Ends(c) : \E k \in 0 .. n : f[k] = e
           /\ LinesOf(c) = [k \in 1 .. n |-> SubSeq(c, f[k - 1] + 1, f[k] - 1)]
           /\ EditOf(c) = SubSeq(c, f[n] + 1, Len(c)) /\ EditOf(c) \in Seq(Chars)
           /\ LinesOf(c) \in Seq(Seq(Chars)) /\ Len(LinesOf(c)) = n
<1>1. PICK n \in Nat : \E f : IsEnum(f, Ends(c), n)
  BY EndsListed
<1>2. PICK f : IsEnum(f, Ends(c), n)
  BY <1>1
<1>3. f[0] = 0
  BY <1>2, LinesListed
<1>4. /\ \A k \in 0 .. n : f[k] \in 0 .. Len(c) /\ f[k] \in Ends(c)
      /\ \A j, k \in 0 .. n : j < k => f[j] < f[k]
      /\ \A e \in Ends(c) : \E k \in 0 .. n : f[k] = e
  <2>1. f \in [0 .. n -> Ends(c)] /\ Ends(c) \in SUBSET (0 .. Len(c))
    BY <1>2, EndsListed DEF IsEnum
  <2>2. \A k \in 0 .. n : f[k] \in 0 .. Len(c) /\ f[k] \in Ends(c)
    BY <2>1
  <2> QED
    BY <1>2, <2>2 DEF IsEnum
<1>5. /\ LinesOf(c) = [k \in 1 .. n |-> SubSeq(c, f[k - 1] + 1, f[k] - 1)]
      /\ EditOf(c) = SubSeq(c, f[n] + 1, Len(c)) /\ EditOf(c) \in Seq(Chars)
      /\ LinesOf(c) \in Seq(Seq(Chars)) /\ Len(LinesOf(c)) = n
  BY <1>2, LinesListed, SMTT(20)
<1> WITNESS n \in Nat
<1> WITNESS f
<1> QED
  BY <1>3, <1>4, <1>5, Zenon

\* What is left after the first '\0' has lost the first line and nothing else.
LEMMA SplitDrop ==
  ASSUME NEW c \in Seq(Chars), NEW p \in 1 .. Len(c), c[p] = NUL,
         \A i \in 1 .. p - 1 : c[i] # NUL
  PROVE  LET d == SubSeq(c, p + 1, Len(c))
         IN  /\ LinesOf(c) # <<>> /\ Head(LinesOf(c)) = SubSeq(c, 1, p - 1)
             /\ LinesOf(d) = Tail(LinesOf(c)) /\ EditOf(d) = EditOf(c)
<1> DEFINE N == Len(c)
           d == SubSeq(c, p + 1, N)
<1>1. /\ d \in Seq(Chars) /\ Len(d) = N - p /\ N \in Nat /\ p \in Nat /\ p > 0 /\ p <= N
      /\ \A i \in 1 .. N - p : d[i] = c[p + i] /\ d[i] \in Chars
  <2>1. p + 1 \in Int /\ N \in Int /\ p + 1 >= 1 /\ \A i \in p + 1 .. N : c[i] \in Chars
    OBVIOUS
  <2> DEFINE m == p + 1
  <2> HIDE DEF m
  <2>2. m \in Int /\ N \in Int /\ \A i \in m .. N : c[i] \in Chars
    BY <2>1 DEF m
  <2>3. /\ SubSeq(c, m, N) \in Seq(Chars)
        /\ Len(SubSeq(c, m, N)) = (IF m <= N THEN N - m + 1 ELSE 0)
        /\ \A i \in 1 .. N - m + 1 : SubSeq(c, m, N)[i] = c[m + i - 1]
    BY <2>2, SubSeqProperties
  <2>4. d \in Seq(Chars) /\ Len(d) = N - p
    BY <2>3 DEF m
  <2>5. ASSUME NEW i \in 1 .. N - p PROVE d[i] = c[p + i]
    <3>1. m + i - 1 = p + i /\ i \in 1 .. N - m + 1
      BY DEF m
    <3>2. SubSeq(c, m, N)[i] = c[m + i - 1]
      BY <2>3, <3>1, Zenon
    <3> QED
      BY <3>1, <3>2 DEF m
  <2> HIDE DEF d
  <2>6. \A i \in 1 .. N - p : d[i] \in Chars
    BY <2>4
  <2> QED
    BY <2>4, <2>5, <2>6
<1> HIDE DEF d
<1>2. ASSUME NEW i PROVE i \in Ends(d) <=> i \in Nat /\ i + p \in Ends(c)
  <2>1. DOMAIN d = 1 .. N - p /\ DOMAIN c = 1 .. N
    BY <1>1
  <2>2. CASE i \in Nat
    <3>1. CASE i = 0
      BY <1>1, <2>1, <3>1 DEF Ends
    <3>2. CASE i > 0
      <4>1. i \in 1 .. N - p <=> i + p \in 1 .. N
        BY <1>1, <2>2, <3>2
      <4>2. i \in 1 .. N - p => d[i] = c[i + p]
        BY <1>1, <2>2
      <4>3. i # 0 /\ i + p # 0
        BY <1>1, <2>2, <3>2
      <4> QED
        BY <2>1, <2>2, <4>1, <4>2, <4>3 DEF Ends
    <3> QED
      BY <2>2, <3>1, <3>2
  <2>3. CASE i \notin Nat
    <3>1. i \notin 1 .. N - p /\ i # 0
      BY <1>1, <2>3
    <3> QED
      BY <2>1, <2>3, <3>1 DEF Ends
  <2> QED
    BY <2>2, <2>3
<1> DEFINE Lists(n, f) ==
             /\ f[0] = 0 /\ \A k \in 0 .. n : f[k] \in 0 .. N /\ f[k] \in Ends(c)
             /\ \A j, k \in 0 .. n : j < k => f[j] < f[k]
             /\ \A e \in Ends(c) : \E k \in 0 .. n : f[k] = e
             /\ LinesOf(c) = [k \in 1 .. n |-> SubSeq(c, f[k - 1] + 1, f[k] - 1)]
             /\ EditOf(c) = SubSeq(c, f[n] + 1, N) /\ EditOf(c) \in Seq(Chars)
             /\ LinesOf(c) \in Seq(Seq(Chars)) /\ Len(LinesOf(c)) = n
<1>3. \E n \in Nat : \E f : Lists(n, f)
  BY LinesWitness, Zenon
<1>4. PICK n \in Nat : \E f : Lists(n, f)
  BY <1>3, Zenon
<1>5. PICK f : Lists(n, f)
  BY <1>4, Zenon
<1>6. n >= 1 /\ f[1] = p
  <2>1. p \in Ends(c)
    BY <1>1 DEF Ends
  <2>2. PICK k \in 0 .. n : f[k] = p
    BY <1>5, <2>1
  <2>3. k # 0 /\ 1 \in 0 .. n /\ 0 \in 0 .. n /\ (k = 1 \/ 1 < k) /\ n >= 1
    <3>1. f[0] = 0 /\ f[k] = p
      BY <1>5, <2>2, Zenon
    <3>2. p > 0 /\ p \in Nat
      BY <1>1
    <3> HIDE DEF N, Lists
    <3> QED
      BY ONLY n \in Nat, k \in 0 .. n, <3>1, <3>2
  <2>4. ASSUME 1 < k PROVE FALSE
    <3>1. f[0] < f[1] /\ f[1] < p /\ f[1] \in Ends(c) /\ f[1] \in 0 .. N
      <4>1. 0 < 1 /\ 1 < k
        BY <2>4
      <4>2. f[0] < f[1] /\ f[1] < f[k]
        BY <1>5, <2>3, <4>1, Zenon
      <4> QED
        BY <1>5, <2>2, <2>3, <4>2, Zenon
    <3>2. f[1] \in 1 .. p - 1 /\ f[1] # 0
      <4>1. f[0] = 0
        BY <1>5, Zenon
      <4>2. p \in Nat /\ N \in Nat
        BY <1>1
      <4> HIDE DEF N, Lists
      <4> QED
        BY ONLY <3>1, <4>1, <4>2
    <3>3. c[f[1]] = NUL
      BY <3>1, <3>2 DEF Ends
    <3> QED
      BY <3>2, <3>3
  <2> QED
    BY <2>2, <2>3, <2>4
<1> DEFINE m == n - 1
           g == [k \in 0 .. m |-> f[k + 1] - p]
<1>7. m \in Nat /\ \A k \in 0 .. m : k + 1 \in 0 .. n /\ g[k] = f[k + 1] - p
  BY <1>6
<1>8. ASSUME NEW k \in 0 .. m PROVE f[k + 1] \in p .. N /\ f[k + 1] \in Ends(c)
  <2>1. k + 1 \in 0 .. n /\ 1 \in 0 .. n /\ (k + 1 = 1 \/ 1 < k + 1)
    BY <1>6, <1>8
  <2>2. f[k + 1] \in 0 .. N /\ f[k + 1] \in Ends(c)
    BY <1>5, <2>1, Zenon
  <2>3. 1 < k + 1 => f[1] < f[k + 1]
    BY <1>5, <2>1, Zenon
  <2> QED
    BY <1>1, <1>6, <2>1, <2>2, <2>3
<1> HIDE DEF g, m
<1>9. IsEnum(g, Ends(d), m)
  <2>1. ASSUME NEW k \in 0 .. m PROVE g[k] \in Ends(d)
    <3>1. g[k] \in Nat /\ g[k] + p = f[k + 1]
      <4>1. g[k] = f[k + 1] - p /\ f[k + 1] \in p .. N /\ p \in Nat /\ N \in Nat
        BY <1>1, <1>7, <1>8, Zenon
      <4> HIDE DEF N
      <4> QED
        BY ONLY <4>1
    <3>2. g[k] + p \in Ends(c)
      BY <1>8, <3>1
    <3> QED
      BY <1>2, <3>1, <3>2
  <2>2. g \in [0 .. m -> Ends(d)]
    BY <2>1 DEF g
  <2>3. ASSUME NEW e \in Ends(d) PROVE \E k \in 0 .. m : g[k] = e
    <3>1. e \in Nat /\ e + p \in Ends(c)
      BY <1>2
    <3>2. PICK j \in 0 .. n : f[j] = e + p
      BY <1>5, <3>1
    <3>3. j # 0 /\ j - 1 \in 0 .. m /\ (j - 1) + 1 = j
      <4>1. j = 0 => e + p = 0
        BY <1>5, <3>2, Zenon
      <4>2. j # 0
        BY <1>1, <3>1, <4>1
      <4> QED
        BY <4>2 DEF m
    <3>4. g[j - 1] = f[j] - p
      BY <1>7, <3>3
    <3>5. g[j - 1] = e
      BY <1>1, <3>1, <3>2, <3>4
    <3> QED
      BY <3>3, <3>5
  <2>4. ASSUME NEW j \in 0 .. m, NEW k \in 0 .. m, j < k PROVE g[j] < g[k]
    <3>1. j + 1 \in 0 .. n /\ k + 1 \in 0 .. n /\ j + 1 < k + 1
      <4>1. j + 1 \in 0 .. n /\ k + 1 \in 0 .. n
        BY <1>7, Zenon
      <4>2. j \in Int /\ k \in Int
        BY <1>7
      <4> QED
        BY ONLY <2>4, <4>1, <4>2
    <3>2. f[j + 1] < f[k + 1]
      BY <1>5, <3>1, Zenon
    <3>3. f[j + 1] \in p .. N /\ f[k + 1] \in p .. N /\ p \in Nat /\ N \in Nat
      BY <1>1, <1>8, Zenon
    <3>4. g[j] = f[j + 1] - p /\ g[k] = f[k + 1] - p
      BY <1>7, Zenon
    <3> HIDE DEF N
    <3> QED
      BY ONLY <3>2, <3>3, <3>4
  <2> QED
    BY <1>7, <2>2, <2>3, <2>4 DEF IsEnum
<1>10. /\ LinesOf(d) = [k \in 1 .. m |-> SubSeq(d, g[k - 1] + 1, g[k] - 1)]
       /\ EditOf(d) = SubSeq(d, g[m] + 1, N - p)
       /\ LinesOf(d) \in Seq(Seq(Chars)) /\ Len(LinesOf(d)) = m
  BY <1>1, <1>9, LinesListed
<1>11. ASSUME NEW i \in Int, NEW j \in Int, p < i, j <= N
       PROVE  SubSeq(d, i - p, j - p) = SubSeq(c, i, j)
  <2> DEFINE k == i - p
             l == j - p
  <2>1. k \in Int /\ l \in Int /\ l - k = j - i /\ 1 <= k /\ l <= N - p /\ i - k = p
    BY <1>1, <1>11
  <2> HIDE DEF k, l
  <2>2. ASSUME NEW a \in k .. l PROVE d[a] \in Chars /\ d[a] = c[a + (i - k)]
    <3>1. a \in 1 .. N - p /\ a + (i - k) = p + a
      BY <1>1, <2>1
    <3> QED
      BY <1>1, <3>1
  <2>3. SubSeq(d, k, l) = SubSeq(c, i, j)
    BY <2>1, <2>2, SubSeqAgree
  <2> QED
    BY <2>3 DEF k, l
<1>12. EditOf(d) = EditOf(c)
  <2>1. m \in 0 .. m /\ m + 1 = n
    BY <1>7 DEF m
  <2>2. g[m] = f[n] - p /\ f[n] \in p .. N
    BY <1>7, <1>8, <2>1
  <2>3. g[m] + 1 = (f[n] + 1) - p /\ f[n] + 1 \in Int /\ p < f[n] + 1 /\ N \in Int /\ N <= N
    BY <1>1, <2>2
  <2>4. SubSeq(d, (f[n] + 1) - p, N - p) = SubSeq(c, f[n] + 1, N)
    BY <1>11, <2>3, Zenon
  <2> QED
    BY <1>5, <1>10, <2>3, <2>4, Zenon
<1>13. LinesOf(c) # <<>> /\ Head(LinesOf(c)) = SubSeq(c, 1, p - 1)
  <2>1. 1 \in 1 .. n /\ f[1 - 1] + 1 = 1 /\ f[1] - 1 = p - 1
    <3>1. 1 - 1 = 0 /\ f[1] = p /\ f[0] = 0 /\ n >= 1
      BY <1>5, <1>6
    <3> QED
      BY <3>1
  <2>2. LinesOf(c)[1] = SubSeq(c, f[1 - 1] + 1, f[1] - 1)
    BY <1>5, <2>1, Zenon
  <2>3. LinesOf(c)[1] = SubSeq(c, 1, p - 1)
    BY <2>1, <2>2, Zenon
  <2> DEFINE U == LinesOf(c)
             Q == Seq(Chars)
  <2>4. U \in Seq(Q) /\ Len(U) > 0
    <3>1. U \in Seq(Q) /\ Len(U) = n /\ n >= 1
      BY <1>5, <1>6, Zenon
    <3> HIDE DEF U, Q
    <3> QED
      BY <3>1
  <2> HIDE DEF U, Q
  <2>5. U # <<>> /\ Head(U) = U[1]
    BY <2>4
  <2> QED
    BY <2>3, <2>5 DEF U
<1>14. LinesOf(d) = Tail(LinesOf(c))
  <2> DEFINE U == LinesOf(c)
             V == LinesOf(d)
             Q == Seq(Chars)
  <2>1. U \in Seq(Q) /\ Len(U) = n /\ V \in Seq(Q) /\ Len(V) = m
    BY <1>5, <1>10
  <2>2. ASSUME NEW k \in 1 .. m PROVE V[k] = U[k + 1]
    <3>0. k \in 0 .. m /\ k - 1 \in 0 .. m /\ (k - 1) + 1 = k /\ k + 1 \in 1 .. n /\ (k + 1) - 1 = k
      BY <1>7 DEF m
    <3>1. g[k] = f[k + 1] - p /\ g[k - 1] = f[k] - p
      BY <1>7, <3>0
    <3>2. f[k + 1] \in p .. N /\ f[k] \in p .. N
      BY <1>8, <3>0
    <3>3. /\ g[k - 1] + 1 = (f[k] + 1) - p /\ g[k] - 1 = (f[k + 1] - 1) - p
          /\ f[k] + 1 \in Int /\ p < f[k] + 1 /\ f[k + 1] - 1 \in Int /\ f[k + 1] - 1 <= N
      <4> DEFINE x == f[k]
                 y == f[k + 1]
      <4>1. x \in Int /\ y \in Int /\ p <= x /\ y <= N /\ p \in Int /\ N \in Int
        BY <1>1, <3>2
      <4>2. g[k] = y - p /\ g[k - 1] = x - p
        BY <3>1
      <4> HIDE DEF x, y
      <4>3. /\ g[k - 1] + 1 = (x + 1) - p /\ g[k] - 1 = (y - 1) - p
            /\ x + 1 \in Int /\ p < x + 1 /\ y - 1 \in Int /\ y - 1 <= N
        BY <4>1, <4>2
      <4> QED
        BY <4>3 DEF x, y
    <3>4. SubSeq(d, (f[k] + 1) - p, (f[k + 1] - 1) - p) = SubSeq(c, f[k] + 1, f[k + 1] - 1)
      BY <1>11, <3>3, Zenon
    <3>5. V[k] = SubSeq(d, g[k - 1] + 1, g[k] - 1)
      BY <1>10, Zenon
    <3>6. U[k + 1] = SubSeq(c, f[(k + 1) - 1] + 1, f[k + 1] - 1)
      BY <1>5, <3>0, Zenon
    <3> QED
      BY <3>0, <3>3, <3>4, <3>5, <3>6, Zenon
  <2> HIDE DEF U, V, Q
  <2>3. U # <<>> /\ n - 1 = m
    BY <1>6, <2>1 DEF m
  <2>4. Tail(U) \in Seq(Q) /\ Len(Tail(U)) = m /\ \A k \in 1 .. m : Tail(U)[k] = U[k + 1]
    BY <2>1, <2>3, HeadTailProperties
  <2>5. V = Tail(U)
    BY <2>1, <2>2, <2>4, SeqEqual
  <2> QED
    BY <2>5 DEF U, V
<1> QED
  BY <1>12, <1>13, <1>14 DEF d

\* A completed line has its '\0'.
LEMMA LineHasEnd ==
  ASSUME NEW c \in Seq(Chars), Len(LinesOf(c)) # 0
  PROVE  \E p \in 1 .. Len(c) : c[p] = NUL
<1>1. PICK n \in Nat : \E f : IsEnum(f, Ends(c), n)
  BY EndsListed
<1>2. PICK f : IsEnum(f, Ends(c), n)
  BY <1>1
<1>3. /\ f[0] = 0 /\ \A k \in 0 .. n : f[k] \in 0 .. Len(c) /\ f[k] \in Ends(c)
      /\ \A j, k \in 0 .. n : j < k => f[j] < f[k] /\ Len(LinesOf(c)) = n
  BY <1>2, LinesListed
<1>4. n = Len(LinesOf(c))
  BY <1>2, LinesListed
<1>5. 0 \in 0 .. n /\ 1 \in 0 .. n
  BY <1>4
<1>6. f[1] \in 1 .. Len(c) /\ f[1] \in Ends(c)
  BY <1>3, <1>5
<1>7. c[f[1]] = NUL
  BY <1>6 DEF Ends
<1> QED
  BY <1>6, <1>7
(***************************************************************************)
(* What the ring operations do to the contents.                            *)
(***************************************************************************)
\* Characters in a ring, and the slot of the one i steps from the front.
Fill(r) == IF r.rear >= r.front THEN r.rear - r.front ELSE r.rear - r.front + BUF_SZ
Slot(r, i) == IF r.front + i < BUF_SZ THEN r.front + i ELSE r.front + i - BUF_SZ

\* The byte before the front is the '\0' of the line that was read last.
FrontNul(r) == r.buf[Before(r.front)] = NUL

\* The contents of a ring, without remainders.
LEMMA ContentIs ==
  ASSUME NEW r \in Ring
  PROVE  /\ Fill(r) \in 0 .. BUF_SZ - 1
         /\ Content(r) \in Seq(Chars) /\ Len(Content(r)) = Fill(r)
         /\ \A i \in 1 .. Fill(r) : Content(r)[i] = r.buf[Slot(r, i - 1)]
         /\ \A i \in 0 .. BUF_SZ - 1 : /\ (r.front + i) % BUF_SZ = Slot(r, i)
                                       /\ Slot(r, i) \in 0 .. BUF_SZ - 1
         /\ r.rear = Slot(r, Fill(r)) /\ Before(r.front) = Slot(r, BUF_SZ - 1)
<1>1. /\ BUF_SZ \in Nat \ {0} /\ BUF_SZ > 1
      /\ r.front \in 0 .. BUF_SZ - 1 /\ r.rear \in 0 .. BUF_SZ - 1
      /\ r.buf \in [0 .. BUF_SZ - 1 -> Chars]
  BY ConsoleConstants DEF Ring
<1>2. (r.rear - r.front) % BUF_SZ = Fill(r) /\ Fill(r) \in 0 .. BUF_SZ - 1
  <2> DEFINE f == r.front
             b == r.rear
  <2>1. f \in 0 .. BUF_SZ - 1 /\ b \in 0 .. BUF_SZ - 1
    BY <1>1
  <2> HIDE DEF f, b
  <2>2. /\ (b - f) % BUF_SZ = (IF b >= f THEN b - f ELSE b - f + BUF_SZ)
        /\ (b - f) % BUF_SZ \in 0 .. BUF_SZ - 1
    BY <1>1, <2>1, AcrossRing
  <2> QED
    BY <2>2, Zenon DEF Fill, f, b
<1>3. ASSUME NEW i \in 0 .. BUF_SZ - 1
      PROVE  (r.front + i) % BUF_SZ = Slot(r, i) /\ Slot(r, i) \in 0 .. BUF_SZ - 1
  <2>1. i \in 0 .. BUF_SZ
    BY <1>1
  <2>2. (r.front + i) % BUF_SZ = Slot(r, i)
    BY <1>1, <2>1, RingSlot DEF Slot
  <2>3. Slot(r, i) \in 0 .. BUF_SZ - 1
    BY <1>1 DEF Slot
  <2> QED
    BY <2>2, <2>3
<1>4. ASSUME NEW i \in 1 .. Fill(r)
      PROVE  /\ r.buf[(r.front + i - 1) % BUF_SZ] = r.buf[Slot(r, i - 1)]
             /\ r.buf[Slot(r, i - 1)] \in Chars
  <2>1. i - 1 \in 0 .. BUF_SZ - 1 /\ r.front + i - 1 = r.front + (i - 1)
    BY <1>1, <1>2
  <2>2. (r.front + (i - 1)) % BUF_SZ = Slot(r, i - 1) /\ Slot(r, i - 1) \in 0 .. BUF_SZ - 1
    BY <1>3, <2>1, Zenon
  <2>3. (r.front + i - 1) % BUF_SZ = Slot(r, i - 1)
    BY <2>1, <2>2, Zenon
  <2> QED
    BY <1>1, <2>2, <2>3
<1>5. Content(r) = [i \in 1 .. Fill(r) |-> r.buf[Slot(r, i - 1)]]
  BY <1>2, <1>4, Zenon DEF Content
<1>6. Content(r) \in [1 .. Fill(r) -> Chars]
  BY <1>4, <1>5, Zenon
<1>7. Content(r) \in Seq(Chars) /\ Len(Content(r)) = Fill(r)
  BY <1>2, <1>6
<1>8. r.rear = Slot(r, Fill(r))
  BY <1>1 DEF Slot, Fill
<1>9. Before(r.front) = Slot(r, BUF_SZ - 1)
  <2>1. Before(r.front) = (IF r.front = 0 THEN BUF_SZ - 1 ELSE r.front - 1)
    BY <1>1, Slots
  <2> QED
    BY <1>1, <2>1 DEF Slot
<1> QED
  BY <1>2, <1>3, <1>5, <1>7, <1>8, <1>9

\* tty_enqueue appends its character.
LEMMA EnqueueContent ==
  ASSUME NEW r, Sound(r), FrontNul(r), NEW ch \in Chars, ~ tty_enqueue(r, ch).full
  PROVE  LET e == tty_enqueue(r, ch)
         IN  /\ Sound(e) /\ FrontNul(e)
             /\ Content(r) \in Seq(Chars) /\ Content(e) = Append(Content(r), ch)
<1> DEFINE e == tty_enqueue(r, ch)
           n == (r.rear + 1) % BUF_SZ
           F == Fill(r)
<1>1. /\ BUF_SZ \in Nat \ {0} /\ BUF_SZ > 1 /\ r \in Ring
      /\ r.front \in 0 .. BUF_SZ - 1 /\ r.rear \in 0 .. BUF_SZ - 1
      /\ r.buf \in [0 .. BUF_SZ - 1 -> Chars]
  BY ConsoleConstants DEF Sound, Ring
<1>2. /\ e \in Ring /\ e.rear = n /\ e.front = r.front /\ n # r.front
      /\ e.buf = [r.buf EXCEPT ![r.rear] = ch, ![n] = NUL]
  BY <1>1, Enqueue
<1>3. n = (IF r.rear + 1 = BUF_SZ THEN 0 ELSE r.rear + 1)
  BY <1>1, Slots
<1>4. Sound(e)
  BY EnqueueSound
<1> HIDE DEF e, n
<1>5. /\ F \in 0 .. BUF_SZ - 1 /\ Content(r) \in Seq(Chars) /\ Len(Content(r)) = F
      /\ \A i \in 1 .. F : Content(r)[i] = r.buf[Slot(r, i - 1)]
      /\ Before(r.front) = Slot(r, BUF_SZ - 1) /\ r.rear = Slot(r, F)
  BY <1>1, ContentIs
<1>6. /\ Content(e) \in Seq(Chars) /\ Len(Content(e)) = Fill(e)
      /\ \A i \in 1 .. Fill(e) : Content(e)[i] = e.buf[Slot(e, i - 1)]
  BY <1>2, ContentIs
<1>7. Fill(e) = F + 1 /\ F + 1 <= BUF_SZ - 1 /\ n = Slot(r, F + 1)
  <2> DEFINE f == r.front
             b == r.rear
  <2>1. /\ F = (IF b >= f THEN b - f ELSE b - f + BUF_SZ)
        /\ Fill(e) = (IF n >= f THEN n - f ELSE n - f + BUF_SZ)
    BY <1>2, Zenon DEF Fill
  <2>2. Slot(r, F + 1) = (IF f + (F + 1) < BUF_SZ THEN f + (F + 1) ELSE f + (F + 1) - BUF_SZ)
    BY DEF Slot
  <2>3. /\ f \in 0 .. BUF_SZ - 1 /\ b \in 0 .. BUF_SZ - 1 /\ n # f
        /\ n = (IF b + 1 = BUF_SZ THEN 0 ELSE b + 1)
    BY <1>1, <1>2, <1>3
  <2> HIDE DEF f, b, F
  <2> QED
    BY <1>1, <2>1, <2>2, <2>3
<1>8. \A i : Slot(e, i) = Slot(r, i)
  BY <1>2 DEF Slot
<1>9. ASSUME NEW i \in 0 .. BUF_SZ - 1, i < F \/ i = BUF_SZ - 1
      PROVE  /\ Slot(r, i) \in 0 .. BUF_SZ - 1
             /\ i < F => e.buf[Slot(r, i)] = r.buf[Slot(r, i)]
             /\ i >= F => e.buf[Slot(r, i)] \in {r.buf[Slot(r, i)], NUL}
  <2>1. Slot(r, i) \in 0 .. BUF_SZ - 1 /\ Slot(r, i) # r.rear /\ (i < F => Slot(r, i) # n)
    <3> DEFINE f == r.front
               b == r.rear
               a == Slot(r, i)
    <3>1. /\ b = (IF f + F < BUF_SZ THEN f + F ELSE f + F - BUF_SZ)
          /\ n = (IF f + (F + 1) < BUF_SZ THEN f + (F + 1) ELSE f + (F + 1) - BUF_SZ)
          /\ a = (IF f + i < BUF_SZ THEN f + i ELSE f + i - BUF_SZ)
      BY <1>5, <1>7, Zenon DEF Slot
    <3>2. F \in 0 .. BUF_SZ - 1 /\ F + 1 <= BUF_SZ - 1 /\ f \in 0 .. BUF_SZ - 1
      BY <1>1, <1>5, <1>7
    <3> HIDE DEF f, b, a, F
    <3>3. a \in 0 .. BUF_SZ - 1 /\ a # b /\ (i < F => a # n)
      BY <1>1, <1>9, <3>1, <3>2
    <3> QED
      BY <3>3 DEF a, b
  <2> QED
    BY <1>1, <1>2, <2>1
<1>10. FrontNul(e)
  <2>1. BUF_SZ - 1 \in 0 .. BUF_SZ - 1 /\ BUF_SZ - 1 >= F
    BY <1>1, <1>5
  <2>2. e.buf[Slot(r, BUF_SZ - 1)] \in {r.buf[Slot(r, BUF_SZ - 1)], NUL}
    BY <1>9, <2>1, Zenon
  <2> QED
    BY <1>2, <1>5, <2>2 DEF FrontNul
<1>11. Append(Content(r), ch) \in Seq(Chars) /\ Len(Append(Content(r), ch)) = F + 1
       /\ Append(Content(r), ch)[F + 1] = ch
       /\ \A i \in 1 .. F : Append(Content(r), ch)[i] = Content(r)[i]
  <2> DEFINE C == Content(r)
  <2>1. C \in Seq(Chars) /\ Len(C) = F
    BY <1>5
  <2> HIDE DEF C
  <2> QED
    BY <2>1, AppendProperties DEF C
<1>12. ASSUME NEW i \in 1 .. F + 1 PROVE Content(e)[i] = Append(Content(r), ch)[i]
  <2>1. Content(e)[i] = e.buf[Slot(r, i - 1)]
    BY <1>6, <1>7, <1>8
  <2>2. CASE i = F + 1
    <3>1. i - 1 = F /\ r.rear # n
      BY <1>1, <1>3, <1>5, <2>2
    <3>2. Slot(r, i - 1) = r.rear /\ e.buf[r.rear] = ch
      BY <1>1, <1>2, <1>5, <3>1
    <3> QED
      BY <1>11, <2>1, <2>2, <3>2
  <2>3. CASE i # F + 1
    <3>1. i \in 1 .. F /\ i - 1 \in 0 .. BUF_SZ - 1 /\ i - 1 < F
      BY <1>1, <1>5, <2>3
    <3>2. e.buf[Slot(r, i - 1)] = r.buf[Slot(r, i - 1)]
      BY <1>9, <3>1, Zenon
    <3>3. Content(r)[i] = r.buf[Slot(r, i - 1)]
      BY <1>5, <3>1, Zenon
    <3> QED
      BY <1>11, <2>1, <3>1, <3>2, <3>3, Zenon
  <2> QED
    BY <2>2, <2>3
<1>13. Content(e) = Append(Content(r), ch)
  <2> DEFINE C == Content(e)
             D == Append(Content(r), ch)
  <2>1. C \in Seq(Chars) /\ D \in Seq(Chars) /\ Len(C) = F + 1 /\ Len(D) = F + 1
        /\ \A i \in 1 .. F + 1 : C[i] = D[i]
    BY <1>6, <1>7, <1>11, <1>12
  <2> HIDE DEF C, D
  <2>2. C = D
    BY <2>1, SeqEqual
  <2> QED
    BY <2>2 DEF C, D
<1> QED
  BY <1>4, <1>5, <1>10, <1>13 DEF e

\* tty_pop_back removes the last character, which is not a '\0'.
LEMMA PopContent ==
  ASSUME NEW r, Sound(r), FrontNul(r), CanPop(r)
  PROVE  LET e == tty_pop_back(r)
         IN  /\ Sound(e) /\ FrontNul(e) /\ Content(e) \in Seq(Chars)
             /\ \E x \in Chars \ {NUL} : Content(r) = Append(Content(e), x)
<1> DEFINE e == tty_pop_back(r)
           n == Before(r.rear)
           F == Fill(r)
           x == r.buf[n]
<1>1. /\ BUF_SZ \in Nat \ {0} /\ BUF_SZ > 1 /\ r \in Ring /\ ~ r.full
      /\ r.front \in 0 .. BUF_SZ - 1 /\ r.rear \in 0 .. BUF_SZ - 1
      /\ r.buf \in [0 .. BUF_SZ - 1 -> Chars]
  BY ConsoleConstants DEF Sound, Ring
<1>2. /\ e \in Ring /\ e.rear = n /\ e.front = r.front /\ e.full = r.full
      /\ e.buf = [r.buf EXCEPT ![n] = NUL]
  BY <1>1, PopBack
<1>3. n = (IF r.rear = 0 THEN BUF_SZ - 1 ELSE r.rear - 1) /\ n \in 0 .. BUF_SZ - 1
  BY <1>1, Slots
<1>4. x # NUL /\ x \in Chars
  BY <1>1, <1>3 DEF CanPop
<1>5. /\ F \in 0 .. BUF_SZ - 1 /\ Content(r) \in Seq(Chars) /\ Len(Content(r)) = F
      /\ \A i \in 1 .. F : Content(r)[i] = r.buf[Slot(r, i - 1)]
      /\ Before(r.front) = Slot(r, BUF_SZ - 1) /\ r.rear = Slot(r, F)
  BY <1>1, ContentIs
<1>6. r.rear # r.front
  BY <1>4 DEF FrontNul
<1> HIDE DEF e, n, x
<1>7. /\ Content(e) \in Seq(Chars) /\ Len(Content(e)) = Fill(e)
      /\ \A i \in 1 .. Fill(e) : Content(e)[i] = e.buf[Slot(e, i - 1)]
  BY <1>2, ContentIs
<1>8. F = Fill(e) + 1 /\ Fill(e) \in 0 .. BUF_SZ - 1 /\ n = Slot(r, Fill(e))
  <2> DEFINE f == r.front
             b == r.rear
             G == Fill(e)
  <2>1. /\ F = (IF b >= f THEN b - f ELSE b - f + BUF_SZ)
        /\ G = (IF n >= f THEN n - f ELSE n - f + BUF_SZ)
    BY <1>2, Zenon DEF Fill
  <2>2. Slot(r, G) = (IF f + G < BUF_SZ THEN f + G ELSE f + G - BUF_SZ)
    BY DEF Slot
  <2>3. /\ f \in 0 .. BUF_SZ - 1 /\ b \in 0 .. BUF_SZ - 1 /\ b # f
        /\ n = (IF b = 0 THEN BUF_SZ - 1 ELSE b - 1)
    BY <1>1, <1>3, <1>6
  <2> HIDE DEF f, b, F, G
  <2>4. F = G + 1 /\ G \in 0 .. BUF_SZ - 1 /\ n = Slot(r, G)
    BY <1>1, <2>1, <2>2, <2>3
  <2> QED
    BY <2>4 DEF G
<1>9. Sound(e) /\ FrontNul(e)
  <2>1. Before(r.front) \in 0 .. BUF_SZ - 1
    BY <1>1, Slots
  <2> QED
    BY <1>1, <1>2, <1>3, <2>1 DEF Sound, FrontNul
<1> DEFINE G == Fill(e)
           D == Append(Content(e), x)
<1>10. /\ D \in Seq(Chars) /\ Len(D) = G + 1 /\ D[G + 1] = x
       /\ \A i \in 1 .. G : D[i] = Content(e)[i]
  <2> DEFINE C == Content(e)
  <2>1. C \in Seq(Chars) /\ Len(C) = G
    BY <1>7
  <2> HIDE DEF C
  <2> QED
    BY <1>4, <2>1, AppendProperties DEF C
<1> HIDE DEF D
<1>11. ASSUME NEW i \in 1 .. G + 1 PROVE Content(r)[i] = D[i]
  <2>1. Content(r)[i] = r.buf[Slot(r, i - 1)]
    BY <1>5, <1>8
  <2>2. CASE i = G + 1
    <3>1. i - 1 = G
      BY <1>8, <2>2
    <3>2. Slot(r, i - 1) = n
      BY <1>8, <3>1
    <3> QED
      BY <1>10, <2>1, <2>2, <3>2 DEF x
  <2>3. CASE i # G + 1
    <3>1. i \in 1 .. G /\ i - 1 \in 0 .. BUF_SZ - 1 /\ i - 1 < G
      BY <1>1, <1>8, <2>3
    <3>2. Slot(r, i - 1) \in 0 .. BUF_SZ - 1 /\ Slot(r, i - 1) # n
      <4> HIDE DEF G
      <4>1. n = Slot(r, G) /\ G \in 0 .. BUF_SZ - 1
        BY <1>8 DEF G
      <4> QED
        BY <1>1, <3>1, <4>1, SMTT(20) DEF Slot
    <3>3. e.buf[Slot(r, i - 1)] = r.buf[Slot(r, i - 1)] /\ Slot(e, i - 1) = Slot(r, i - 1)
      BY <1>1, <1>2, <3>2 DEF Slot
    <3>4. Content(e)[i] = e.buf[Slot(e, i - 1)]
      BY <1>7, <3>1, Zenon
    <3> QED
      BY <1>10, <2>1, <3>1, <3>3, <3>4, Zenon
  <2> QED
    BY <2>2, <2>3
<1>12. Content(r) = D
  <2> DEFINE C == Content(r)
  <2>1. C \in Seq(Chars) /\ Len(C) = G + 1 /\ \A i \in 1 .. G + 1 : C[i] = D[i]
    BY <1>5, <1>8, <1>11
  <2> HIDE DEF C
  <2>2. C = D
    BY <1>10, <2>1, SeqEqual
  <2> QED
    BY <2>2 DEF C
<1>13. \E y \in Chars \ {NUL} : Content(r) = Append(Content(e), y)
  BY <1>4, <1>12 DEF D
<1> QED
  BY <1>7, <1>9, <1>13 DEF e
\* tty_read takes the first line and leaves the others.
LEMMA ReadContent ==
  ASSUME NEW r, Sound(r), Len(LinesOf(Content(r))) # 0
  PROVE  LET n == Min({i \in 0 .. BUF_SZ - 1 : r.buf[(r.front + i) % BUF_SZ] = NUL})
             e == [r EXCEPT !.front = (r.front + n + 1) % BUF_SZ]
             c == Content(r)
         IN  /\ Sound(e) /\ FrontNul(e) /\ LinesOf(c) # <<>>
             /\ [i \in 1 .. n |-> r.buf[(r.front + (i - 1)) % BUF_SZ]] = Head(LinesOf(c))
             /\ LinesOf(Content(e)) = Tail(LinesOf(c))
             /\ EditOf(Content(e)) = EditOf(c)
<1> DEFINE n == Min({i \in 0 .. BUF_SZ - 1 : r.buf[(r.front + i) % BUF_SZ] = NUL})
           m == (r.front + n + 1) % BUF_SZ
           e == [r EXCEPT !.front = m]
           c == Content(r)
           F == Fill(r)
<1>1. /\ BUF_SZ \in Nat \ {0} /\ BUF_SZ > 1 /\ r \in Ring /\ ~ r.full
      /\ r.front \in 0 .. BUF_SZ - 1 /\ r.rear \in 0 .. BUF_SZ - 1
      /\ r.buf \in [0 .. BUF_SZ - 1 -> Chars] /\ r.buf[r.rear] = NUL
  BY ConsoleConstants DEF Sound, Ring
<1>2. /\ n \in 0 .. BUF_SZ - 1 /\ r.buf[(r.front + n) % BUF_SZ] = NUL
      /\ \A i \in 0 .. n - 1 : r.buf[(r.front + i) % BUF_SZ] # NUL
      /\ m \in 0 .. BUF_SZ - 1
  BY ReadEnds
<1>3. /\ F \in 0 .. BUF_SZ - 1 /\ c \in Seq(Chars) /\ Len(c) = F
      /\ \A i \in 1 .. F : c[i] = r.buf[Slot(r, i - 1)]
      /\ \A i \in 0 .. BUF_SZ - 1 : (r.front + i) % BUF_SZ = Slot(r, i)
  BY <1>1, ContentIs
<1> HIDE DEF n, F
<1>4. m = Slot(r, n + 1) /\ n + 1 <= F
  <2>1. PICK p \in 1 .. F : c[p] = NUL
    BY <1>3, LineHasEnd
  <2>2. p - 1 \in 0 .. BUF_SZ - 1 /\ r.buf[Slot(r, p - 1)] = NUL
    <3>1. p - 1 \in 0 .. BUF_SZ - 1
      BY <1>1, <1>3, <2>1
    <3>2. c[p] = r.buf[Slot(r, p - 1)]
      BY <1>3, <2>1, Zenon
    <3> QED
      BY <2>1, <3>1, <3>2
  <2>3. r.buf[(r.front + (p - 1)) % BUF_SZ] = NUL
    BY <1>3, <2>2
  <2>4. ~ (p - 1 \in 0 .. n - 1)
    BY <1>2, <2>3
  <2>5. n + 1 <= F
    BY <1>1, <1>2, <1>3, <2>1, <2>4
  <2>6. n + 1 \in 0 .. BUF_SZ - 1 /\ r.front + n + 1 = r.front + (n + 1)
    <3>1. n \in Int /\ r.front \in Int /\ n >= 0 /\ F \in 0 .. BUF_SZ - 1 /\ BUF_SZ \in Nat
      BY <1>1, <1>2, <1>3
    <3> QED
      BY <2>5, <3>1
  <2>7. (r.front + (n + 1)) % BUF_SZ = Slot(r, n + 1)
    BY <1>3, <2>6, Zenon
  <2> QED
    BY <2>5, <2>6, <2>7, Zenon
<1> DEFINE f == r.front
           b == r.rear
           G == Fill(e)
<1> HIDE DEF m
<1>5. /\ e \in Ring /\ e.front = m /\ e.rear = r.rear /\ e.buf = r.buf /\ e.full = r.full
      /\ Sound(e)
  BY <1>1, <1>2 DEF Ring, Sound
<1> HIDE DEF e
<1>6. /\ G = F - (n + 1) /\ n \in 0 .. F - 1
      /\ \A i \in 0 .. G - 1 : Slot(e, i) = Slot(r, n + 1 + i)
      /\ Before(m) = Slot(r, n)
  <2>1. /\ F = (IF b >= f THEN b - f ELSE b - f + BUF_SZ)
        /\ G = (IF b >= m THEN b - m ELSE b - m + BUF_SZ)
    BY <1>5, Zenon DEF Fill, F
  <2>2. m = (IF f + (n + 1) < BUF_SZ THEN f + (n + 1) ELSE f + (n + 1) - BUF_SZ)
    BY <1>4, Zenon DEF Slot
  <2>3. f \in 0 .. BUF_SZ - 1 /\ b \in 0 .. BUF_SZ - 1 /\ n \in 0 .. BUF_SZ - 1
        /\ n + 1 <= F /\ m \in 0 .. BUF_SZ - 1
    BY <1>1, <1>2, <1>4
  <2>4. /\ Before(m) = (IF m = 0 THEN BUF_SZ - 1 ELSE m - 1)
        /\ Slot(r, n) = (IF f + n < BUF_SZ THEN f + n ELSE f + n - BUF_SZ)
    BY <1>2, Slots DEF Slot
  <2>5. G = F - (n + 1) /\ n \in 0 .. F - 1
    <3> HIDE DEF f, b, F, G
    <3> QED
      BY <1>1, <2>1, <2>2, <2>3
  <2>6. Before(m) = Slot(r, n)
    <3> DEFINE x == Before(m)
               y == Slot(r, n)
    <3>1. x = (IF m = 0 THEN BUF_SZ - 1 ELSE m - 1)
          /\ y = (IF f + n < BUF_SZ THEN f + n ELSE f + n - BUF_SZ)
      BY <2>4
    <3> HIDE DEF x, y, f, F
    <3>2. x = y
      BY <1>1, <2>2, <2>3, <3>1
    <3> QED
      BY <3>2 DEF x, y
  <2>7. ASSUME NEW i \in 0 .. G - 1 PROVE Slot(e, i) = Slot(r, n + 1 + i)
    <3> DEFINE x == Slot(e, i)
               y == Slot(r, n + 1 + i)
    <3>1. x = (IF m + i < BUF_SZ THEN m + i ELSE m + i - BUF_SZ)
          /\ y = (IF f + (n + 1 + i) < BUF_SZ THEN f + (n + 1 + i)
                  ELSE f + (n + 1 + i) - BUF_SZ)
      BY <1>5 DEF Slot
    <3>2. i \in 0 .. F - (n + 1) - 1 /\ F \in 0 .. BUF_SZ - 1
      BY <1>3, <2>5
    <3> HIDE DEF x, y, f, F, G
    <3>3. x = y
      BY <1>1, <2>2, <2>3, <3>1, <3>2
    <3> QED
      BY <3>3 DEF x, y
  <2> QED
    BY <2>5, <2>6, <2>7
<1>7. FrontNul(e)
  <2>1. r.buf[Slot(r, n)] = NUL
    BY <1>2, <1>3
  <2> QED
    BY <1>5, <1>6, <2>1 DEF FrontNul
<1> DEFINE p == n + 1
           d == SubSeq(c, p + 1, F)
<1>8. /\ p \in 1 .. F /\ c[p] = NUL
      /\ \A i \in 1 .. p - 1 : c[i] = r.buf[(r.front + (i - 1)) % BUF_SZ] /\ c[i] # NUL
  <2>1. p \in 1 .. F /\ p - 1 = n
    BY <1>3, <1>6
  <2>2. c[p] = NUL
    BY <1>2, <1>3, <2>1
  <2>3. ASSUME NEW i \in 1 .. p - 1
        PROVE  c[i] = r.buf[(r.front + (i - 1)) % BUF_SZ] /\ c[i] # NUL
    <3>1. i \in 1 .. F /\ i - 1 \in 0 .. n - 1 /\ i - 1 \in 0 .. BUF_SZ - 1
      BY <1>1, <1>2, <1>3, <1>6, <2>1
    <3>2. c[i] = r.buf[Slot(r, i - 1)] /\ (r.front + (i - 1)) % BUF_SZ = Slot(r, i - 1)
      BY <1>3, <3>1, Zenon
    <3>3. r.buf[(r.front + (i - 1)) % BUF_SZ] # NUL
      BY <1>2, <3>1, Zenon
    <3> QED
      BY <3>2, <3>3
  <2> QED
    BY <2>1, <2>2, <2>3
<1> HIDE DEF p, c
<1>9. /\ LinesOf(c) # <<>> /\ Head(LinesOf(c)) = SubSeq(c, 1, p - 1)
      /\ LinesOf(d) = Tail(LinesOf(c)) /\ EditOf(d) = EditOf(c)
  BY <1>3, <1>8, SplitDrop
<1>10. Content(e) = d
  <2> DEFINE k == p + 1
             D == SubSeq(c, k, F)
             E == Content(e)
  <2>1. k = n + 2 /\ k \in Int /\ F \in Int /\ 1 <= k /\ k <= F + 1 /\ G = F - k + 1
    BY <1>2, <1>3, <1>6 DEF p
  <2>2. E \in Seq(Chars) /\ Len(E) = G /\ \A i \in 1 .. G : E[i] = e.buf[Slot(e, i - 1)]
    BY <1>5, ContentIs
  <2>3. \A i \in k .. F : c[i] \in Chars
    BY <1>3, <2>1
  <2> HIDE DEF k, E, G, F
  <2>4. /\ D \in Seq(Chars) /\ Len(D) = (IF k <= F THEN F - k + 1 ELSE 0)
        /\ \A i \in 1 .. F - k + 1 : D[i] = c[k + i - 1]
    BY <2>1, <2>3, SubSeqProperties
  <2> HIDE DEF D
  <2>5. Len(D) = Len(E) /\ Len(D) = G
    BY <2>1, <2>2, <2>4
  <2>6. ASSUME NEW i \in 1 .. G PROVE E[i] = D[i]
    <3>1. /\ i - 1 \in 0 .. G - 1 /\ n + 1 + (i - 1) = (k + i - 1) - 1
          /\ k + i - 1 \in 1 .. F /\ i \in 1 .. F - k + 1
      BY <1>2, <2>1
    <3>2. E[i] = r.buf[Slot(e, i - 1)]
      BY <1>5, <2>2
    <3>3. Slot(e, i - 1) = Slot(r, n + 1 + (i - 1))
      BY <1>6, <3>1, Zenon
    <3>4. c[k + i - 1] = r.buf[Slot(r, (k + i - 1) - 1)]
      BY <1>3, <3>1, Zenon
    <3>5. D[i] = c[k + i - 1]
      BY <2>4, <3>1, Zenon
    <3> QED
      BY <3>1, <3>2, <3>3, <3>4, <3>5, Zenon
  <2>7. E = D
    BY <2>2, <2>4, <2>5, <2>6, SeqEqual
  <2> QED
    BY <2>7 DEF D, E, k
<1>11. [i \in 1 .. n |-> r.buf[(r.front + (i - 1)) % BUF_SZ]] = SubSeq(c, 1, p - 1)
  <2> DEFINE D == SubSeq(c, 1, n)
             E == [i \in 1 .. n |-> r.buf[(r.front + (i - 1)) % BUF_SZ]]
  <2>1. p - 1 = n /\ n \in Nat /\ n <= F /\ 1 \in Int /\ n \in Int /\ F \in Nat
    BY <1>2, <1>3, <1>6 DEF p
  <2>2. \A i \in 1 .. n : c[i] = E[i]
    BY <1>8, <2>1, Zenon
  <2>3. \A i \in 1 .. n : c[i] \in Chars
    BY <1>3, <2>1
  <2>4. /\ D \in Seq(Chars) /\ Len(D) = (IF 1 <= n THEN n - 1 + 1 ELSE 0)
        /\ \A i \in 1 .. n - 1 + 1 : D[i] = c[1 + i - 1]
    BY <2>1, <2>3, SubSeqProperties
  <2>5. E \in [1 .. n -> Chars]
    BY <2>2, <2>3, Zenon
  <2> HIDE DEF D, E
  <2>6. E \in Seq(Chars) /\ Len(E) = n /\ Len(D) = n
    <3>1. E \in Seq(Chars) /\ Len(E) = n
      BY <2>1, <2>5
    <3>2. Len(D) = n
      BY <2>1, <2>4
    <3> QED
      BY <3>1, <3>2
  <2>7. ASSUME NEW i \in 1 .. n PROVE E[i] = D[i]
    <3>1. 1 + i - 1 = i /\ i \in 1 .. n - 1 + 1
      BY <2>1
    <3>2. D[i] = c[1 + i - 1]
      BY <2>4, <3>1, Zenon
    <3> QED
      BY <2>2, <3>1, <3>2, Zenon
  <2>8. E = D
    BY <2>4, <2>6, <2>7, SeqEqual
  <2> QED
    BY <2>1, <2>8 DEF D, E
<1> QED
  BY <1>5, <1>7, <1>9, <1>10, <1>11, Zenon DEF e, m, n, c
(***************************************************************************)
(* The line discipline.  Shift+Return sends a '\0' (input.c has no entry   *)
(* for it), which ends a line that the semaphore does not count: the run   *)
(* ConsoleShift shows it.  Without Shift the rings implement Lines.        *)
(***************************************************************************)
ShiftKeys == {"LSHIFT", "RSHIFT"}
NoShift == Keys \cap ShiftKeys = {}

\* A slot of the event ring that holds an event.
InUse(i) ==
  IF front <= rear THEN front <= i /\ i < rear ELSE front <= i \/ i < rear

\* No event is a '\0'.
NoNul ==
  /\ down \cap ShiftKeys = {}
  /\ Up => \A i \in 0 .. NEVENTS - 1 : InUse(i) => events[i].data # NUL
  /\ tpc = "cook" => ev.data # NUL

LInv ==
  /\ NoNul
  /\ spc \in [Ttys -> {"prompt", "wait", "read"}]
  /\ \A t \in Ttys : FrontNul(q[t])
  /\ CookedCountsLines
\* Without Shift no key sends a '\0'.
LEMMA EventNotNul ==
  ASSUME NEW k \in DOMAIN keymap, down \cap ShiftKeys = {}
  PROVE  event(k).data # NUL
<1>1. k \in {"K_1", "K_2", "K_RETURN", "K_BACKSPACE", "K_A"}
  BY DEF keymap
<1>2. keymap[k] # NUL /\ (k \in Letters => keymap_shift[k] # NUL)
  BY <1>1 DEF keymap, keymap_shift, Letters, NUL, NL, BS
<1>3. ~ Held({"LSHIFT", "RSHIFT"})
  BY DEF Held, ShiftKeys
<1>4. event(k).data = keymap[k] \/ (k \in Letters /\ event(k).data = keymap_shift[k])
  <2> DEFINE c == Held({"LCTRL", "RCTRL"})
             a == Held({"LALT", "RALT"})
             s == Held({"LSHIFT", "RSHIFT"}) # (k \in Letters /\ capslock)
  <2>1. event(k).data = (IF ~ c /\ ~ a /\ s THEN keymap_shift[k] ELSE keymap[k])
    BY DEF event
  <2>2. ASSUME k \notin Letters PROVE ~ s
    <3>1. Held({"LSHIFT", "RSHIFT"}) = FALSE
      BY <1>3 DEF Held
    <3>2. (k \in Letters /\ capslock) = FALSE
      BY <2>2
    <3> QED
      BY <3>1, <3>2
  <2> HIDE DEF c, a, s
  <2> QED
    BY <2>1, <2>2
<1> QED
  BY <1>2, <1>4

\* No step lets a '\0' in.
LEMMA NoNulStep ==
  ASSUME NoShift, CInv, NoNul, [Next]_vars
  PROVE  NoNul'
<1>0. /\ NEVENTS \in Nat /\ NEVENTS > 1
      /\ front \in 0 .. NEVENTS - 1 /\ rear \in 0 .. NEVENTS - 1
      /\ events \in [0 .. NEVENTS - 1 -> Event]
  BY ConsoleConstants DEF CInv, InputInv
<1>1. CASE UNCHANGED <<status, down, front, rear, events, tpc, ev>>
  BY <1>1 DEF NoNul, InUse, Up
<1>2. CASE Up /\ KeyDown
  <2>1. CASE \E k \in Keys \cap DOMAIN keymap :
               push_event(event(k)) /\ UNCHANGED <<down, capslock>>
    <3>1. PICK k \in Keys \cap DOMAIN keymap :
               push_event(event(k)) /\ UNCHANGED <<down, capslock>>
      BY <2>1
    <3> DEFINE e == event(k)
    <3>2. e.data # NUL
      BY EventNotNul DEF NoNul
    <3>3. /\ events' = [events EXCEPT ![rear] = e]
          /\ rear' = (rear + 1) % NEVENTS
          /\ front' = front /\ tpc' = tpc /\ ev' = ev /\ inpc = "read" /\ down' = down
          /\ \/ rear' = front /\ status' = "input queue full"
             \/ rear' # front /\ status' = status
      BY <1>2, <3>1 DEF push_event, KeyDown, ttyVars
    <3> HIDE DEF e
    <3>4. rear' = (IF rear + 1 = NEVENTS THEN 0 ELSE rear + 1)
      BY <1>0, <3>3, EventSlots
    <3>5. ASSUME rear' # front, NEW i \in 0 .. NEVENTS - 1, InUse(i)'
          PROVE  events'[i].data # NUL
      <4>1. i = rear \/ InUse(i)
        <5> DEFINE m == rear'
        <5>1. IF front <= m THEN front <= i /\ i < m ELSE front <= i \/ i < m
          BY <3>3, <3>5 DEF InUse
        <5>2. m = (IF rear + 1 = NEVENTS THEN 0 ELSE rear + 1) /\ m # front
          BY <3>4, <3>5
        <5> HIDE DEF m
        <5> QED
          BY <1>0, <5>1, <5>2 DEF InUse
      <4>2. i = rear => events'[i] = e
        BY <1>0, <3>3
      <4>3. i # rear => events'[i] = events[i]
        BY <1>0, <3>3
      <4> QED
        BY <1>2, <3>2, <4>1, <4>2, <4>3 DEF NoNul
    <3>6. Up' => rear' # front
      BY <3>3 DEF Up
    <3> QED
      BY <3>3, <3>5, <3>6 DEF NoNul
  <2>2. CASE \E k \in Keys \ DOMAIN keymap :
               /\ down' = down \cup ({k} \cap ModKeys)
               /\ capslock' = (capslock # (k = "CAPSLOCK"))
               /\ UNCHANGED <<status, inpc, events, rear>>
    <3>1. PICK k \in Keys : down' = down \cup ({k} \cap ModKeys)
      BY <2>2
    <3>2. down' \cap ShiftKeys = {}
      BY <3>1 DEF NoNul, NoShift
    <3>3. UNCHANGED <<status, inpc, events, rear, front, tpc, ev>>
      BY <1>2, <2>2 DEF KeyDown, ttyVars
    <3> QED
      BY <3>2, <3>3 DEF NoNul, InUse, Up
  <2> QED
    BY <1>2, <2>1, <2>2 DEF KeyDown
<1>3. CASE Up /\ KeyUp
  <2>1. down' \subseteq down /\ UNCHANGED <<status, front, rear, events, tpc, ev>>
    BY <1>3 DEF KeyUp, ttyVars, evVars
  <2> QED
    BY <2>1 DEF NoNul, InUse, Up
<1>4. CASE Up /\ (SignalEvent \/ WaitEvent \/ SwitchTty \/ Echo)
  <2>1. /\ UNCHANGED <<status, down, front, rear, events>>
        /\ (tpc' = tpc /\ ev' = ev) \/ tpc' # "cook"
    BY <1>4 DEF SignalEvent, WaitEvent, SwitchTty, Echo, Handled, inVars, evVars, ttyVars
  <2> QED
    BY <2>1 DEF NoNul, InUse, Up
<1>5. CASE Up /\ pop_event
  <2>1. rear # front
    <3>0. tpc = "pop" /\ event_sem \in 0 .. NEVENTS - 1
      BY <1>5, Zenon DEF pop_event, CInv, InputInv
    <3>1. Announced > 0
      BY <1>0, <3>0 DEF Announced
    <3>2. Announced = Used
      BY <1>5, Zenon DEF CInv, InputInv
    <3>3. rear = front => Used = 0
      BY <1>0 DEF Used
    <3> QED
      BY <3>1, <3>2, <3>3
  <2>2. /\ events' = [events EXCEPT ![front] = NoEvent]
        /\ front' = (front + 1) % NEVENTS
        /\ ev' = events[front]
        /\ UNCHANGED <<status, down, rear>>
    BY <1>5, <2>1 DEF pop_event, inVars
  <2>3. InUse(front)
    BY <1>0, <2>1 DEF InUse
  <2>4. ev'.data # NUL
    BY <1>0, <1>5, <2>2, <2>3 DEF NoNul
  <2>5. front' = (IF front + 1 = NEVENTS THEN 0 ELSE front + 1)
    BY <1>0, <2>2, EventSlots
  <2>6. ASSUME NEW i \in 0 .. NEVENTS - 1, InUse(i)' PROVE events'[i].data # NUL
    <3>1. InUse(i) /\ i # front
      BY <1>0, <2>1, <2>2, <2>5, <2>6 DEF InUse
    <3>2. events'[i] = events[i]
      BY <1>0, <2>2, <3>1
    <3> QED
      BY <1>5, <3>1, <3>2 DEF NoNul
  <2> QED
    BY <2>2, <2>4, <2>6 DEF NoNul
<1>6. CASE Up /\ tty_cook
  <2>1. /\ UNCHANGED <<down, front, rear, events>>
        /\ (tpc' = tpc /\ ev' = ev /\ status' = "tty queue full")
           \/ (tpc' # "cook" /\ status' = status)
    BY <1>6 DEF tty_cook, Handled, inVars, evVars
  <2> QED
    BY <1>6, <2>1 DEF NoNul, InUse, Up
<1>7. CASE Up /\ \E t \in Ttys : ShellPrompt(t) \/ ShellWait(t) \/ tty_read(t)
  <2>1. /\ UNCHANGED <<down, front, rear, events, tpc, ev>>
        /\ status' \in {status, "readbuf overrun"}
    BY <1>7 DEF ShellPrompt, ShellWait, tty_read, inVars, evVars, ttyVars
  <2> QED
    BY <1>7, <2>1 DEF NoNul, InUse, Up
<1>8. CASE Halted \/ UNCHANGED vars
  BY <1>1, <1>8 DEF Halted, vars
<1> QED
  BY <1>2, <1>3, <1>4, <1>5, <1>6, <1>7, <1>8 DEF Next

\* What tty_cook does to the lines of a ring.
LEMMA CookedLines ==
  ASSUME NEW r, Sound(r), FrontNul(r), NEW ch \in Chars, ch # NUL,
         ~ Cooked(r, ch).full
  PROVE  LET e == Cooked(r, ch)
             c == Content(r)
             d == Content(e)
         IN  /\ FrontNul(e)
             /\ ch = NL => /\ LinesOf(d) = Append(LinesOf(c), Append(EditOf(c), NL))
                           /\ EditOf(d) = <<>>
                           /\ Len(LinesOf(d)) = Len(LinesOf(c)) + 1
             /\ ch # NL => LinesOf(d) = LinesOf(c)
             /\ ch = BS /\ CanPop(r) => /\ EditOf(c) # <<>>
                                        /\ EditOf(d) = Front(EditOf(c))
             /\ ch = BS /\ ~ CanPop(r) => e = r
             /\ ch \notin {NL, BS} => EditOf(d) = Append(EditOf(c), ch)
<1> DEFINE e == Cooked(r, ch)
           c == Content(r)
           d == Content(e)
<1>0. NL \in Chars /\ NUL \in Chars /\ r \in Ring /\ NL # NUL /\ BS # NL
  BY DEF Chars, Sound, NL, NUL, BS
<1>00. c \in Seq(Chars)
  BY <1>0, ContentIs
<1>1. CASE ch = NL
  <2> DEFINE a == tty_enqueue(r, NL)
             b == tty_enqueue(a, NUL)
  <2>1. e = b
    BY <1>1 DEF Cooked, NL, BS
  <2>2. a \in Ring /\ ~ b.full /\ ~ a.full
    <3>1. a \in Ring
      BY <1>0, Enqueue
    <3> HIDE DEF a
    <3>2. ~ b.full
      BY <2>1
    <3> QED
      BY <1>0, <3>1, <3>2, FullStays
  <2>3. Sound(a) /\ FrontNul(a) /\ Content(a) = Append(c, NL)
    BY <1>0, <2>2, EnqueueContent
  <2> HIDE DEF a
  <2>4. FrontNul(b) /\ Content(b) = Append(Content(a), NUL)
    BY <1>0, <2>2, <2>3, EnqueueContent
  <2> HIDE DEF b, c
  <2> DEFINE g == Append(c, NL)
  <2>5. g \in Seq(Chars) /\ LinesOf(g) = LinesOf(c) /\ EditOf(g) = Append(EditOf(c), NL)
    BY <1>0, <1>00, SplitPlain
  <2> HIDE DEF g
  <2>6. /\ LinesOf(Append(g, NUL)) = Append(LinesOf(g), EditOf(g))
        /\ EditOf(Append(g, NUL)) = <<>>
    BY <2>5, SplitNul
  <2>7. Content(b) = Append(g, NUL)
    BY <2>3, <2>4 DEF g
  <2>8. /\ LinesOf(Content(b)) = Append(LinesOf(c), Append(EditOf(c), NL))
        /\ EditOf(Content(b)) = <<>>
    BY <2>5, <2>6, <2>7, Zenon
  <2>9. Len(Append(LinesOf(c), Append(EditOf(c), NL))) = Len(LinesOf(c)) + 1
    <3>1. PICK n \in Nat : \E f : LinesOf(c) \in Seq(Seq(Chars)) /\ EditOf(c) \in Seq(Chars)
      BY <1>00, LinesWitness
    <3> DEFINE U == LinesOf(c)
               v == Append(EditOf(c), NL)
               Q == Seq(Chars)
    <3>2. U \in Seq(Q) /\ v \in Q
      BY <1>0, <3>1
    <3> HIDE DEF U, v, Q
    <3>3. Len(Append(U, v)) = Len(U) + 1
      BY <3>2, AppendProperties
    <3> QED
      BY <3>3 DEF U, v
  <2> QED
    BY <1>0, <1>1, <2>1, <2>4, <2>8, <2>9 DEF c
<1>2. CASE ch = BS /\ CanPop(r)
  <2>1. e = tty_pop_back(r)
    BY <1>2 DEF Cooked, NL, BS
  <2> DEFINE p == tty_pop_back(r)
  <2>2. /\ FrontNul(p) /\ Content(p) \in Seq(Chars)
        /\ \E x \in Chars \ {NUL} : c = Append(Content(p), x)
    BY <1>2, PopContent
  <2>3. PICK x \in Chars \ {NUL} : c = Append(Content(p), x)
    BY <2>2
  <2> HIDE DEF p
  <2> DEFINE g == Content(p)
             v == EditOf(g)
  <2>4. /\ LinesOf(Append(g, x)) = LinesOf(g)
        /\ EditOf(Append(g, x)) = Append(EditOf(g), x)
    BY <2>2, <2>3, SplitPlain
  <2>5. v \in Seq(Chars)
    BY <2>2, LinesWitness
  <2> HIDE DEF g, v
  <2>6. Append(v, x) # <<>> /\ Front(Append(v, x)) = v
    <3> DEFINE w == Append(v, x)
               y == SubSeq(w, 1, Len(v))
    <3>1. /\ w \in Seq(Chars) /\ w # <<>> /\ Len(w) = Len(v) + 1
          /\ \A i \in 1 .. Len(v) : w[i] = v[i]
      BY <2>5, AppendProperties
    <3>2. Len(v) \in Int /\ Len(v) \in Nat /\ 1 \in Int /\ \A i \in 1 .. Len(v) : v[i] \in Chars
      BY <2>5
    <3> HIDE DEF w
    <3>3. \A i \in 1 .. Len(v) : w[i] \in Chars
      BY <3>1, <3>2
    <3>4. /\ y \in Seq(Chars) /\ Len(y) = (IF 1 <= Len(v) THEN Len(v) - 1 + 1 ELSE 0)
          /\ \A i \in 1 .. Len(v) - 1 + 1 : y[i] = w[1 + i - 1]
      BY <3>2, <3>3, SubSeqProperties
    <3> HIDE DEF y
    <3>5. Len(y) = Len(v)
      BY <3>2, <3>4
    <3>6. ASSUME NEW i \in 1 .. Len(v) PROVE y[i] = v[i]
      <4>1. 1 + i - 1 = i /\ i \in 1 .. Len(v) - 1 + 1
        BY <3>2
      <4>2. y[i] = w[1 + i - 1]
        BY <3>4, <4>1, Zenon
      <4> QED
        BY <3>1, <4>1, <4>2, Zenon
    <3>7. y = v
      BY <2>5, <3>4, <3>5, <3>6, SeqEqual
    <3>8. Len(w) - 1 = Len(v)
      BY <3>1, <3>2
    <3> QED
      BY <3>1, <3>7, <3>8, Zenon DEF Front, w, y
  <2>7. LinesOf(g) = LinesOf(c) /\ EditOf(c) = Append(v, x)
    BY <2>3, <2>4, Zenon DEF g, v
  <2>8. EditOf(c) # <<>> /\ EditOf(g) = Front(EditOf(c))
    BY <2>6, <2>7 DEF v
  <2>9. ch # NL
    BY <1>0, <1>2
  <2> QED
    BY <1>2, <2>1, <2>2, <2>7, <2>8, <2>9 DEF g, p
<1>3. CASE ch = BS /\ ~ CanPop(r)
  <2>1. e = r
    BY <1>3 DEF Cooked, NL, BS, tty_pop_back
  <2> QED
    BY <1>0, <1>3, <2>1
<1>4. CASE ch # NL /\ ch # BS
  <2>1. e = tty_enqueue(r, ch)
    BY <1>4 DEF Cooked
  <2> DEFINE a == tty_enqueue(r, ch)
  <2>2. FrontNul(a) /\ Content(a) = Append(c, ch)
    BY <2>1, EnqueueContent
  <2>3. LinesOf(Append(c, ch)) = LinesOf(c) /\ EditOf(Append(c, ch)) = Append(EditOf(c), ch)
    BY <1>00, SplitPlain
  <2> HIDE DEF a
  <2> QED
    BY <1>4, <2>1, <2>2, <2>3 DEF a
<1> QED
  BY <1>1, <1>2, <1>3, <1>4
\* The lines of every terminal, and the ones being edited.
AllLines == [t \in Ttys |-> Split(q[t]).lines]
AllEdits == [t \in Ttys |-> Split(q[t]).edit]

\* A step on one ring changes the lines of that terminal only.
LEMMA OneTty ==
  ASSUME NEW t \in Ttys, \A u \in Ttys \ {t} : q'[u] = q[u]
  PROVE  /\ AllLines' = [AllLines EXCEPT ![t] = Split(q'[t]).lines]
         /\ AllEdits' = [AllEdits EXCEPT ![t] = Split(q'[t]).edit]
BY DEF AllLines, AllEdits

\* A step that leaves the rings and what was read alone changes no line.
LEMMA LinesFrame ==
  ASSUME UNCHANGED <<q, readbuf>>
  PROVE  UNCHANGED L!vars
BY DEF L!vars

\* The part of the invariant that is about the rings, for one terminal.
Counted(t) ==
  /\ FrontNul(q[t])
  /\ Len(Split(q[t]).lines) = cooked[t] + (IF spc[t] = "read" THEN 1 ELSE 0)

\* tty_cook types, erases or completes a line (tty.c:65-83).
LEMMA CookStep ==
  ASSUME CInv, LInv, tty_cook
  PROVE  (\A t \in Ttys : Counted(t)') /\ (L!Next \/ UNCHANGED L!vars)
<1> DEFINE t == ttydev
           ch == ev.data
           r == q[t]
           e == Cooked(r, ch)
           c == Content(r)
           d == Content(e)
<1>0. /\ t \in Ttys /\ ch \in Chars /\ ch # NUL /\ q \in [Ttys -> Ring]
      /\ Sound(r) /\ FrontNul(r) /\ cooked \in [Ttys -> Nat]
      /\ spc' = spc /\ readbuf' = readbuf
      /\ \A u \in Ttys : Counted(u)
  BY DEF CInv, TtyInv, LInv, NoNul, tty_cook, Event, Counted, CookedCountsLines, shVars
<1>1. CASE UNCHANGED <<q, cooked>>
  <2>1. \A u \in Ttys : Counted(u)'
    BY <1>0, <1>1 DEF Counted
  <2> QED
    BY <1>0, <1>1, <2>1, LinesFrame
<1>2. CASE /\ ~ e.full /\ q' = [q EXCEPT ![t] = e]
           /\ cooked' = [cooked EXCEPT ![t] = IF ch = NL THEN @ + 1 ELSE @]
  <2>1. /\ q'[t] = e /\ \A u \in Ttys \ {t} : q'[u] = q[u]
        /\ cooked'[t] = (IF ch = NL THEN cooked[t] + 1 ELSE cooked[t])
        /\ \A u \in Ttys \ {t} : cooked'[u] = cooked[u]
    BY <1>0, <1>2
  <2>2. /\ FrontNul(e)
        /\ ch = NL => /\ LinesOf(d) = Append(LinesOf(c), Append(EditOf(c), NL))
                      /\ EditOf(d) = <<>>
                      /\ Len(LinesOf(d)) = Len(LinesOf(c)) + 1
        /\ ch # NL => LinesOf(d) = LinesOf(c)
        /\ ch = BS /\ CanPop(r) => EditOf(c) # <<>> /\ EditOf(d) = Front(EditOf(c))
        /\ ch = BS /\ ~ CanPop(r) => e = r
        /\ ch \notin {NL, BS} => EditOf(d) = Append(EditOf(c), ch)
    BY <1>0, <1>2, CookedLines
  <2>3. /\ Split(r).lines = LinesOf(c) /\ Split(r).edit = EditOf(c)
        /\ Split(q'[t]).lines = LinesOf(d) /\ Split(q'[t]).edit = EditOf(d)
    BY <2>1, SplitIs
  <2>4. AllLines[t] = LinesOf(c) /\ AllEdits[t] = EditOf(c)
    BY <1>0, <2>3 DEF AllLines, AllEdits
  <2>5. /\ AllLines' = [AllLines EXCEPT ![t] = LinesOf(d)]
        /\ AllEdits' = [AllEdits EXCEPT ![t] = EditOf(d)]
    BY <1>0, <2>1, <2>3, OneTty
  <2>6. ASSUME NEW u \in Ttys PROVE Counted(u)'
    <3>1. CASE u = t
      <4>1. Len(LinesOf(c)) = cooked[t] + (IF spc[t] = "read" THEN 1 ELSE 0) /\ cooked[t] \in Nat
        BY <1>0, <2>3 DEF Counted
      <4>2. Len(LinesOf(d)) = cooked'[t] + (IF spc[t] = "read" THEN 1 ELSE 0)
        BY <2>1, <2>2, <4>1
      <4> QED
        BY <1>0, <2>1, <2>2, <2>3, <3>1, <4>2 DEF Counted
    <3>2. CASE u # t
      <4>1. q'[u] = q[u] /\ cooked'[u] = cooked[u]
        BY <2>1, <3>2
      <4> QED
        BY <1>0, <4>1 DEF Counted
    <3> QED
      BY <3>1, <3>2
  <2> HIDE DEF t, ch, e, d, c
  <2>7. CASE ch = NL
    <3>1. L!Enter(t)
      BY <1>0, <2>2, <2>4, <2>5, <2>7 DEF L!Enter, AllLines, AllEdits
    <3> QED
      BY <1>0, <2>6, <3>1 DEF L!Next
  <2>8. CASE ch = BS /\ CanPop(r)
    <3>0. AllLines' = AllLines
      BY <2>2, <2>4, <2>5, <2>8 DEF AllLines, BS, NL
    <3>1. L!Erase(t)
      BY <1>0, <2>2, <2>4, <2>5, <2>8, <3>0
         DEF L!Erase, L!Front, Front, AllLines, AllEdits
    <3> QED
      BY <1>0, <2>6, <3>1 DEF L!Next
  <2>9. CASE ch = BS /\ ~ CanPop(r)
    <3>1. q' = q
      BY <1>0, <1>2, <2>2, <2>9
    <3> QED
      BY <1>0, <2>6, <3>1, LinesFrame
  <2>10. CASE ch \notin {NL, BS}
    <3>0. AllLines' = AllLines
      BY <2>2, <2>4, <2>5, <2>10 DEF AllLines
    <3>1. L!Type(t, ch)
      BY <1>0, <2>2, <2>4, <2>5, <2>10, <3>0 DEF L!Type, AllLines, AllEdits
    <3>2. ch \in Chars \ {NUL, NL, BS}
      BY <1>0, <2>10
    <3> QED
      BY <1>0, <2>6, <3>1, <3>2 DEF L!Next
  <2> QED
    BY <2>7, <2>8, <2>9, <2>10
<1> QED
  BY <1>1, <1>2 DEF tty_cook

\* tty_read takes the oldest line (tty.c:197-216).
LEMMA ReadStep ==
  ASSUME CInv, LInv, NEW t \in Ttys, tty_read(t)
  PROVE  (\A u \in Ttys : Counted(u)') /\ L!Next
<1> DEFINE r == q[t]
           n == Min({i \in 0 .. BUF_SZ - 1 : r.buf[(r.front + i) % BUF_SZ] = NUL})
           m == (r.front + n + 1) % BUF_SZ
           e == [r EXCEPT !.front = m]
           g == [i \in 1 .. n |-> r.buf[(r.front + (i - 1)) % BUF_SZ]]
           h == [i \in 1 .. Stored(n) |-> r.buf[(r.front + (i - 1)) % BUF_SZ]]
           c == Content(r)
           d == Content(e)
<1>0. /\ q \in [Ttys -> Ring] /\ Sound(r) /\ FrontNul(r) /\ cooked \in [Ttys -> Nat]
      /\ \A u \in Ttys : Counted(u)
      /\ spc \in [Ttys -> {"prompt", "wait", "read"}] /\ cooked' = cooked
      /\ spc[t] = "read" /\ spc' = [spc EXCEPT ![t] = "prompt"]
  BY DEF CInv, TtyInv, LInv, tty_read, Counted, CookedCountsLines
<1>1. q' = [q EXCEPT ![t].front = m] /\ readbuf' = [readbuf EXCEPT ![t] = h]
  BY DEF tty_read
<1>2. Len(LinesOf(c)) = cooked[t] + 1 /\ Len(LinesOf(c)) # 0 /\ cooked[t] \in Nat
  <2>1. Len(Split(r).lines) = cooked[t] + 1 /\ cooked[t] \in Nat
    BY <1>0 DEF Counted
  <2>2. Split(r).lines = LinesOf(c)
    BY SplitIs
  <2> QED
    BY <2>1, <2>2
<1>3. /\ FrontNul(e) /\ LinesOf(c) # <<>> /\ g = Head(LinesOf(c))
      /\ LinesOf(d) = Tail(LinesOf(c)) /\ EditOf(d) = EditOf(c)
  BY <1>0, <1>2, ReadContent
<1>11. h = L!Start(g)
  <2>1. n \in 0 .. BUF_SZ - 1
    BY <1>0, ReadEnds
  <2>2. n \in Nat /\ READ_SZ \in Nat
    BY <2>1, ConsoleConstants
  <2> DEFINE k == Stored(n)
  <2>3. Len(g) = n
    BY <2>2
  <2>4. k \in 0 .. n
    <3>1. k = IF n < READ_SZ THEN n ELSE READ_SZ
      BY DEF Stored
    <3> HIDE DEF n, k
    <3> QED
      BY <2>2, <3>1
  <2>5. L!Start(g) = SubSeq(g, 1, k)
    BY <2>3 DEF L!Start, Stored
  <2>6. \A i \in 1 .. n : g[i] = r.buf[(r.front + (i - 1)) % BUF_SZ]
    OBVIOUS
  <2>7. h = [i \in 1 .. k |-> r.buf[(r.front + (i - 1)) % BUF_SZ]]
    OBVIOUS
  <2> HIDE DEF g, n, h, k, r
  <2>8. SubSeq(g, 1, k) = [i \in 1 .. k |-> g[i]]
    BY <2>2, <2>4
  <2>9. \A i \in 1 .. k : i \in 1 .. n
    BY <2>2, <2>4
  <2>10. \A i \in 1 .. k : g[i] = r.buf[(r.front + (i - 1)) % BUF_SZ]
    BY <2>6, <2>9
  <2>11. [i \in 1 .. k |-> g[i]] = [i \in 1 .. k |-> r.buf[(r.front + (i - 1)) % BUF_SZ]]
    BY <2>10
  <2> QED
    BY <2>5, <2>7, <2>8, <2>11
<1> HIDE DEF m, g, h
<1>4. q'[t] = e /\ \A u \in Ttys \ {t} : q'[u] = q[u]
  BY <1>0, <1>1
<1>5. /\ Split(r).lines = LinesOf(c) /\ Split(r).edit = EditOf(c)
      /\ Split(q'[t]).lines = LinesOf(d) /\ Split(q'[t]).edit = EditOf(d)
  BY <1>4, SplitIs
<1> HIDE DEF e, c, d, r
<1>6. AllLines[t] = LinesOf(c) /\ AllEdits[t] = EditOf(c)
  BY <1>0, <1>5 DEF AllLines, AllEdits, r
<1>7. /\ AllLines' = [AllLines EXCEPT ![t] = LinesOf(d)]
      /\ AllEdits' = [AllEdits EXCEPT ![t] = EditOf(d)]
  BY <1>4, <1>5, OneTty
<1>8. ASSUME NEW u \in Ttys PROVE Counted(u)'
  <2>1. CASE u = t
    <3>1. c = Content(r) /\ r \in Ring
      BY <1>0 DEF Sound, c
    <3>2. LinesOf(c) \in Seq(Seq(Chars))
      <4>1. c \in Seq(Chars)
        BY <3>1, ContentIs
      <4> QED
        BY <4>1, LinesWitness
    <3> DEFINE U == LinesOf(c)
               Q == Seq(Chars)
    <3>3. U \in Seq(Q) /\ U # <<>> /\ LinesOf(d) = Tail(U) /\ Len(U) = cooked[t] + 1
      BY <1>2, <1>3, <3>2
    <3> HIDE DEF U, Q
    <3>4. Len(Tail(U)) = cooked[t]
      BY <1>2, <3>3
    <3>5. Len(Split(q'[t]).lines) = cooked[t]
      BY <1>5, <3>3, <3>4
    <3>6. spc'[t] = "prompt" /\ cooked[t] \in Nat
      BY <1>0, <1>2
    <3> QED
      BY <1>0, <1>3, <1>4, <2>1, <3>5, <3>6 DEF Counted
  <2>2. CASE u # t
    <3>1. q'[u] = q[u] /\ spc'[u] = spc[u]
      BY <1>0, <1>4, <2>2
    <3> QED
      BY <1>0, <3>1 DEF Counted
  <2> QED
    BY <2>1, <2>2
<1>9. AllEdits' = AllEdits
  BY <1>3, <1>6, <1>7 DEF AllEdits
<1>10. L!Read(t)
  BY <1>1, <1>3, <1>6, <1>7, <1>9, <1>11 DEF L!Read, AllLines, AllEdits
<1> QED
  BY <1>8, <1>10 DEF L!Next
\* Every step keeps the count of lines and is a step of Lines or none.
LEMMA LinesStep ==
  ASSUME NoShift, CInv, LInv, [Next]_vars
  PROVE  LInv' /\ [L!Next]_(L!vars)
<1>0. /\ spc \in [Ttys -> {"prompt", "wait", "read"}] /\ cooked \in [Ttys -> Nat]
      /\ \A t \in Ttys : Counted(t)
  BY DEF CInv, TtyInv, LInv, Counted, CookedCountsLines
<1>1. NoNul'
  BY NoNulStep DEF LInv
<1>2. ASSUME spc' \in [Ttys -> {"prompt", "wait", "read"}], \A t \in Ttys : Counted(t)'
      PROVE  LInv'
  BY <1>1, <1>2 DEF LInv, CookedCountsLines, Counted
<1>3. CASE UNCHANGED <<q, readbuf, cooked, spc>>
  <2>1. \A t \in Ttys : Counted(t)'
    BY <1>0, <1>3 DEF Counted
  <2> QED
    BY <1>0, <1>2, <1>3, <2>1, LinesFrame
<1>4. CASE KeyDown \/ KeyUp \/ SignalEvent \/ WaitEvent \/ pop_event \/ SwitchTty \/ Echo
  <2>1. UNCHANGED <<q, readbuf, cooked, spc>>
    BY <1>4 DEF KeyDown, KeyUp, SignalEvent, WaitEvent, pop_event, SwitchTty, Echo, shVars
  <2> QED
    BY <1>3, <2>1
<1>5. CASE tty_cook
  <2>1. spc' = spc
    BY <1>5 DEF tty_cook, shVars
  <2> QED
    BY <1>0, <1>2, <1>5, <2>1, CookStep
<1>6. ASSUME NEW t \in Ttys, ShellPrompt(t)
      PROVE  LInv' /\ [L!Next]_(L!vars)
  <2>1. /\ UNCHANGED <<q, cooked>> /\ spc[t] = "prompt" /\ spc' = [spc EXCEPT ![t] = "wait"]
        /\ readbuf' = [readbuf EXCEPT ![t] = <<>>]
    BY <1>6 DEF ShellPrompt
  <2>2. spc' \in [Ttys -> {"prompt", "wait", "read"}]
    BY <1>0, <2>1
  <2>3. ASSUME NEW u \in Ttys PROVE Counted(u)'
    <3>1. spc[u] = "read" <=> spc'[u] = "read"
      BY <1>0, <2>1
    <3> QED
      BY <1>0, <2>1, <3>1 DEF Counted
  <2>4. L!Forget(t)
    BY <2>1 DEF L!Forget
  <2> QED
    BY <1>2, <2>2, <2>3, <2>4 DEF L!Next
<1>7. ASSUME NEW t \in Ttys, ShellWait(t)
      PROVE  LInv' /\ [L!Next]_(L!vars)
  <2>1. /\ UNCHANGED <<q, readbuf>> /\ spc[t] = "wait" /\ spc' = [spc EXCEPT ![t] = "read"]
        /\ cooked' = [cooked EXCEPT ![t] = @ - 1]
    BY <1>7 DEF ShellWait
  <2>2. spc' \in [Ttys -> {"prompt", "wait", "read"}]
    BY <1>0, <2>1
  <2>3. ASSUME NEW u \in Ttys PROVE Counted(u)'
    <3>0. Counted(u) /\ q' = q /\ cooked[u] \in Nat
      BY <1>0, <2>1
    <3>1. CASE u = t
      <4>1. spc'[u] = "read" /\ cooked'[u] = cooked[u] - 1 /\ spc[u] # "read"
        BY <1>0, <2>1, <3>1
      <4> QED
        BY <3>0, <4>1 DEF Counted
    <3>2. CASE u # t
      <4>1. spc'[u] = spc[u] /\ cooked'[u] = cooked[u]
        BY <1>0, <2>1, <3>2
      <4> QED
        BY <3>0, <4>1 DEF Counted
    <3> QED
      BY <3>1, <3>2
  <2> QED
    BY <1>2, <2>1, <2>2, <2>3, LinesFrame
<1>8. ASSUME NEW t \in Ttys, tty_read(t)
      PROVE  LInv' /\ [L!Next]_(L!vars)
  <2>1. spc' = [spc EXCEPT ![t] = "prompt"]
    BY <1>8 DEF tty_read
  <2>2. spc' \in [Ttys -> {"prompt", "wait", "read"}]
    BY <1>0, <2>1
  <2> QED
    BY <1>2, <1>8, <2>2, ReadStep
<1>9. CASE Halted \/ UNCHANGED vars
  BY <1>3, <1>9 DEF Halted, vars
<1> QED
  BY <1>4, <1>5, <1>6, <1>7, <1>8, <1>9 DEF Next

\* At boot every ring is empty and holds no line.
LEMMA EmptyRing ==
  ASSUME Init, NEW t \in Ttys
  PROVE  /\ FrontNul(q[t]) /\ Split(q[t]).lines = <<>> /\ Split(q[t]).edit = <<>>
<1> DEFINE r == q[t]
<1>1. /\ r \in Ring /\ r.front = 0 /\ r.rear = 0
      /\ r.buf = [i \in 0 .. BUF_SZ - 1 |-> NUL]
  BY ConsoleConstants DEF Init, tty_init, Ring, Chars
<1>2. Before(0) \in 0 .. BUF_SZ - 1
  <2>1. 0 \in 0 .. BUF_SZ - 1
    BY ConsoleConstants
  <2> QED
    BY <2>1, Slots
<1>3. FrontNul(r)
  BY <1>1, <1>2 DEF FrontNul
<1> HIDE DEF r
<1>4. Fill(r) = 0 /\ Content(r) \in Seq(Chars) /\ Len(Content(r)) = Fill(r)
  BY <1>1, ContentIs DEF Fill
<1> DEFINE c == Content(r)
<1>5. c = <<>> /\ Len(c) = 0
  BY <1>4
<1>6. \A p \in 1 .. Len(c) : FALSE
  BY <1>5
<1>7. Len(LinesOf(c)) = 0
  BY <1>4, <1>6, LineHasEnd
<1>8. LinesOf(c) \in Seq(Seq(Chars)) /\ EditOf(c) \in Seq(Chars)
  BY <1>4, LinesWitness
<1>9. LinesOf(c) = <<>>
  <2> DEFINE U == LinesOf(c)
             Q == Seq(Chars)
  <2>1. U \in Seq(Q) /\ Len(U) = 0
    BY <1>7, <1>8
  <2> HIDE DEF U, Q
  <2>2. U = <<>>
    BY <2>1
  <2> QED
    BY <2>2 DEF U
<1>10. EditOf(c) = <<>>
  <2>1. PICK n \in Nat : \E f : f[n] \in Nat /\ EditOf(c) = SubSeq(c, f[n] + 1, Len(c))
    <3>1. PICK n \in Nat : \E f : /\ \A k \in 0 .. n : f[k] \in 0 .. Len(c)
                                  /\ EditOf(c) = SubSeq(c, f[n] + 1, Len(c))
      BY <1>4, LinesWitness
    <3>2. PICK f : /\ \A k \in 0 .. n : f[k] \in 0 .. Len(c)
                   /\ EditOf(c) = SubSeq(c, f[n] + 1, Len(c))
      BY <3>1
    <3>3. f[n] \in Nat
      BY <1>5, <3>2
    <3> QED
      BY <3>2, <3>3
  <2>2. PICK f : f[n] \in Nat /\ EditOf(c) = SubSeq(c, f[n] + 1, Len(c))
    BY <2>1
  <2>3. f[n] + 1 \in Int /\ Len(c) \in Int /\ Len(c) < f[n] + 1
    BY <1>5, <2>2
  <2> QED
    BY <2>2, <2>3, SubSeqEmpty
<1>11. Split(r).lines = LinesOf(c) /\ Split(r).edit = EditOf(c)
  BY SplitIs
<1> QED
  BY <1>3, <1>9, <1>10, <1>11 DEF r

\* The invariant of the lines holds at boot.
LEMMA LinesInit ==
  ASSUME Init
  PROVE  LInv /\ L!Init
<1>1. NoNul
  BY ConsoleConstants DEF Init, input_init, NoNul, InUse
<1>2. CookedCountsLines
  <2> SUFFICES ASSUME NEW t \in Ttys
               PROVE  Len(Split(q[t]).lines) = cooked[t] + (IF spc[t] = "read" THEN 1 ELSE 0)
    BY DEF CookedCountsLines
  <2>1. Split(q[t]).lines = <<>>
    BY EmptyRing
  <2>2. cooked[t] = 0 /\ spc[t] = "prompt"
    BY DEF Init, tty_init
  <2> QED
    BY <2>1, <2>2
<1>3. LInv
  BY <1>1, <1>2, EmptyRing DEF LInv, Init
<1>4. L!Init
  BY EmptyRing DEF L!Init, Init
<1> QED
  BY <1>3, <1>4

\* "tty cooked lines" (tty.c:193): without Shift the semaphore, together with a
\* read that has passed it, counts the lines in the ring.
THEOREM LinesCounted ==
  ASSUME NoShift
  PROVE  Spec => []CookedCountsLines
<1>1. Init => LInv
  BY LinesInit
<1>2. CInv /\ LInv /\ [Next]_vars => LInv'
  BY LinesStep
<1>3. LInv => CookedCountsLines
  BY DEF LInv
<1> QED
  BY <1>1, <1>2, <1>3, ConsoleInvariance, PTL DEF Spec

\* Without Shift the rings implement Lines, for any sizes, that of a shell's
\* buffer included: each read takes the oldest completed line and returns it as
\* it was edited, as far as it fits (tty.c:12-32, 65-83, 197-216).
THEOREM RingsImplementLines ==
  ASSUME NoShift
  PROVE  Spec => LineDiscipline
<1>1. Init => LInv /\ L!Init
  BY LinesInit
<1>2. CInv /\ LInv /\ [Next]_vars => LInv' /\ [L!Next]_(L!vars)
  BY LinesStep
<1> QED
  BY <1>1, <1>2, ConsoleInvariance, PTL DEF Spec, LineDiscipline, L!Spec
=============================================================================
