-------------------------------- MODULE Kvdb --------------------------------
(***************************************************************************)
(* The key-value store os-workbench/libkvdb/kvdb.c: a table in memory, its *)
(* image .db, the copy .dbc taken when it is opened and the .log of the    *)
(* operations since, and the process, which may crash at any moment.       *)
(*                                                                         *)
(* Grain.  Creating, truncating, filling and removing a file are steps of  *)
(* their own.  put and get hold tlock from beginning to end, so only one   *)
(* is in progress: a step on the table, then the append to the log.  A     *)
(* record longer than a stdio buffer takes several writes, so a crash may  *)
(* leave its beginning; an image takes several, too, but a half-written    *)
(* image is read only where a truncated one does the same harm.  Every     *)
(* process starts with a zeroed kvdb_t and opens it once.  A text is told  *)
(* apart by itself and by the blocks it needs; the chaining of blocks is   *)
(* left out.  Keys and values hold no white space.  Definitions named      *)
(* Bug... are mutations of the one that follows.                           *)
(***************************************************************************)
EXTENDS Integers, Sequences, FiniteSets, FiniteSetsExt, SequencesExt

CONSTANTS
  Keys,        \* no more than ITEMS_SIZE
  Values,      \* the values put, longer than one character or empty
  Empty,       \* the empty value
  Texts,       \* texts nobody put, which a recovery may make of the log
  torn,        \* what the first writes of a value's record may be read back as
  blur,        \* a text with its record's "put", or without its last character
  need,        \* blocks of DATA_LENGTH a text needs
  DATAS_SIZE,  \* blocks in the table
  MaxLog,      \* bound: records in the log
  CrashLimit   \* bound: crashes

NoVal   == "(none)"      \* the key has no item
Garbled == "(garbled)"   \* the record of a get, taken for a value
NoKey   == "(no key)"
NoOp    == [op |-> "none"]

ASSUME KvdbConstants ==
  /\ Empty \in Values
  /\ need \in [Values \cup Texts \cup {NoVal} -> Nat]
  /\ need[Empty] = 0 /\ need[NoVal] = 0 /\ need[Garbled] = 1
  /\ torn \in [Values -> SUBSET Texts]
  /\ \A v \in Values : \A p \in torn[v] : need[p] <= need[v]
  /\ blur \in [Values \cup Texts -> Texts]
  /\ DATAS_SIZE \in Nat /\ MaxLog \in Nat /\ CrashLimit \in Nat
  /\ IsFiniteSet(Keys) /\ NoKey \notin Keys
  /\ NoVal \notin Values /\ NoVal \notin Texts
  /\ Garbled \in Texts /\ Values \cap Texts = {}

Table == [Keys -> Values \cup Texts \cup {NoVal}]
File  == {<<>>} \cup {<<t>> : t \in Table}    \* truncated, or an image
Line  == [op : {"put"}, key : Keys, val : Values \cup Texts]
           \cup [op : {"get"}, key : Keys]

VARIABLES
  exists,        \* which of the three files are there
  db, dbc, log,  \* their contents
  pc,            \* the process: "off", a step of a call, or "idle" between calls
  mem,           \* items and datas of the kvdb_t
  op,            \* the operation that is to be logged
  recovered,     \* this session began with a recovery that has reset the log
  ncrash,
  acked,         \* history: the table as the finished operations make it
  cut,           \* history: keys whose last put crashed within its record
  lost           \* history: what has happened that the files do not survive

files == <<exists, db, dbc, log>>
vars  == <<exists, db, dbc, log, pc, mem, op, recovered, ncrash, acked, cut,
          lost>>

Zero == [k \in Keys |-> NoVal]

Init ==
  /\ exists = {} /\ db = <<>> /\ dbc = <<>> /\ log = <<>>
  /\ pc = "off" /\ mem = Zero /\ op = NoOp
  /\ recovered = FALSE /\ ncrash = 0
  /\ acked = Zero /\ cut = {} /\ lost = {}

(***************************************************************************)
(* The table.  PutItem frees the key's item before it looks for blocks.    *)
(***************************************************************************)
kvdb_free(t, k) == [t EXCEPT ![k] = NoVal]

BugAllocIgnoresFull(t, v) == TRUE

kvdb_alloc(t, v) ==
  MapThenSumSet(LAMBDA k : need[t[k]], Keys) + need[v] <= DATAS_SIZE

PutItem(t, k, v) ==
  LET f == kvdb_free(t, k) IN
  IF kvdb_alloc(f, v) THEN [ok |-> TRUE,  t |-> [f EXCEPT ![k] = v]]
                      ELSE [ok |-> FALSE, t |-> f]

(***************************************************************************)
(* Redo.  "put k \n", the record of an empty value, makes fscanf skip the  *)
(* end of the line, and fgets takes the next record for the value.  At the *)
(* end of the log fgets leaves value[], which then loses a character.  The *)
(* beginning of a record is read like a whole one.  A put that finds no    *)
(* space calls exit.                                                       *)
(***************************************************************************)
RedoPut(r, k, v) ==
  LET p == PutItem(r.t, k, v) IN
  [r EXCEPT !.t = p.t, !.ok = p.ok, !.key = NoKey, !.buf = v]

RedoLine(r, line) ==
  CASE ~ r.ok                                  -> r
    [] r.ok /\ r.key # NoKey                   ->
         RedoPut(r, r.key, IF line.op = "put" THEN blur[line.val] ELSE Garbled)
    [] r.ok /\ r.key = NoKey /\ line.op = "get" ->
         [r EXCEPT !.t = kvdb_free(@, line.key)]
    [] r.ok /\ r.key = NoKey /\ line.op = "put" ->
         IF line.val = Empty THEN [r EXCEPT !.key = line.key]
                             ELSE RedoPut(r, line.key, line.val)

redo_operation(t, l) ==
  LET r == FoldLeft(RedoLine,
                    [t |-> t, ok |-> TRUE, key |-> NoKey, buf |-> Empty], l)
  IN IF r.key = NoKey THEN r
     ELSE RedoPut(r, r.key, IF r.buf = Empty THEN Empty ELSE blur[r.buf])

\* fread from a truncated file reads nothing, into a zeroed kvdb_t.
Image(f) == IF f = <<>> THEN Zero ELSE f[1]

(***************************************************************************)
(* kvdb_open.  The copy and the log decide whether to recover.             *)
(***************************************************************************)
MustRecover == {"dbc", "log"} \subseteq exists

Goto(phase) == pc' = phase /\ UNCHANGED <<op, ncrash, acked, cut>>

OpenRecover ==
  /\ pc = "off" /\ MustRecover
  /\ exists' = exists \cup {"db"} /\ db' = <<>>
  /\ Goto("redo") /\ UNCHANGED <<dbc, log, mem, recovered, lost>>

Redo ==
  /\ pc = "redo"
  /\ LET r == redo_operation(Image(dbc), log) IN
       \/ /\ r.ok
          /\ mem' = r.t /\ db' = <<r.t>>
          /\ Goto("reset")
       \/ /\ ~ r.ok
          /\ Goto("off") /\ UNCHANGED <<mem, db>>
  /\ UNCHANGED <<exists, dbc, log, recovered, lost>>

Reset ==
  /\ pc = "reset"
  /\ log' = <<>> /\ recovered' = TRUE
  /\ Goto("idle") /\ UNCHANGED <<exists, db, dbc, mem, lost>>

OpenExisting ==
  /\ pc = "off" /\ ~ MustRecover /\ "db" \in exists
  /\ exists' = exists \cup {"dbc"} /\ dbc' = <<>>
  /\ Goto("open_log") /\ UNCHANGED <<db, log, mem, recovered, lost>>

OpenLog ==
  /\ pc = "open_log"
  /\ exists' = exists \cup {"log"} /\ log' = <<>>
  /\ Goto("open_copy") /\ UNCHANGED <<db, dbc, mem, recovered, lost>>

OpenCopy ==
  /\ pc = "open_copy"
  /\ mem' = Image(db) /\ dbc' = <<Image(db)>>
  /\ Goto("idle") /\ UNCHANGED <<exists, db, log, recovered, lost>>

Create(from, to, file) ==
  /\ pc = from /\ exists' = exists \cup {file}
  /\ Goto(to) /\ UNCHANGED <<db, dbc, log, mem, recovered, lost>>

OpenCreate ==
  \/ ~ MustRecover /\ "db" \notin exists /\ Create("off", "create_dbc", "db")
  \/ Create("create_dbc", "create_log", "dbc")
  \/ Create("create_log", "create_fill", "log")
  \/ /\ pc = "create_fill" /\ db' = <<mem>>
     /\ Goto("create_copy")
     /\ UNCHANGED <<exists, dbc, log, mem, recovered, lost>>
  \/ /\ pc = "create_copy" /\ dbc' = <<mem>>
     /\ Goto("idle") /\ UNCHANGED <<exists, db, log, mem, recovered, lost>>

(***************************************************************************)
(* kvdb_put and kvdb_get (which takes the item out), up to the log, the    *)
(* first writes of a long record and the write that finishes the call.     *)
(***************************************************************************)
kvdb_put(k, v) ==
  /\ pc = "idle" /\ Len(log) < MaxLog
  /\ LET p == PutItem(mem, k, v) IN
       /\ mem' = p.t
       /\ \/ /\ p.ok
             /\ pc' = "append" /\ op' = [op |-> "put", key |-> k, val |-> v]
             /\ UNCHANGED lost
          \/ /\ ~ p.ok
             /\ lost' = lost \cup IF mem[k] = NoVal THEN {} ELSE {"failed put"}
             /\ UNCHANGED <<pc, op>>
  /\ UNCHANGED <<files, recovered, ncrash, acked, cut>>

kvdb_get(k) ==
  /\ pc = "idle" /\ Len(log) < MaxLog /\ mem[k] # NoVal
  /\ mem' = kvdb_free(mem, k)
  /\ pc' = "append" /\ op' = [op |-> "get", key |-> k]
  /\ UNCHANGED <<files, recovered, ncrash, acked, cut, lost>>

BugAppendOverwrites(l, line) == <<line>>

BugAppendNoValue(l, line) == Append(l, [op |-> line.op, key |-> line.key])

AppendLog(l, line) == Append(l, line)

AppendPart ==
  /\ pc = "append" /\ op.op = "put"
  /\ \E text \in torn[op.val] :
       log' = AppendLog(log, [op |-> "put", key |-> op.key, val |-> text])
  /\ pc' = "half"
  /\ UNCHANGED <<exists, db, dbc, mem, op, recovered, ncrash, acked, cut, lost>>

Whole(l) == IF pc = "half" THEN Front(l) ELSE l

Finish ==
  /\ pc \in {"append", "half"}
  /\ log' = AppendLog(Whole(log), op)
  /\ acked' = [acked EXCEPT ![op.key] = IF op.op = "put" THEN op.val ELSE NoVal]
  /\ cut' = cut \ {op.key}
  /\ pc' = "idle" /\ op' = NoOp
  /\ UNCHANGED <<exists, db, dbc, mem, recovered, ncrash, lost>>

(***************************************************************************)
(* kvdb_close.                                                             *)
(***************************************************************************)
Close ==
  /\ pc = "idle" /\ db' = <<>>
  /\ Goto("save") /\ UNCHANGED <<exists, dbc, log, mem, recovered, lost>>

Save ==
  /\ pc = "save" /\ db' = <<mem>>
  /\ Goto("unlink_dbc") /\ UNCHANGED <<exists, dbc, log, mem, recovered, lost>>

UnlinkDbc ==
  /\ pc = "unlink_dbc"
  /\ exists' = exists \ {"dbc"} /\ dbc' = <<>> /\ recovered' = FALSE
  /\ Goto("unlink_log") /\ UNCHANGED <<db, log, mem, lost>>

UnlinkLog ==
  /\ pc = "unlink_log"
  /\ exists' = exists \ {"log"} /\ log' = <<>> /\ mem' = Zero
  /\ Goto("off") /\ UNCHANGED <<db, dbc, recovered, lost>>

(***************************************************************************)
(* A crash loses the memory.  The files do not survive it while the copy   *)
(* of a reopened store is still to be written and there is a log (from     *)
(* OpenLog, or left by a crash between the two unlinks), in a session that *)
(* began with a recovery, and while the log holds an empty value.  A crash *)
(* within a record costs the value its key had, and nothing else.          *)
(***************************************************************************)
Fragile ==
  (IF pc \in {"open_log", "open_copy"} /\ MustRecover THEN {"open"} ELSE {})
    \cup (IF recovered THEN {"recovery"} ELSE {})
    \cup (IF \E i \in DOMAIN log : log[i].op = "put" /\ log[i].val = Empty
          THEN {"empty value"} ELSE {})

Cut == IF pc = "half" THEN cut \cup {op.key} ELSE cut

Crash ==
  /\ pc # "off" /\ ncrash < CrashLimit
  /\ pc' = "off" /\ mem' = Zero /\ op' = NoOp /\ recovered' = FALSE
  /\ ncrash' = ncrash + 1
  /\ lost' = lost \cup Fragile /\ cut' = Cut
  /\ UNCHANGED <<files, acked>>

Next ==
  \/ OpenRecover \/ Redo \/ Reset
  \/ OpenExisting \/ OpenLog \/ OpenCopy
  \/ OpenCreate
  \/ \E k \in Keys : kvdb_get(k) \/ \E v \in Values : kvdb_put(k, v)
  \/ AppendPart \/ Finish
  \/ Close \/ Save \/ UnlinkDbc \/ UnlinkLog
  \/ Crash

Spec == Init /\ [][Next]_vars
(***************************************************************************)
(* Properties.                                                             *)
(***************************************************************************)
\* Every variable has its type, and a file that is not there has no contents.
TypeOK ==
  /\ exists \subseteq {"db", "dbc", "log"}
  /\ db \in File /\ dbc \in File /\ log \in Seq(Line)
  /\ ("db" \notin exists => db = <<>>)
  /\ ("dbc" \notin exists => dbc = <<>>)
  /\ ("log" \notin exists => log = <<>>)
  /\ mem \in Table /\ acked \in Table /\ cut \subseteq Keys
  /\ op \in Line \cup {NoOp} /\ (op # NoOp <=> pc \in {"append", "half"})
  /\ (op # NoOp /\ op.op = "put" => op.val \in Values)
  /\ Len(log) <= MaxLog

\* What the next kvdb_open would make of the files.
Rebuilt ==
  IF MustRecover THEN redo_operation(Image(dbc), log)
  ELSE [t |-> Image(db), ok |-> TRUE, key |-> NoKey, buf |-> Empty]

\* Table t is table a, except for the keys c, which hold text nobody put.
Holds(t, a, c) ==
  \A k \in Keys : IF k \in c THEN t[k] \in Texts ELSE t[k] = a[k]

\* Crash safety (kvdb.c:212-259, 271-288, 310-316): at every step of open, put,
\* get and close, that of a recovery included, the files hold exactly the
\* finished operations, and a put that was cut short within its record costs
\* the value of its own key and of no other; unless the state is one of the
\* fragile ones, an earlier crash hit one, or a put that found no space lost an
\* old value.
CrashSafe ==
  lost \cup Fragile = {} => Rebuilt.ok /\ Holds(Rebuilt.t, acked, Cut)

\* An open store holds what the finished operations made of it, over any number
\* of sessions, clean closes and crashes, except where a put was cut short and
\* the key has not been put or taken since; and a table never takes more blocks
\* than there are (kvdb.c:75-99).
TableIsAcked ==
  /\ pc = "idle" /\ lost = {} => Holds(mem, acked, cut)
  /\ MapThenSumSet(LAMBDA k : need[mem[k]], Keys) <= DATAS_SIZE

\* "all finished operations will leave a record at *.log" and a crash is followed
\* by "redo all operations" (guide.txt:5, 13): an open store lacks no finished
\* operation although a session that recovered has crashed, too (kvdb.c:228).
AllRedone ==
  pc = "idle" /\ lost \subseteq {"recovery"} =>
    \A k \in Keys \ cut : mem[k] = acked[k]
=============================================================================
