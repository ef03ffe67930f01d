----------------------------- MODULE KvdbProofs -----------------------------
(***************************************************************************)
(* The store survives a crash at any step, for any keys, values, sizes and *)
(* number of crashes.  What the log makes of the copy (Replays) is a fold, *)
(* followed one record at a time; the files are tied to the finished       *)
(* operations phase by phase (FilesInv), the phases to the files that      *)
(* exist (PhaseInv).  A record of which only the first writes were made    *)
(* costs its own key (PartSound).                                          *)
(***************************************************************************)
EXTENDS Kvdb, Lemmas

\* The recovery folds RedoLine.
RedoOn(p, r, line) == RedoLine(r, line)
F == INSTANCE Lemmas WITH apply <- RedoOn

\* The blocks the items of a table take.
Blocks(t) == MapThenSumSet(LAMBDA k : need[t[k]], Keys)

\* The tables that fit.
Fitting == {t \in Table : Blocks(t) <= DATAS_SIZE}

\* A recovery before its first record, and the states of one.
Start(t) == [t |-> t, ok |-> TRUE, key |-> NoKey, buf |-> Empty]
Redoing == [t : Fitting, ok : BOOLEAN, key : Keys \cup {NoKey},
            buf : Values \cup Texts]

\* What the records l make of table t.
Log(t, l) == FoldLeft(RedoLine, Start(t), l)

\* The records l take table t to table u, and none of them is misread.
Replays(t, l, u) ==
  Log(t, l).ok /\ Log(t, l).key = NoKey /\ Log(t, l).t = u

\* A table after an operation.
After(t, o) == [t EXCEPT ![o.key] = IF o.op = "put" THEN o.val ELSE NoVal]

\* The records l, none of them misread, make of table t what a holds, but for
\* the keys c.
Sound(t, l, a, c) ==
  Log(t, l).ok /\ Log(t, l).key = NoKey /\ Holds(Log(t, l).t, a, c)

\* The same, and operation o has made m of that table.
Logged(t, l, o, m, a, c) ==
  /\ Sound(t, l, a, c)
  /\ m = After(Log(t, l).t, o)
  /\ o.op = "put" => PutItem(Log(t, l).t, o.key, o.val).ok

\* The record of o as far as it is written, which reads as p.
Part(o, p) == [op |-> "put", key |-> o.key, val |-> p]

NoEmptyPut(l) == \A i \in DOMAIN l : ~ (l[i].op = "put" /\ l[i].val = Empty)

(***************************************************************************)
(* The inductive invariant.                                                *)
(***************************************************************************)
Creating == {"create_dbc", "create_log", "create_fill", "create_copy"}
Opening  == {"open_log", "open_copy"}
Open     == {"idle", "append", "half", "save", "unlink_dbc"}
Phases   == {"off", "redo", "reset", "unlink_log"} \cup Creating \cup Opening \cup Open

\* Which files there are in which phase, and what holds of the memory in it.
PhaseInv ==
  /\ pc \in Phases /\ recovered \in BOOLEAN
  /\ exists = {} \/ "db" \in exists
  /\ pc \in {"redo", "reset", "create_fill", "create_copy", "open_copy"} \cup Open =>
       exists = {"db", "dbc", "log"}
  /\ pc = "create_dbc" => exists = {"db"}
  /\ pc = "create_log" => exists = {"db", "dbc"}
  /\ pc = "open_log" => "db" \in exists /\ "dbc" \in exists
  /\ pc = "unlink_log" => exists = {"db", "log"}
  /\ pc \in Creating => log = <<>> /\ dbc = <<>>
  /\ pc = "open_copy" => log = <<>>
  /\ pc \in {"off", "redo"} \cup Opening \cup Creating => mem = Zero
  /\ recovered => pc \in Open
  /\ pc = "append" => Len(log) < MaxLog
  /\ pc = "half" =>
       /\ op.op = "put"
       /\ \E l \in Seq(Line), p \in torn[op.val] : log = Append(l, Part(op, p))

\* No image holds more than fits.
FitInv == mem \in Fitting /\ Image(db) \in Fitting /\ Image(dbc) \in Fitting

\* What the memory and the files are to the finished operations, as long as
\* nothing has happened that the files do not survive.
FilesInv ==
  /\ pc \in {"off", "redo", "reset"} \cup Opening \cup Creating => NoEmptyPut(log)
  /\ pc \in {"off", "redo", "reset"} /\ MustRecover =>
       Sound(Image(dbc), log, acked, cut)
  /\ pc \in {"idle", "save", "unlink_dbc"} /\ ~ recovered /\ NoEmptyPut(log) =>
       Replays(Image(dbc), log, mem)
  /\ pc = "append" /\ ~ recovered /\ NoEmptyPut(log) =>
       Logged(Image(dbc), log, op, mem, acked, cut)
  /\ pc = "half" /\ ~ recovered /\ NoEmptyPut(log) =>
       Logged(Image(dbc), Front(log), op, mem, acked, cut)
  /\ pc = "off" /\ ~ MustRecover => Holds(Image(db), acked, cut)
  /\ pc \in Opening \cup {"create_dbc", "create_log", "unlink_dbc", "unlink_log"} =>
       Holds(Image(db), acked, cut)
  /\ pc \in Creating => Holds(Zero, acked, cut)
  /\ pc \in {"reset", "idle", "save", "unlink_dbc"} => Holds(mem, acked, cut)
  /\ pc \in {"append", "half"} => Holds(mem, After(acked, op), cut \ {op.key})

KInv == TypeOK /\ PhaseInv /\ FitInv /\ (lost = {} => FilesInv)
(***************************************************************************)
(* The table.                                                              *)
(***************************************************************************)
\* The blocks of a table are the sum over its keys.
LEMMA BlocksAreSum ==
  ASSUME NEW t
  PROVE  Blocks(t) = SumOver([k \in Keys |-> need[t[k]]], Keys)
<1> DEFINE f == [k \in Keys |-> need[t[k]]]
           Is(g) == g = [s \in SUBSET Keys |->
                           IF s = {} THEN 0
                           ELSE need[t[CHOOSE x \in s : TRUE]]
                                  + g[s \ {CHOOSE x \in s : TRUE}]]
           G == CHOOSE g : Is(g)
<1>1. ASSUME NEW g PROVE Is(g) <=> IsSum(g, f, Keys)
  <2>1. ASSUME NEW s \in SUBSET Keys, s # {} PROVE f[Pick(s)] = need[t[Pick(s)]]
    <3>1. Pick(s) \in Keys
      BY <2>1 DEF Pick
    <3> QED
      BY <3>1
  <2> HIDE DEF f
  <2>2. \A s \in SUBSET Keys :
          (IF s = {} THEN 0 ELSE f[Pick(s)] + g[s \ {Pick(s)}])
            = (IF s = {} THEN 0 ELSE need[t[Pick(s)]] + g[s \ {Pick(s)}])
    BY <2>1
  <2>3. [s \in SUBSET Keys |-> IF s = {} THEN 0 ELSE f[Pick(s)] + g[s \ {Pick(s)}]]
          = [s \in SUBSET Keys |-> IF s = {} THEN 0
                                   ELSE need[t[Pick(s)]] + g[s \ {Pick(s)}]]
    BY <2>2
  <2> QED
    BY <2>3 DEF IsSum, Pick
<1>2. IsFiniteSet(Keys)
  BY KvdbConstants
<1>3. Blocks(t) = G[Keys]
  BY DEF Blocks, MapThenSumSet, MapThenFoldSet
<1>4. Is(G)
  <2>1. \E g : Is(g)
    <3> HIDE DEF Is, f
    <3> QED
      BY <1>1, <1>2, SumExists
  <2> QED
    BY <2>1
<1> HIDE DEF Is, f, G
<1>5. IsSum(G, f, Keys)
  BY <1>1, <1>4
<1>6. SumOver(f, Keys) = G[Keys]
  BY <1>2, <1>5, SumIs
<1> QED
  BY <1>3, <1>6 DEF f
\* What an item of value v needs instead of the old one is what the table takes
\* more.
LEMMA BlocksUpdate ==
  ASSUME NEW t \in Table, NEW k \in Keys, NEW v \in Values \cup Texts \cup {NoVal}
  PROVE  /\ Blocks(t) \in Nat
         /\ Blocks([t EXCEPT ![k] = v]) = Blocks(t) + need[v] - need[t[k]]
<1> DEFINE u == [t EXCEPT ![k] = v]
           f == [j \in Keys |-> need[t[j]]]
           g == [j \in Keys |-> need[u[j]]]
           R == Keys \ {k}
<1>0. IsFiniteSet(Keys) /\ need \in [Values \cup Texts \cup {NoVal} -> Nat]
  BY KvdbConstants
<1>1. /\ \A j \in Keys : f[j] \in Nat /\ g[j] \in Nat
      /\ \A j \in R : f[j] = g[j]
      /\ f[k] = need[t[k]] /\ g[k] = need[v]
  BY <1>0 DEF Table
<1>2. Blocks(t) = SumOver(f, Keys) /\ Blocks(u) = SumOver(g, Keys)
  BY BlocksAreSum
<1>3. IsFiniteSet(R)
  BY <1>0, FS_Subset
<1> HIDE DEF u, f, g
<1>4. \A j \in Keys : f[j] \in Int /\ g[j] \in Int
  BY <1>1
<1>5. SumOver(f, Keys) \in Nat /\ SumOver(g, Keys) \in Nat
  BY <1>0, <1>1, SumNat
<1>6. SumOver(f, Keys) = f[k] + SumOver(f, R) /\ SumOver(f, R) \in Int
  BY <1>0, <1>4, SumRemove
<1>7. SumOver(g, Keys) = g[k] + SumOver(g, R)
  BY <1>0, <1>4, SumRemove
<1> HIDE DEF R
<1>8. SumOver(f, R) = SumOver(g, R)
  BY <1>1, <1>3, SumSame
<1>9. f[k] \in Nat /\ g[k] \in Nat
  BY <1>1
<1>10. Blocks(u) = Blocks(t) + need[v] - need[t[k]] /\ Blocks(t) \in Nat
  BY <1>1, <1>2, <1>5, <1>6, <1>7, <1>8, <1>9
<1> QED
  BY <1>10 DEF u

\* Freeing an item leaves a table that fits.
LEMMA FreeFits ==
  ASSUME NEW t \in Fitting, NEW k \in Keys
  PROVE  kvdb_free(t, k) \in Fitting
<1>1. t \in Table /\ t[k] \in Values \cup Texts \cup {NoVal}
  BY DEF Fitting, Table
<1>2. [t EXCEPT ![k] = NoVal] \in Table
  BY <1>1 DEF Table
<1>3. need[NoVal] = 0 /\ need[t[k]] \in Nat /\ DATAS_SIZE \in Nat
  BY <1>1, KvdbConstants
<1>4. /\ Blocks(t) \in Nat
      /\ Blocks([t EXCEPT ![k] = NoVal]) = Blocks(t) + need[NoVal] - need[t[k]]
  BY <1>1, BlocksUpdate
<1>5. Blocks(t) <= DATAS_SIZE
  BY DEF Fitting
<1>6. Blocks([t EXCEPT ![k] = NoVal]) <= DATAS_SIZE
  BY <1>3, <1>4, <1>5
<1> QED
  BY <1>2, <1>6 DEF Fitting, kvdb_free

\* A put frees the item, and stores the value if the blocks suffice.
LEMMA PutFits ==
  ASSUME NEW t \in Fitting, NEW k \in Keys, NEW v \in Values \cup Texts
  PROVE  /\ PutItem(t, k, v).t \in Fitting /\ PutItem(t, k, v).ok \in BOOLEAN
         /\ PutItem(t, k, v).ok => PutItem(t, k, v).t = [t EXCEPT ![k] = v]
         /\ ~ PutItem(t, k, v).ok => PutItem(t, k, v).t = kvdb_free(t, k)
<1> DEFINE f == kvdb_free(t, k)
           u == [f EXCEPT ![k] = v]
<1>1. f \in Fitting
  BY FreeFits
<1>2. f \in Table /\ u \in Table /\ f[k] = NoVal /\ u = [t EXCEPT ![k] = v]
  BY <1>1 DEF Fitting, Table, kvdb_free
<1>3. need[NoVal] = 0 /\ need[v] \in Nat /\ DATAS_SIZE \in Nat
  BY KvdbConstants
<1>4. Blocks(f) \in Nat /\ Blocks(u) = Blocks(f) + need[v] - need[f[k]]
  <2> HIDE DEF f
  <2> QED
    BY <1>2, BlocksUpdate
<1>5. kvdb_alloc(f, v) <=> Blocks(f) + need[v] <= DATAS_SIZE
  BY DEF kvdb_alloc, Blocks
<1> HIDE DEF f, u
<1>6. CASE kvdb_alloc(f, v)
  <2>1. Blocks(u) <= DATAS_SIZE
    BY <1>2, <1>3, <1>4, <1>5, <1>6
  <2>2. PutItem(t, k, v) = [ok |-> TRUE, t |-> u]
    BY <1>6 DEF PutItem, f, u
  <2> QED
    BY <1>2, <2>1, <2>2 DEF Fitting
<1>7. CASE ~ kvdb_alloc(f, v)
  <2>1. PutItem(t, k, v) = [ok |-> FALSE, t |-> f]
    BY <1>7 DEF PutItem, f
  <2> QED
    BY <1>1, <2>1 DEF f
<1> QED
  BY <1>6, <1>7
(***************************************************************************)
(* Redo.                                                                   *)
(***************************************************************************)
\* Storing a value during a recovery leaves a state of a recovery.
LEMMA RedoPutType ==
  ASSUME NEW r \in Redoing, NEW k \in Keys, NEW v \in Values \cup Texts
  PROVE  RedoPut(r, k, v) \in Redoing
<1> DEFINE p == PutItem(r.t, k, v)
<1>1. r.t \in Fitting
  BY DEF Redoing
<1>2. p.t \in Fitting /\ p.ok \in BOOLEAN
  BY <1>1, PutFits
<1> HIDE DEF p
<1>3. RedoPut(r, k, v) = [r EXCEPT !.t = p.t, !.ok = p.ok, !.key = NoKey, !.buf = v]
  BY DEF RedoPut, p
<1> QED
  BY <1>2, <1>3 DEF Redoing

\* So does every record.
LEMMA RedoLineType ==
  ASSUME NEW r \in Redoing, NEW line \in Line
  PROVE  RedoLine(r, line) \in Redoing
<1>0. r.ok \in BOOLEAN /\ r.key \in Keys \cup {NoKey} /\ r.t \in Fitting
  BY DEF Redoing
<1>1. CASE ~ r.ok
  BY <1>1 DEF RedoLine
<1>2. CASE r.ok /\ r.key # NoKey
  <2> DEFINE v == IF line.op = "put" THEN blur[line.val] ELSE Garbled
  <2>1. RedoLine(r, line) = RedoPut(r, r.key, v)
    BY <1>2 DEF RedoLine
  <2>2. r.key \in Keys /\ v \in Values \cup Texts
    BY <1>0, <1>2, KvdbConstants DEF Line
  <2> HIDE DEF v
  <2> QED
    BY <2>1, <2>2, RedoPutType
<1>3. CASE r.ok /\ r.key = NoKey /\ line.op = "get"
  <2>1. RedoLine(r, line) = [r EXCEPT !.t = kvdb_free(@, line.key)]
    BY <1>3 DEF RedoLine
  <2>2. line.key \in Keys
    BY DEF Line
  <2>3. kvdb_free(r.t, line.key) \in Fitting
    BY <1>0, <2>2, FreeFits
  <2> QED
    BY <2>1, <2>3 DEF Redoing
<1>4. CASE r.ok /\ r.key = NoKey /\ line.op = "put"
  <2>1. RedoLine(r, line) = IF line.val = Empty THEN [r EXCEPT !.key = line.key]
                            ELSE RedoPut(r, line.key, line.val)
    BY <1>4 DEF RedoLine
  <2>2. line.key \in Keys /\ line.val \in Values \cup Texts
    BY <1>4 DEF Line
  <2>3. [r EXCEPT !.key = line.key] \in Redoing
    BY <2>2 DEF Redoing
  <2>4. RedoPut(r, line.key, line.val) \in Redoing
    BY <2>2, RedoPutType
  <2> QED
    BY <2>1, <2>3, <2>4
<1>5. line.op \in {"put", "get"}
  BY DEF Line
<1> QED
  BY <1>0, <1>1, <1>2, <1>3, <1>4, <1>5

\* The log is such a fold.
LEMMA LogIsFold ==
  ASSUME NEW t, NEW l
  PROVE  Log(t, l) = F!Fold(0, Start(t), l)
BY DEF Log, RedoOn, FoldLeft, MapThenFoldSet, Max,
       F!Fold, F!FoldLeft, F!MapThenFoldSet, F!Max

\* A recovery from a table that fits ends with one that fits.
LEMMA RedoType ==
  ASSUME NEW t \in Fitting, NEW l \in Seq(Line)
  PROVE  /\ Log(t, l) \in Redoing
         /\ redo_operation(t, l) \in Redoing
<1> DEFINE r == Log(t, l)
<1>0. Empty \in Values
  BY KvdbConstants
<1>1. Start(t) \in Redoing
  BY <1>0 DEF Start, Redoing
<1>2. \A y \in Redoing, e \in Line : RedoLine(y, e) \in Redoing
  BY RedoLineType
<1>3. r \in Redoing
  <2>1. F!Fold(0, Start(t), l) \in Redoing
    BY <1>1, <1>2, F!FoldType DEF RedoOn
  <2> QED
    BY <2>1, LogIsFold
<1>4. redo_operation(t, l) =
        IF r.key = NoKey THEN r
        ELSE RedoPut(r, r.key, IF r.buf = Empty THEN Empty ELSE blur[r.buf])
  BY DEF redo_operation, Log, Start
<1> HIDE DEF r
<1>5. r.key \in Keys \cup {NoKey}
  BY <1>3 DEF Redoing
<1>6. ASSUME r.key # NoKey
      PROVE  RedoPut(r, r.key, IF r.buf = Empty THEN Empty ELSE blur[r.buf]) \in Redoing
  <2>1. r.key \in Keys
    BY <1>5, <1>6
  <2>2. (IF r.buf = Empty THEN Empty ELSE blur[r.buf]) \in Values \cup Texts
    BY <1>0, <1>3, KvdbConstants DEF Redoing
  <2> QED
    BY <1>3, <2>1, <2>2, RedoPutType
<1>7. redo_operation(t, l) \in Redoing
  BY <1>3, <1>4, <1>6
<1> QED
  BY <1>3, <1>7 DEF r

\* A log that replays is what redo_operation makes of it.
LEMMA ReplaysRedo ==
  ASSUME NEW t, NEW l, NEW u, Replays(t, l, u)
  PROVE  redo_operation(t, l).ok /\ redo_operation(t, l).t = u
<1> DEFINE r == Log(t, l)
<1>1. r.ok /\ r.key = NoKey /\ r.t = u
  BY DEF Replays
<1>2. redo_operation(t, l) =
        IF r.key = NoKey THEN r
        ELSE RedoPut(r, r.key, IF r.buf = Empty THEN Empty ELSE blur[r.buf])
  BY DEF redo_operation, Log, Start
<1> HIDE DEF r
<1> QED
  BY <1>1, <1>2

\* An empty log leaves the table.
LEMMA ReplaysNothing == ASSUME NEW t PROVE Replays(t, <<>>, t)
<1>1. Log(t, <<>>) = Start(t)
  BY LogIsFold, F!FoldEmpty
<1> QED
  BY <1>1 DEF Replays, Start

\* One record more is one operation more.
LEMMA ReplaysAppend ==
  ASSUME NEW t \in Fitting, NEW l \in Seq(Line), NEW u, Replays(t, l, u),
         NEW line \in Line, ~ (line.op = "put" /\ line.val = Empty),
         line.op = "put" => PutItem(u, line.key, line.val).ok
  PROVE  Replays(t, Append(l, line), After(u, line))
<1> DEFINE r == Log(t, l)
<1>1. Log(t, Append(l, line)) = RedoLine(r, line)
  BY LogIsFold, F!FoldAppend DEF RedoOn
<1>2. r.ok /\ r.key = NoKey /\ r.t = u
  BY DEF Replays
<1>3. r \in Redoing
  BY RedoType
<1> HIDE DEF r
<1>4. u \in Fitting
  BY <1>2, <1>3 DEF Redoing
<1>5. line.key \in Keys /\ line.op \in {"put", "get"}
  BY DEF Line
<1> DEFINE w == RedoLine(r, line)
<1>6. CASE line.op = "put"
  <2>1. line.val \in Values \cup Texts /\ line.val # Empty
    BY <1>6 DEF Line
  <2>2. w = RedoPut(r, line.key, line.val)
    BY <1>2, <1>6, <2>1 DEF RedoLine
  <2> DEFINE p == PutItem(u, line.key, line.val)
  <2>3. p.ok /\ p.t = [u EXCEPT ![line.key] = line.val]
    BY <1>4, <1>5, <1>6, <2>1, PutFits
  <2>4. w = [r EXCEPT !.t = p.t, !.ok = p.ok, !.key = NoKey, !.buf = line.val]
    BY <1>2, <2>2 DEF RedoPut
  <2> HIDE DEF p, w
  <2>5. w.ok /\ w.key = NoKey /\ w.t = p.t
    BY <1>3, <2>3, <2>4 DEF Redoing
  <2>6. After(u, line) = [u EXCEPT ![line.key] = line.val]
    BY <1>6 DEF After
  <2> QED
    BY <1>1, <2>3, <2>5, <2>6 DEF Replays, w
<1>7. CASE line.op = "get"
  <2>1. w = [r EXCEPT !.t = kvdb_free(@, line.key)]
    BY <1>2, <1>7 DEF RedoLine
  <2> HIDE DEF w
  <2>2. w.ok /\ w.key = NoKey /\ w.t = [u EXCEPT ![line.key] = NoVal]
    BY <1>2, <1>3, <2>1 DEF Redoing, kvdb_free
  <2>3. After(u, line) = [u EXCEPT ![line.key] = NoVal]
    BY <1>7 DEF After
  <2> QED
    BY <1>1, <2>2, <2>3 DEF Replays, w
<1> QED
  BY <1>5, <1>6, <1>7

\* A log that is sound replays to a table that holds what it should.
LEMMA SoundReplays ==
  ASSUME NEW t, NEW l, NEW a, NEW c
  PROVE  /\ Sound(t, l, a, c) <=>
              Replays(t, l, Log(t, l).t) /\ Holds(Log(t, l).t, a, c)
         /\ \A u : Replays(t, l, u) /\ Holds(u, a, c) => Sound(t, l, a, c)
BY DEF Sound, Replays

\* What recovery makes of a sound log.
LEMMA SoundRedo ==
  ASSUME NEW t, NEW l, NEW a, NEW c, Sound(t, l, a, c)
  PROVE  redo_operation(t, l).ok /\ Holds(redo_operation(t, l).t, a, c)
<1>1. Replays(t, l, Log(t, l).t) /\ Holds(Log(t, l).t, a, c)
  BY SoundReplays
<1>2. redo_operation(t, l).ok /\ redo_operation(t, l).t = Log(t, l).t
  BY <1>1, ReplaysRedo
<1> QED
  BY <1>1, <1>2

\* An operation makes the key current.
LEMMA HoldsAfter ==
  ASSUME NEW t \in Table, NEW a \in Table, NEW c, NEW o \in Line, Holds(t, a, c)
  PROVE  Holds(After(t, o), After(a, o), c \ {o.key})
<1> DEFINE v == IF o.op = "put" THEN o.val ELSE NoVal
<1>1. /\ After(t, o) = [t EXCEPT ![o.key] = v] /\ After(a, o) = [a EXCEPT ![o.key] = v]
      /\ o.key \in Keys
  BY DEF After, Line
<1> HIDE DEF v
<1> QED
  BY <1>1 DEF Holds, Table

\* A put cut short costs the key its value, and no other key.
LEMMA PartCuts ==
  ASSUME NEW t \in Table, NEW a, NEW c, NEW k \in Keys, NEW p \in Texts,
         Holds(t, a, c)
  PROVE  Holds([t EXCEPT ![k] = p], a, c \cup {k})
BY DEF Holds, Table

\* Text that needs no more blocks finds them, too.
LEMMA PutLess ==
  ASSUME NEW t \in Fitting, NEW k \in Keys, NEW v \in Values, NEW p \in torn[v],
         PutItem(t, k, v).ok
  PROVE  p \in Texts /\ PutItem(t, k, p).ok
<1> DEFINE f == kvdb_free(t, k)
           b == MapThenSumSet(LAMBDA j : need[f[j]], Keys)
<1>1. p \in Texts /\ need[p] <= need[v] /\ need[p] \in Nat /\ need[v] \in Nat
  BY KvdbConstants
<1>2. f \in Table
  BY FreeFits DEF Fitting
<1>3. b = Blocks(f)
  BY DEF Blocks
<1>4. Blocks(f) \in Nat
  <2>1. NoVal \in Values \cup Texts \cup {NoVal}
    OBVIOUS
  <2> HIDE DEF f
  <2> QED
    BY <1>2, <2>1, BlocksUpdate
<1>5. kvdb_alloc(f, v) <=> b + need[v] <= DATAS_SIZE
  BY DEF kvdb_alloc
<1>6. kvdb_alloc(f, p) <=> b + need[p] <= DATAS_SIZE
  BY DEF kvdb_alloc
<1> HIDE DEF b
<1>7. kvdb_alloc(f, v)
  BY DEF PutItem
<1>8. DATAS_SIZE \in Nat
  BY KvdbConstants
<1>9. kvdb_alloc(f, p)
  BY <1>1, <1>3, <1>4, <1>5, <1>6, <1>7, <1>8
<1> QED
  BY <1>1, <1>9 DEF PutItem

\* A log that ends with the part of a record is sound but for the key.
LEMMA PartSound ==
  ASSUME NEW t \in Fitting, NEW l \in Seq(Line), NEW o \in Line,
         o.op = "put", o.val \in Values, NEW p \in torn[o.val],
         NEW m, NEW a, NEW c, Logged(t, l, o, m, a, c)
  PROVE  Sound(t, Append(l, Part(o, p)), a, c \cup {o.key})
<1> DEFINE u == Log(t, l).t
           x == Part(o, p)
<1>1. Sound(t, l, a, c) /\ PutItem(u, o.key, o.val).ok
  BY DEF Logged
<1>2. Replays(t, l, u) /\ Holds(u, a, c)
  BY <1>1, SoundReplays
<1>3. u \in Fitting
  BY RedoType DEF Redoing
<1>4. o.key \in Keys
  BY DEF Line
<1> HIDE DEF u
<1>5. p \in Texts /\ PutItem(u, o.key, p).ok
  BY <1>1, <1>3, <1>4, PutLess
<1>6. p # Empty
  BY <1>5, KvdbConstants
<1>7. x \in Line /\ x.op = "put" /\ x.key = o.key /\ x.val = p
  BY <1>4, <1>5 DEF Part, Line
<1> HIDE DEF x
<1>8. Replays(t, Append(l, x), After(u, x))
  BY <1>2, <1>5, <1>6, <1>7, ReplaysAppend
<1>9. After(u, x) = [u EXCEPT ![o.key] = p]
  BY <1>7 DEF After
<1>10. u \in Table
  BY <1>3 DEF Fitting
<1>11. Holds(After(u, x), a, c \cup {o.key})
  <2>1. Holds([u EXCEPT ![o.key] = p], a, c \cup {o.key})
    BY <1>2, <1>4, <1>5, <1>10, PartCuts
  <2> QED
    BY <1>9, <2>1
<1> QED
  BY <1>8, <1>11, SoundReplays DEF x
(***************************************************************************)
(* Facts about the values of the variables.                                *)
(***************************************************************************)
\* The table of a new process is empty and fits.
LEMMA ZeroFits == Zero \in Fitting
<1>1. Zero \in Table
  BY DEF Zero, Table
<1> DEFINE f == [k \in Keys |-> need[Zero[k]]]
<1>2. \A k \in Keys : f[k] = 0
  BY KvdbConstants DEF Zero
<1>3. Blocks(Zero) = SumOver(f, Keys)
  BY BlocksAreSum
<1>4. IsFiniteSet(Keys) /\ DATAS_SIZE \in Nat
  BY KvdbConstants
<1> HIDE DEF f
<1>5. SumOver(f, Keys) = 0
  BY <1>2, <1>4, SumZero
<1> QED
  BY <1>1, <1>3, <1>4, <1>5 DEF Fitting

\* The images that are written and read.
LEMMA Images ==
  /\ <<>> \in File /\ Image(<<>>) = Zero
  /\ \A t \in Fitting : t \in Table /\ <<t>> \in File /\ Image(<<t>>) = t
BY DEF File, Image, Fitting

\* An operation is told from none.
LEMMA Operations ==
  /\ \A x \in Line : x # NoOp /\ x.key \in Keys
  /\ \A k \in Keys : [op |-> "get", key |-> k] \in Line
  /\ \A k \in Keys, v \in Values \cup Texts :
       [op |-> "put", key |-> k, val |-> v] \in Line
BY DEF Line, NoOp

\* Logs.
LEMMA Logs ==
  /\ <<>> \in Seq(Line) /\ Len(<<>>) <= MaxLog /\ NoEmptyPut(<<>>)
  /\ \A l \in Seq(Line), x \in Line :
       /\ Append(l, x) \in Seq(Line) /\ Len(Append(l, x)) = Len(l) + 1
       /\ NoEmptyPut(Append(l, x)) <=>
            NoEmptyPut(l) /\ ~ (x.op = "put" /\ x.val = Empty)
<1>1. <<>> \in Seq(Line) /\ Len(<<>>) <= MaxLog /\ NoEmptyPut(<<>>)
  BY KvdbConstants DEF NoEmptyPut
<1>2. ASSUME NEW l \in Seq(Line), NEW x \in Line
      PROVE  /\ Append(l, x) \in Seq(Line) /\ Len(Append(l, x)) = Len(l) + 1
             /\ NoEmptyPut(Append(l, x)) <=>
                  NoEmptyPut(l) /\ ~ (x.op = "put" /\ x.val = Empty)
  <2> DEFINE n == Len(l)
             m == Append(l, x)
  <2>1. /\ n \in Nat /\ m \in Seq(Line) /\ Len(m) = n + 1 /\ DOMAIN l = 1 .. n
        /\ DOMAIN m = 1 .. n + 1 /\ m[n + 1] = x /\ \A i \in 1 .. n : m[i] = l[i]
    OBVIOUS
  <2> HIDE DEF m, n
  <2>2. \A i \in 1 .. n + 1 : i \in 1 .. n \/ i = n + 1
    BY <2>1
  <2>3. n + 1 \in 1 .. n + 1 /\ \A i \in 1 .. n : i \in 1 .. n + 1
    BY <2>1
  <2>4. NoEmptyPut(m) <=> NoEmptyPut(l) /\ ~ (x.op = "put" /\ x.val = Empty)
    BY <2>1, <2>2, <2>3, Zenon DEF NoEmptyPut
  <2> QED
    BY <2>1, <2>4 DEF m, n
<1> QED
  BY <1>1, <1>2
(***************************************************************************)
(* Every step keeps the invariant.                                         *)
(***************************************************************************)
USE DEF Phases, Creating, Opening, Open, MustRecover


\* Starting a recovery truncates the image and nothing else.
LEMMA OpenRecoverKeeps == KInv /\ OpenRecover => KInv'
<1> SUFFICES ASSUME KInv, OpenRecover PROVE KInv'
  OBVIOUS
<1> USE DEF OpenRecover, Goto
<1>1. TypeOK'
  BY Images, ZeroFits, Logs DEF KInv, TypeOK, PhaseInv, FitInv
<1>2. PhaseInv'
  BY DEF KInv, TypeOK, PhaseInv
<1>3. FitInv'
  BY Images, ZeroFits DEF KInv, FitInv
<1>4. lost' = {} => FilesInv'
  BY Images, ZeroFits, Logs, ReplaysNothing, SoundReplays
     DEF KInv, PhaseInv, FitInv, FilesInv
<1> QED
  BY <1>1, <1>2, <1>3, <1>4 DEF KInv

\* Once the recovery has reset the log, only the memory and the image are kept.
LEMMA ResetKeeps == KInv /\ Reset => KInv'
<1> SUFFICES ASSUME KInv, Reset PROVE KInv'
  OBVIOUS
<1> USE DEF Reset, Goto
<1>1. TypeOK'
  BY Images, ZeroFits, Logs DEF KInv, TypeOK, PhaseInv, FitInv
<1>2. PhaseInv'
  BY DEF KInv, TypeOK, PhaseInv
<1>3. FitInv'
  BY Images, ZeroFits DEF KInv, FitInv
<1>4. lost' = {} => FilesInv'
  BY Images, ZeroFits, Logs, ReplaysNothing, SoundReplays
     DEF KInv, PhaseInv, FitInv, FilesInv
<1> QED
  BY <1>1, <1>2, <1>3, <1>4 DEF KInv

\* Opening truncates the copy while the image holds everything.
LEMMA OpenExistingKeeps == KInv /\ OpenExisting => KInv'
<1> SUFFICES ASSUME KInv, OpenExisting PROVE KInv'
  OBVIOUS
<1> USE DEF OpenExisting, Goto
<1>1. TypeOK'
  BY Images, ZeroFits, Logs DEF KInv, TypeOK, PhaseInv, FitInv
<1>2. PhaseInv'
  BY DEF KInv, TypeOK, PhaseInv
<1>3. FitInv'
  BY Images, ZeroFits DEF KInv, FitInv
<1>4. lost' = {} => FilesInv'
  BY Images, ZeroFits, Logs, ReplaysNothing, SoundReplays
     DEF KInv, PhaseInv, FitInv, FilesInv
<1> QED
  BY <1>1, <1>2, <1>3, <1>4 DEF KInv

\* Then the log is created.
LEMMA OpenLogKeeps == KInv /\ OpenLog => KInv'
<1> SUFFICES ASSUME KInv, OpenLog PROVE KInv'
  OBVIOUS
<1> USE DEF OpenLog, Goto
<1>1. TypeOK'
  BY Images, ZeroFits, Logs DEF KInv, TypeOK, PhaseInv, FitInv
<1>2. PhaseInv'
  BY DEF KInv, TypeOK, PhaseInv
<1>3. FitInv'
  BY Images, ZeroFits DEF KInv, FitInv
<1>4. lost' = {} => FilesInv'
  BY Images, ZeroFits, Logs, ReplaysNothing, SoundReplays
     DEF KInv, PhaseInv, FitInv, FilesInv
<1> QED
  BY <1>1, <1>2, <1>3, <1>4 DEF KInv

\* Then the image is read and copied.
LEMMA OpenCopyKeeps == KInv /\ OpenCopy => KInv'
<1> SUFFICES ASSUME KInv, OpenCopy PROVE KInv'
  OBVIOUS
<1> USE DEF OpenCopy, Goto
<1>1. TypeOK'
  BY Images, ZeroFits, Logs DEF KInv, TypeOK, PhaseInv, FitInv
<1>2. PhaseInv'
  BY DEF KInv, TypeOK, PhaseInv
<1>3. FitInv'
  BY Images, ZeroFits DEF KInv, FitInv
<1>4. lost' = {} => FilesInv'
  BY Images, ZeroFits, Logs, ReplaysNothing, SoundReplays
     DEF KInv, PhaseInv, FitInv, FilesInv
<1> QED
  BY <1>1, <1>2, <1>3, <1>4 DEF KInv

\* Creating the files leaves an empty store at every step: the image,
LEMMA CreateDbKeeps ==
  KInv /\ ~ MustRecover /\ "db" \notin exists /\ Create("off", "create_dbc", "db")
    => KInv'
<1> SUFFICES ASSUME KInv, ~ MustRecover, "db" \notin exists,
                    Create("off", "create_dbc", "db")
             PROVE  KInv'
  OBVIOUS
<1> USE DEF Create, Goto
<1>1. TypeOK'
  BY Images, ZeroFits, Logs DEF KInv, TypeOK, PhaseInv, FitInv
<1>2. PhaseInv'
  BY DEF KInv, TypeOK, PhaseInv
<1>3. FitInv'
  BY Images, ZeroFits DEF KInv, FitInv
<1>4. lost' = {} => FilesInv'
  BY Images, ZeroFits, Logs, ReplaysNothing DEF KInv, TypeOK, PhaseInv, FitInv, FilesInv
<1> QED
  BY <1>1, <1>2, <1>3, <1>4 DEF KInv

\* the copy,
LEMMA CreateDbcKeeps == KInv /\ Create("create_dbc", "create_log", "dbc") => KInv'
<1> SUFFICES ASSUME KInv, Create("create_dbc", "create_log", "dbc") PROVE KInv'
  OBVIOUS
<1> USE DEF Create, Goto
<1>1. TypeOK'
  BY Images, ZeroFits, Logs DEF KInv, TypeOK, PhaseInv, FitInv
<1>2. PhaseInv'
  BY DEF KInv, TypeOK, PhaseInv
<1>3. FitInv'
  BY Images, ZeroFits DEF KInv, FitInv
<1>4. lost' = {} => FilesInv'
  BY Images, ZeroFits, Logs, ReplaysNothing, SoundReplays
     DEF KInv, PhaseInv, FitInv, FilesInv
<1> QED
  BY <1>1, <1>2, <1>3, <1>4 DEF KInv

\* the log,
LEMMA CreateLogKeeps == KInv /\ Create("create_log", "create_fill", "log") => KInv'
<1> SUFFICES ASSUME KInv, Create("create_log", "create_fill", "log") PROVE KInv'
  OBVIOUS
<1> USE DEF Create, Goto
<1>1. TypeOK'
  BY Images, ZeroFits, Logs DEF KInv, TypeOK, PhaseInv, FitInv
<1>2. PhaseInv'
  BY DEF KInv, TypeOK, PhaseInv
<1>3. FitInv'
  BY Images, ZeroFits DEF KInv, FitInv
<1>4. lost' = {} => FilesInv'
  BY Images, ZeroFits, Logs, ReplaysNothing, SoundReplays
     DEF KInv, PhaseInv, FitInv, FilesInv
<1> QED
  BY <1>1, <1>2, <1>3, <1>4 DEF KInv

\* Closing truncates the image.
LEMMA CloseKeeps == KInv /\ Close => KInv'
<1> SUFFICES ASSUME KInv, Close PROVE KInv'
  OBVIOUS
<1> USE DEF Close, Goto
<1>1. TypeOK'
  BY Images, ZeroFits, Logs DEF KInv, TypeOK, PhaseInv, FitInv
<1>2. PhaseInv'
  BY DEF KInv, TypeOK, PhaseInv
<1>3. FitInv'
  BY Images, ZeroFits DEF KInv, FitInv
<1>4. lost' = {} => FilesInv'
  BY Images, ZeroFits, Logs, ReplaysNothing, SoundReplays
     DEF KInv, PhaseInv, FitInv, FilesInv
<1> QED
  BY <1>1, <1>2, <1>3, <1>4 DEF KInv

\* Then the table is written.
LEMMA SaveKeeps == KInv /\ Save => KInv'
<1> SUFFICES ASSUME KInv, Save PROVE KInv'
  OBVIOUS
<1> USE DEF Save, Goto
<1>1. TypeOK'
  BY Images, ZeroFits, Logs DEF KInv, TypeOK, PhaseInv, FitInv
<1>2. PhaseInv'
  BY DEF KInv, TypeOK, PhaseInv
<1>3. FitInv'
  BY Images, ZeroFits DEF KInv, FitInv
<1>4. lost' = {} => FilesInv'
  BY Images, ZeroFits, Logs, ReplaysNothing, SoundReplays
     DEF KInv, PhaseInv, FitInv, FilesInv
<1> QED
  BY <1>1, <1>2, <1>3, <1>4 DEF KInv

\* Then the copy goes: from here on the image counts.
LEMMA UnlinkDbcKeeps == KInv /\ UnlinkDbc => KInv'
<1> SUFFICES ASSUME KInv, UnlinkDbc PROVE KInv'
  OBVIOUS
<1> USE DEF UnlinkDbc, Goto
<1>1. TypeOK'
  BY Images, ZeroFits, Logs DEF KInv, TypeOK, PhaseInv, FitInv
<1>2. PhaseInv'
  BY DEF KInv, TypeOK, PhaseInv
<1>3. FitInv'
  BY Images, ZeroFits DEF KInv, FitInv
<1>4. lost' = {} => FilesInv'
  BY Images, ZeroFits, Logs, ReplaysNothing, SoundReplays
     DEF KInv, PhaseInv, FitInv, FilesInv
<1> QED
  BY <1>1, <1>2, <1>3, <1>4 DEF KInv

\* And the log.
LEMMA UnlinkLogKeeps == KInv /\ UnlinkLog => KInv'
<1> SUFFICES ASSUME KInv, UnlinkLog PROVE KInv'
  OBVIOUS
<1> USE DEF UnlinkLog, Goto
<1>1. TypeOK'
  BY Images, ZeroFits, Logs DEF KInv, TypeOK, PhaseInv, FitInv
<1>2. PhaseInv'
  BY DEF KInv, TypeOK, PhaseInv
<1>3. FitInv'
  BY Images, ZeroFits DEF KInv, FitInv
<1>4. lost' = {} => FilesInv'
  BY Images, ZeroFits, Logs, ReplaysNothing, SoundReplays
     DEF KInv, PhaseInv, FitInv, FilesInv
<1> QED
  BY <1>1, <1>2, <1>3, <1>4 DEF KInv
\* and their contents.
LEMMA FillKeeps ==
  /\ KInv /\ \/ pc = "create_fill" /\ db' = <<mem>> /\ Goto("create_copy") /\ UNCHANGED dbc
             \/ pc = "create_copy" /\ dbc' = <<mem>> /\ Goto("idle") /\ UNCHANGED db
  /\ UNCHANGED <<exists, log, mem, recovered, lost>>
  => KInv'
<1> SUFFICES ASSUME KInv, UNCHANGED <<exists, log, mem, recovered, lost>>,
                    \/ /\ pc = "create_fill" /\ db' = <<mem>>
                       /\ Goto("create_copy") /\ UNCHANGED dbc
                    \/ pc = "create_copy" /\ dbc' = <<mem>> /\ Goto("idle") /\ UNCHANGED db
             PROVE  KInv'
  OBVIOUS
<1> USE DEF Goto
<1>1. TypeOK'
  BY Images, ZeroFits, Logs DEF KInv, TypeOK, PhaseInv, FitInv
<1>2. PhaseInv'
  BY Images, ZeroFits, Logs
     DEF KInv, TypeOK, PhaseInv
<1>3. FitInv'
  BY Images, ZeroFits DEF KInv, FitInv
<1>4. lost' = {} => FilesInv'
  BY Images, ZeroFits, Logs, ReplaysNothing
     DEF KInv, PhaseInv, FitInv, FilesInv
<1> QED
  BY <1>1, <1>2, <1>3, <1>4 DEF KInv

\* So creating keeps the invariant.
LEMMA OpenCreateKeeps == KInv /\ OpenCreate => KInv'
BY CreateDbKeeps, CreateDbcKeeps, CreateLogKeeps, FillKeeps DEF OpenCreate

\* A recovery that succeeds has made the finished operations' table.
LEMMA RedoKeeps == KInv /\ Redo => KInv'
<1> SUFFICES ASSUME KInv, Redo PROVE KInv'
  OBVIOUS
<1> DEFINE r == redo_operation(Image(dbc), log)
<1>1. r \in Redoing
  BY RedoType DEF KInv, TypeOK, FitInv
<1>2. r.t \in Fitting /\ r.ok \in BOOLEAN
  BY <1>1 DEF Redoing
<1>3. lost = {} => r.ok /\ Holds(r.t, acked, cut)
  <2>1. lost = {} => Sound(Image(dbc), log, acked, cut)
    BY DEF KInv, PhaseInv, FilesInv, Redo
  <2> QED
    BY <2>1, SoundRedo
<1>4. /\ pc = "redo" /\ UNCHANGED <<exists, dbc, log, recovered, lost>>
      /\ \/ r.ok /\ mem' = r.t /\ db' = <<r.t>> /\ Goto("reset")
         \/ ~ r.ok /\ Goto("off") /\ UNCHANGED <<mem, db>>
  BY DEF Redo
<1> HIDE DEF r
<1> USE DEF Goto
<1>5. TypeOK'
  BY <1>2, <1>4, Images, ZeroFits, Logs
     DEF KInv, TypeOK, PhaseInv, FitInv
<1>6. PhaseInv'
  BY <1>2, <1>4, Images, ZeroFits, Logs
     DEF KInv, TypeOK, PhaseInv
<1>7. FitInv'
  BY <1>2, <1>4, Images, ZeroFits, Logs DEF KInv, FitInv
<1>8. lost' = {} => FilesInv'
  BY <1>2, <1>3, <1>4, Images, ZeroFits, Logs, ReplaysNothing
     DEF KInv, PhaseInv, FitInv, FilesInv
<1> QED
  BY <1>5, <1>6, <1>7, <1>8 DEF KInv

\* An operation that has changed the memory is yet to be logged.
LEMMA BeginKeeps ==
  ASSUME KInv, lost = {}, pc = "idle", pc' = "append", op' \in Line,
         mem' = After(mem, op'), UNCHANGED <<exists, db, dbc, log, recovered, acked, cut>>,
         op'.op = "put" => PutItem(mem, op'.key, op'.val).ok
  PROVE  FilesInv'
<1> DEFINE o == op'
<1>0. o = op'
  OBVIOUS
<1>1. /\ mem \in Table /\ acked \in Table /\ FilesInv
  BY DEF KInv, TypeOK
<1>2. /\ Holds(mem, acked, cut)
      /\ ~ recovered /\ NoEmptyPut(log) => Replays(Image(dbc), log, mem)
  BY <1>1 DEF FilesInv
<1> HIDE DEF o
<1>3. Holds(After(mem, o), After(acked, o), cut \ {o.key})
  BY <1>0, <1>1, <1>2, HoldsAfter
<1>4. ASSUME ~ recovered, NoEmptyPut(log)
      PROVE  Logged(Image(dbc), log, o, After(mem, o), acked, cut)
  <2>1. Replays(Image(dbc), log, mem)
    BY <1>2, <1>4
  <2>2. Log(Image(dbc), log).t = mem
    BY <2>1 DEF Replays
  <2>3. Sound(Image(dbc), log, acked, cut)
    BY <1>2, <2>1, SoundReplays
  <2> QED
    BY <1>0, <2>2, <2>3 DEF Logged
<1> QED
  BY <1>0, <1>3, <1>4 DEF FilesInv

\* A put changes the memory first.
LEMMA PutKeeps ==
  ASSUME NEW k \in Keys, NEW v \in Values
  PROVE  KInv /\ kvdb_put(k, v) => KInv'
<1> SUFFICES ASSUME KInv, kvdb_put(k, v) PROVE KInv'
  OBVIOUS
<1> DEFINE p == PutItem(mem, k, v)
           o == [op |-> "put", key |-> k, val |-> v]
<1>1. /\ p.t \in Fitting /\ p.ok \in BOOLEAN
      /\ p.ok => p.t = [mem EXCEPT ![k] = v]
      /\ ~ p.ok => p.t = kvdb_free(mem, k)
  BY PutFits DEF KInv, FitInv
<1>2. o \in Line /\ o # NoOp /\ o.op = "put" /\ o.key = k /\ o.val = v
  BY Operations
<1>3. /\ pc = "idle" /\ Len(log) < MaxLog /\ mem' = p.t
      /\ UNCHANGED <<exists, db, dbc, log, recovered, acked, cut>>
      /\ \/ p.ok /\ pc' = "append" /\ op' = o /\ UNCHANGED lost
         \/ /\ ~ p.ok /\ UNCHANGED <<pc, op>>
            /\ lost' = lost \cup IF mem[k] = NoVal THEN {} ELSE {"failed put"}
  BY DEF kvdb_put, files
<1>4. ASSUME lost' = {} PROVE lost = {} /\ Holds(mem, acked, cut)
  BY <1>3, <1>4 DEF KInv, FilesInv
<1>5. ~ p.ok /\ mem[k] = NoVal => p.t = mem
  <2>1. mem \in Table
    BY DEF KInv, TypeOK
  <2> QED
    BY <1>1, <2>1 DEF kvdb_free, Table
<1>6. p = PutItem(mem, k, v)
  OBVIOUS
<1> HIDE DEF p, o
<1>7. TypeOK'
  BY <1>1, <1>2, <1>3, Images
     DEF KInv, TypeOK, PhaseInv, FitInv
<1>8. PhaseInv'
  BY <1>3 DEF KInv, TypeOK, PhaseInv
<1>9. FitInv'
  BY <1>1, <1>3 DEF KInv, FitInv
<1>10. ASSUME lost' = {} PROVE FilesInv'
  <2>1. CASE p.ok
    <3>1. /\ pc' = "append" /\ op' = o /\ mem' = After(mem, o)
          /\ PutItem(mem, o.key, o.val).ok /\ lost = {} /\ Holds(mem, acked, cut)
      BY <1>1, <1>2, <1>3, <1>4, <1>6, <1>10, <2>1 DEF After
    <3> QED
      BY <1>2, <1>3, <3>1, BeginKeeps
  <2>2. CASE ~ p.ok
    <3>1. mem' = mem /\ pc' = pc /\ op' = op /\ lost = {}
      BY <1>3, <1>4, <1>5, <1>10, <2>2
    <3> QED
      BY <1>3, <3>1 DEF KInv, FilesInv
  <2> QED
    BY <1>1, <2>1, <2>2
<1> QED
  BY <1>7, <1>8, <1>9, <1>10 DEF KInv

\* So does a get, which takes the item out.
LEMMA GetKeeps ==
  ASSUME NEW k \in Keys
  PROVE  KInv /\ kvdb_get(k) => KInv'
<1> SUFFICES ASSUME KInv, kvdb_get(k) PROVE KInv'
  OBVIOUS
<1> DEFINE o == [op |-> "get", key |-> k]
<1>1. kvdb_free(mem, k) \in Fitting
  BY FreeFits DEF KInv, FitInv
<1>2. o \in Line /\ o # NoOp /\ o.op = "get" /\ o.key = k
  BY Operations
<1>3. /\ pc = "idle" /\ Len(log) < MaxLog /\ mem' = kvdb_free(mem, k)
      /\ UNCHANGED <<exists, db, dbc, log, recovered, acked, cut, lost>>
      /\ pc' = "append" /\ op' = o
  BY DEF kvdb_get, files
<1> HIDE DEF o
<1>4. TypeOK'
  BY <1>1, <1>2, <1>3, Images
     DEF KInv, TypeOK, PhaseInv, FitInv
<1>5. PhaseInv'
  BY <1>3 DEF KInv, TypeOK, PhaseInv
<1>6. FitInv'
  BY <1>1, <1>3 DEF KInv, FitInv
<1>7. ASSUME lost' = {} PROVE FilesInv'
  <2>1. lost = {}
    BY <1>3, <1>7
  <2>2. mem' = After(mem, o) /\ Holds(mem, acked, cut)
    BY <1>2, <1>3, <2>1 DEF KInv, FilesInv, kvdb_free, After
  <2> QED
    BY <1>2, <1>3, <2>1, <2>2, BeginKeeps
<1> QED
  BY <1>4, <1>5, <1>6, <1>7 DEF KInv
\* A record without its last part, and with it.
LEMMA Fronts ==
  ASSUME NEW l \in Seq(Line), NEW x
  PROVE  Front(Append(l, x)) = l
<1> DEFINE m == Append(l, x)
           n == Len(l)
           f == Front(Append(l, x))
<1>1. n \in Nat /\ Len(m) = n + 1 /\ \A i \in 1 .. n : m[i] = l[i]
  OBVIOUS
<1>2. l = [i \in 1 .. n |-> l[i]]
  OBVIOUS
<1>3. f = SubSeq(m, 1, Len(m) - 1)
  BY DEF Front
<1> HIDE DEF m, f
<1>4. Len(m) - 1 = n
  BY <1>1
<1> HIDE DEF n
<1>5. f = [i \in 1 .. n |-> m[i]]
  BY <1>1, <1>3, <1>4
<1>6. f = l
  BY <1>1, <1>2, <1>5
<1> QED
  BY <1>6 DEF f

\* The first writes of a long record reach the log.
LEMMA AppendPartKeeps == KInv /\ AppendPart => KInv'
<1> SUFFICES ASSUME KInv, AppendPart PROVE KInv'
  OBVIOUS
<1>1. PICK p \in torn[op.val] : log' = Append(log, Part(op, p))
  BY DEF AppendPart, AppendLog, Part
<1>2. /\ pc = "append" /\ op.op = "put" /\ pc' = "half"
      /\ UNCHANGED <<exists, db, dbc, mem, op, recovered, acked, cut, lost>>
  BY DEF AppendPart
<1> DEFINE x == Part(op, p)
<1>3. op \in Line /\ op.val \in Values /\ log \in Seq(Line) /\ op.key \in Keys /\ op # NoOp
  BY <1>2, Operations DEF KInv, TypeOK
<1>4. p \in Texts /\ p # Empty
  BY <1>3, KvdbConstants
<1>5. x \in Line /\ x.val = p
  BY <1>3, <1>4 DEF Part, Line
<1>6. log' = Append(log, x)
  BY <1>1
<1> HIDE DEF x
<1>7. /\ log' \in Seq(Line) /\ Len(log') = Len(log) + 1
      /\ NoEmptyPut(log') <=> NoEmptyPut(log)
  BY <1>3, <1>4, <1>5, <1>6, Logs
<1>8. Len(log') <= MaxLog
  <2>1. Len(log) \in Nat /\ MaxLog \in Nat /\ Len(log) < MaxLog
    BY <1>2, <1>3, KvdbConstants DEF KInv, PhaseInv
  <2> QED
    BY <1>7, <2>1
<1>9. exists = {"db", "dbc", "log"}
  BY <1>2 DEF KInv, PhaseInv
<1>10. TypeOK'
  BY <1>2, <1>3, <1>7, <1>8, <1>9 DEF KInv, TypeOK
<1>11. \E l \in Seq(Line), q \in torn[op.val] : log' = Append(l, Part(op, q))
  BY <1>1, <1>3
<1>12. PhaseInv'
  BY <1>2, <1>9, <1>11 DEF KInv, PhaseInv
<1>13. FitInv'
  BY <1>2 DEF KInv, FitInv
<1>14. Front(log') = log
  BY <1>3, <1>6, Fronts
<1>15. ASSUME lost' = {} PROVE FilesInv'
  <2>1. FilesInv
    BY <1>2, <1>15 DEF KInv
  <2>2. /\ ~ recovered /\ NoEmptyPut(log) =>
             Logged(Image(dbc), log, op, mem, acked, cut)
        /\ Holds(mem, After(acked, op), cut \ {op.key})
    BY <1>2, <2>1 DEF FilesInv
  <2> QED
    BY <1>2, <1>7, <1>14, <2>2 DEF FilesInv
<1> QED
  BY <1>10, <1>12, <1>13, <1>15 DEF KInv

\* The record in the log finishes the operation: the log replays to the table
\* with it.
LEMMA FinishKeeps == KInv /\ Finish => KInv'
<1> SUFFICES ASSUME KInv, Finish PROVE KInv'
  OBVIOUS
<1> DEFINE l == Whole(log)
<1>1. /\ pc \in {"append", "half"} /\ pc' = "idle" /\ log' = Append(l, op) /\ op' = NoOp
      /\ acked' = After(acked, op) /\ cut' = cut \ {op.key}
      /\ UNCHANGED <<exists, db, dbc, mem, recovered, lost>>
  BY DEF Finish, AppendLog, After
<1>2. op \in Line /\ log \in Seq(Line) /\ acked \in Table /\ Len(log) <= MaxLog
  BY <1>1 DEF KInv, TypeOK
<1>3. /\ l \in Seq(Line) /\ Len(l) + 1 <= MaxLog /\ (NoEmptyPut(l) => NoEmptyPut(log))
      /\ pc = "append" => l = log
      /\ pc = "half" => l = Front(log)
  <2>1. CASE pc = "append"
    <3>1. l = log /\ Len(log) < MaxLog
      BY <2>1 DEF Whole, KInv, PhaseInv
    <3>2. Len(log) \in Nat /\ MaxLog \in Nat
      BY <1>2, KvdbConstants
    <3> HIDE DEF l
    <3> QED
      BY <1>2, <2>1, <3>1, <3>2
  <2>2. CASE pc = "half"
    <3>1. PICK m \in Seq(Line), p \in torn[op.val] : log = Append(m, Part(op, p))
      BY <2>2 DEF KInv, PhaseInv
    <3>2. op.val \in Values /\ op.key \in Keys
      BY <1>2, <2>2, Operations DEF KInv, TypeOK, PhaseInv
    <3>3. p \in Texts /\ p # Empty
      BY <3>2, KvdbConstants
    <3> DEFINE x == Part(op, p)
    <3>4. x \in Line /\ x.val = p /\ log = Append(m, x)
      BY <3>1, <3>2, <3>3 DEF Part, Line
    <3> HIDE DEF x
    <3>5. Len(log) = Len(m) + 1 /\ (NoEmptyPut(log) <=> NoEmptyPut(m))
      BY <3>3, <3>4, Logs
    <3>6. l = Front(log)
      BY <2>2 DEF Whole
    <3>7. Front(log) = m
      BY <3>4, Fronts
    <3> HIDE DEF l
    <3> QED
      BY <1>2, <2>2, <3>5, <3>6, <3>7
  <2> QED
    BY <1>1, <2>1, <2>2
<1> HIDE DEF l
<1>4. /\ log' \in Seq(Line) /\ Len(log') = Len(l) + 1
      /\ NoEmptyPut(log') <=> NoEmptyPut(l) /\ ~ (op.op = "put" /\ op.val = Empty)
  BY <1>1, <1>2, <1>3, Logs
<1>5. acked' \in Table /\ cut' \subseteq Keys
  <2>1. op.key \in Keys /\ (op.op = "put" => op.val \in Values \cup Texts)
    BY <1>2 DEF Line
  <2>2. cut \subseteq Keys
    BY DEF KInv, TypeOK
  <2> QED
    BY <1>1, <1>2, <2>1, <2>2 DEF Table, After
<1>6. TypeOK'
  <2>1. exists' = {"db", "dbc", "log"}
    BY <1>1 DEF KInv, PhaseInv
  <2> QED
    BY <1>1, <1>3, <1>4, <1>5, <2>1 DEF KInv, TypeOK
<1>7. PhaseInv'
  BY <1>1 DEF KInv, PhaseInv
<1>8. FitInv'
  BY <1>1 DEF KInv, FitInv
<1>9. ASSUME lost' = {} PROVE FilesInv'
  <2>1. FilesInv
    BY <1>1, <1>9 DEF KInv
  <2>2. /\ Holds(mem, After(acked, op), cut \ {op.key})
        /\ ~ recovered /\ NoEmptyPut(l) =>
             Logged(Image(dbc), l, op, mem, acked, cut)
    BY <1>1, <1>3, <2>1 DEF FilesInv
  <2>3. ASSUME ~ recovered, NoEmptyPut(log') PROVE Replays(Image(dbc), log', mem)
    <3> DEFINE u == Log(Image(dbc), l).t
    <3>1. NoEmptyPut(l) /\ ~ (op.op = "put" /\ op.val = Empty)
      BY <1>4, <2>3
    <3>2. Logged(Image(dbc), l, op, mem, acked, cut)
      BY <2>2, <2>3, <3>1
    <3>3. /\ Sound(Image(dbc), l, acked, cut) /\ mem = After(u, op)
          /\ op.op = "put" => PutItem(u, op.key, op.val).ok
      BY <3>2 DEF Logged
    <3>4. Replays(Image(dbc), l, u)
      BY <3>3, SoundReplays
    <3>5. Image(dbc) \in Fitting
      BY DEF KInv, FitInv
    <3> HIDE DEF u
    <3>6. Replays(Image(dbc), Append(l, op), After(u, op))
      BY <1>2, <1>3, <3>1, <3>3, <3>4, <3>5, ReplaysAppend
    <3> QED
      BY <1>1, <3>3, <3>6
  <2> QED
    BY <1>1, <2>2, <2>3 DEF FilesInv
<1> QED
  BY <1>6, <1>7, <1>8, <1>9 DEF KInv

\* Outside the fragile states the files hold everything.
LEMMA NotFragile ==
  ASSUME KInv, lost = {}, Fragile = {}
  PROVE  /\ NoEmptyPut(log)
         /\ MustRecover => Sound(Image(dbc), log, acked, Cut)
         /\ ~ MustRecover => Holds(Image(db), acked, Cut)
<1>1. FilesInv
  BY DEF KInv
<1>2. /\ ~ (pc \in {"open_log", "open_copy"} /\ MustRecover)
      /\ ~ recovered /\ NoEmptyPut(log)
  BY DEF Fragile, NoEmptyPut
<1>3. pc # "half" => Cut = cut
  BY DEF Cut
<1>4. ASSUME MustRecover PROVE Sound(Image(dbc), log, acked, Cut)
  <2>1. pc \in {"off", "redo", "reset", "create_fill", "create_copy"} \cup Open
    BY <1>2, <1>4 DEF KInv, PhaseInv
  <2>2. CASE pc \in {"create_fill", "create_copy"}
    <3>1. Image(dbc) = Zero /\ log = <<>> /\ Holds(Zero, acked, cut)
      BY <1>1, <2>2, Images DEF KInv, PhaseInv, FilesInv
    <3>2. Replays(Zero, <<>>, Zero)
      BY ReplaysNothing
    <3> QED
      BY <1>3, <2>2, <3>1, <3>2, SoundReplays
  <2>3. CASE pc \in {"off", "redo", "reset"}
    BY <1>1, <1>3, <1>4, <2>3 DEF FilesInv
  <2>4. CASE pc \in {"idle", "save", "unlink_dbc"}
    <3>1. Replays(Image(dbc), log, mem) /\ Holds(mem, acked, cut)
      BY <1>1, <1>2, <2>4 DEF FilesInv
    <3> QED
      BY <1>3, <2>4, <3>1, SoundReplays
  <2>5. CASE pc = "append"
    <3>1. Logged(Image(dbc), log, op, mem, acked, cut)
      BY <1>1, <1>2, <2>5 DEF FilesInv
    <3> QED
      BY <1>3, <2>5, <3>1 DEF Logged
  <2>6. CASE pc = "half"
    <3>1. PICK l \in Seq(Line), p \in torn[op.val] : log = Append(l, Part(op, p))
      BY <2>6 DEF KInv, PhaseInv
    <3>2. op \in Line /\ op.op = "put" /\ op.val \in Values
      BY <2>6 DEF KInv, TypeOK, PhaseInv
    <3>3. Front(log) = l
      BY <3>1, Fronts
    <3>4. Logged(Image(dbc), l, op, mem, acked, cut)
      BY <1>1, <1>2, <2>6, <3>3 DEF FilesInv
    <3>5. Image(dbc) \in Fitting
      BY DEF KInv, FitInv
    <3>6. Sound(Image(dbc), Append(l, Part(op, p)), acked, cut \cup {op.key})
      BY <3>2, <3>4, <3>5, PartSound
    <3> QED
      BY <2>6, <3>1, <3>6 DEF Cut
  <2> QED
    BY <2>1, <2>2, <2>3, <2>4, <2>5, <2>6
<1>5. ASSUME ~ MustRecover PROVE Holds(Image(db), acked, Cut)
  BY <1>1, <1>3, <1>5 DEF KInv, PhaseInv, FilesInv
<1> QED
  BY <1>2, <1>4, <1>5

\* A crash in a state that is not fragile leaves files that hold everything.
LEMMA CrashKeeps == KInv /\ Crash => KInv'
<1> SUFFICES ASSUME KInv, Crash PROVE KInv'
  OBVIOUS
<1>1. /\ pc' = "off" /\ mem' = Zero /\ op' = NoOp /\ recovered' = FALSE
      /\ lost' = lost \cup Fragile /\ UNCHANGED <<exists, db, dbc, log, acked>>
      /\ cut' = Cut /\ Cut \subseteq Keys
  BY Operations DEF Crash, files, Cut, KInv, TypeOK
<1>2. TypeOK'
  BY <1>1, Images, ZeroFits DEF KInv, TypeOK
<1>3. PhaseInv'
  BY <1>1 DEF KInv, PhaseInv
<1>4. FitInv'
  BY <1>1, ZeroFits DEF KInv, FitInv
<1>5. ASSUME lost' = {} PROVE FilesInv'
  <2>1. lost = {} /\ Fragile = {}
    BY <1>1, <1>5
  <2>2. /\ NoEmptyPut(log)
        /\ MustRecover => Sound(Image(dbc), log, acked, Cut)
        /\ ~ MustRecover => Holds(Image(db), acked, Cut)
    BY <2>1, NotFragile
  <2> QED
    BY <1>1, <2>2 DEF FilesInv
<1> QED
  BY <1>2, <1>3, <1>4, <1>5 DEF KInv

(***************************************************************************)
(* The theorems.                                                           *)
(***************************************************************************)
\* A machine without the files starts in the invariant.
LEMMA KvdbInit == Init => KInv
<1> SUFFICES ASSUME Init PROVE KInv
  OBVIOUS
<1>1. TypeOK
  BY Images, ZeroFits, Logs DEF Init, TypeOK
<1>2. PhaseInv
  BY DEF Init, PhaseInv
<1>3. FitInv
  BY Images, ZeroFits DEF Init, FitInv
<1>4. FilesInv
  BY Images, Logs, ReplaysNothing
     DEF Init, FilesInv, Holds
<1> QED
  BY <1>1, <1>2, <1>3, <1>4 DEF KInv

\* Every step of the process keeps it.
LEMMA KvdbStep == KInv /\ [Next]_vars => KInv'
<1> SUFFICES ASSUME KInv, [Next]_vars PROVE KInv'
  OBVIOUS
<1>1. CASE UNCHANGED vars
  <2>1. TypeOK' /\ PhaseInv' /\ FitInv'
    BY <1>1 DEF KInv, TypeOK, PhaseInv, FitInv, vars
  <2>2. (lost = {} => FilesInv)'
    BY <1>1 DEF KInv, FilesInv, vars
  <2> QED
    BY <2>1, <2>2 DEF KInv
<1>2. CASE Next
  BY <1>2, OpenRecoverKeeps, RedoKeeps, ResetKeeps, OpenExistingKeeps, OpenLogKeeps,
     OpenCopyKeeps, OpenCreateKeeps, GetKeeps, PutKeeps, AppendPartKeeps,
     FinishKeeps, CloseKeeps,
     SaveKeeps, UnlinkDbcKeeps, UnlinkLogKeeps, CrashKeeps
     DEF Next
<1> QED
  BY <1>1, <1>2

\* The invariant holds throughout.
LEMMA KvdbInvariant == Spec => []KInv
BY KvdbInit, KvdbStep, PTL DEF Spec

\* Every variable keeps its type, and a file that is not there has no contents,
\* through any sequence of sessions and crashes (kvdb.c:198-322).
THEOREM KvdbTypes == Spec => []TypeOK
<1>1. KInv => TypeOK
  BY DEF KInv
<1> QED
  BY <1>1, KvdbInvariant, PTL

\* Crash safety for any keys, values, table size, length of the log and number of
\* crashes, and records of any number of writes: outside the fragile states the
\* files hold exactly the finished operations, but for the keys whose put was
\* cut short within its record (kvdb.c:212-259, 271-288, 310-316).
THEOREM FilesSurviveCrash == Spec => []CrashSafe
<1>1. KInv => CrashSafe
  <2> SUFFICES ASSUME KInv, lost = {}, Fragile = {}
               PROVE  Rebuilt.ok /\ Holds(Rebuilt.t, acked, Cut)
    BY DEF CrashSafe
  <2>1. /\ MustRecover => Sound(Image(dbc), log, acked, Cut)
        /\ ~ MustRecover => Holds(Image(db), acked, Cut)
    BY NotFragile
  <2> QED
    BY <2>1, SoundRedo DEF Rebuilt
<1> QED
  BY <1>1, KvdbInvariant, PTL

\* An open store holds what the finished operations made of it, over any number
\* of sessions and crashes, but for keys whose put was cut short and which have
\* not been put or taken since, and never takes more blocks than it has
\* (kvdb.c:75-99), for any keys, values, sizes and records of several writes.
THEOREM OpenStoreCurrent == Spec => []TableIsAcked
<1>1. KInv => TableIsAcked
  BY DEF KInv, FitInv, FilesInv, Fitting, Blocks, TableIsAcked
<1> QED
  BY <1>1, KvdbInvariant, PTL
=============================================================================
