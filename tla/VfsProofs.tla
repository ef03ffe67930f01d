----------------------------- MODULE VfsProofs -----------------------------
(***************************************************************************)
(* Proofs about Ext2 and Vfs for every size of the disk and of the table,  *)
(* every set of paths and texts, and any number of commands.               *)
(***************************************************************************)
EXTENDS Ext2Proofs

(***************************************************************************)
(* The commands.  What each of them does to the disk.                      *)
(***************************************************************************)
\* A command's working state, whatever the table is.
MkSt(v, e, fa, r, h) == [v |-> v, e |-> e, fault |-> fa, r |-> r, harm |-> h]
IsSt(s) == s = MkSt(s.v, s.e, s.fault, s.r, s.harm)

\* t has the disk of s and has done no harm.
Same(s, t) == IsSt(t) /\ t.e = s.e /\ t.harm = s.harm

\* The parts of a state.
LEMMA StFields ==
  ASSUME NEW v, NEW e, NEW fa, NEW r, NEW h
  PROVE  LET s == MkSt(v, e, fa, r, h) IN
         /\ IsSt(s)
         /\ s.v = v /\ s.e = e /\ s.fault = fa /\ s.r = r /\ s.harm = h
BY DEF MkSt, IsSt

\* The updates of a state, one by one.
LEMMA StFail ==
  ASSUME NEW s, IsSt(s), NEW x PROVE Fail(s, x) = MkSt(s.v, s.e, x, s.r, s.harm)
BY DEF IsSt, MkSt, Fail

\* Its result.
LEMMA StRet ==
  ASSUME NEW s, IsSt(s), NEW x PROVE Ret(s, x) = MkSt(s.v, s.e, s.fault, x, s.harm)
BY DEF IsSt, MkSt, Ret

\* Its table.
LEMMA StTable ==
  ASSUME NEW s, IsSt(s), NEW x
  PROVE  [s EXCEPT !.v = x] = MkSt(x, s.e, s.fault, s.r, s.harm)
BY DEF IsSt, MkSt

\* Its harm.
LEMMA StHarm ==
  ASSUME NEW s, IsSt(s), NEW x
  PROVE  [s EXCEPT !.harm = x] = MkSt(s.v, s.e, s.fault, s.r, x)
BY DEF IsSt, MkSt

\* Its disk.
LEMMA StDisk ==
  ASSUME NEW s, IsSt(s), NEW x
  PROVE  [s EXCEPT !.e = x] = MkSt(s.v, x, s.fault, s.r, s.harm)
BY DEF IsSt, MkSt

\* Its table and its result.
LEMMA StTableRet ==
  ASSUME NEW s, IsSt(s), NEW x, NEW y
  PROVE  /\ [s EXCEPT !.v = x, !.r = y] = MkSt(x, s.e, s.fault, y, s.harm)
         /\ [s EXCEPT !.r = y, !.v = x] = MkSt(x, s.e, s.fault, y, s.harm)
<1> DEFINE a == [s EXCEPT !.v = x]
           b == [s EXCEPT !.r = y]
<1>1. /\ [s EXCEPT !.v = x, !.r = y] = [a EXCEPT !.r = y]
      /\ [s EXCEPT !.r = y, !.v = x] = [b EXCEPT !.v = x]
  OBVIOUS
<1>2. a = MkSt(x, s.e, s.fault, s.r, s.harm) /\ b = MkSt(s.v, s.e, s.fault, y, s.harm)
  BY StTable, StRet DEF Ret
<1> HIDE DEF a, b
<1>3. [a EXCEPT !.r = y] = MkSt(x, s.e, s.fault, y, s.harm)
  BY <1>2 DEF MkSt
<1>4. [b EXCEPT !.v = x] = MkSt(x, s.e, s.fault, y, s.harm)
  BY <1>2 DEF MkSt
<1> QED
  BY <1>1, <1>3, <1>4

\* Its table and its harm.
LEMMA StTableHarm ==
  ASSUME NEW s, IsSt(s), NEW x, NEW y
  PROVE  [s EXCEPT !.v = x, !.harm = y] = MkSt(x, s.e, s.fault, s.r, y)
<1> DEFINE a == [s EXCEPT !.v = x]
<1>1. [s EXCEPT !.v = x, !.harm = y] = [a EXCEPT !.harm = y]
  OBVIOUS
<1>2. a = MkSt(x, s.e, s.fault, s.r, s.harm)
  BY StTable
<1> HIDE DEF a
<1>3. [a EXCEPT !.harm = y] = MkSt(x, s.e, s.fault, s.r, y)
  BY <1>2 DEF MkSt
<1> QED
  BY <1>1, <1>3

\* What leaves the disk alone.
LEMMA StSet ==
  ASSUME NEW s, IsSt(s), NEW x, NEW y
  PROVE  /\ Same(s, s) /\ Same(s, Fail(s, x)) /\ Same(s, Ret(s, x))
         /\ Same(s, [s EXCEPT !.v = x]) /\ Same(s, [s EXCEPT !.v = x, !.r = y])
         /\ Same(s, [s EXCEPT !.r = y, !.v = x])
<1>1. Same(s, s)
  BY DEF Same
<1>2. Same(s, Fail(s, x))
  BY StFail, StFields DEF Same
<1>3. Same(s, Ret(s, x))
  BY StRet, StFields DEF Same
<1>4. Same(s, [s EXCEPT !.v = x])
  BY StTable, StFields DEF Same
<1>5. Same(s, [s EXCEPT !.v = x, !.r = y])
  <2> DEFINE t == [s EXCEPT !.v = x, !.r = y]
  <2>1. t = MkSt(x, s.e, s.fault, y, s.harm)
    BY StTableRet
  <2> HIDE DEF t
  <2>2. Same(s, t)
    BY <2>1, StFields DEF Same
  <2> QED
    BY <2>2 DEF t
<1>6. Same(s, [s EXCEPT !.r = y, !.v = x])
  <2> DEFINE t == [s EXCEPT !.r = y, !.v = x]
  <2>1. t = MkSt(x, s.e, s.fault, y, s.harm)
    BY StTableRet
  <2> HIDE DEF t
  <2>2. Same(s, t)
    BY <2>1, StFields DEF Same
  <2> QED
    BY <2>2 DEF t
<1> QED
  BY <1>1, <1>2, <1>3, <1>4, <1>5, <1>6

\* Two steps that leave the disk alone.
LEMMA SameTwice ==
  ASSUME NEW s, NEW t, NEW u, Same(s, t), Same(t, u)
  PROVE  Same(s, u)
BY DEF Same

\* Reading a directory into the table (vfs.c:105-161).
LEMMA ReadSame ==
  ASSUME NEW s, IsSt(s), NEW d, NEW name
  PROVE  Same(s, ReadDirectory(s, d, name))
<1> DEFINE ents == ext2_readdir(s.e, s.v[d].ridx)
           w == FoldLeft(LAMBDA x, ent : ReadEntry(d, x, ent),
                         [v |-> s.v, prev |-> None, dot |-> None, ddot |-> None,
                          fault |-> "none"], ents)
           hits == Cardinality({i \in 1 .. Len(ents) : ents[i].name = name})
           y == IF hits = 0 THEN None ELSE d
           b == w.v
<1>1. ReadDirectory(s, d, name) =
        IF w.fault # "none" THEN Fail(s, w.fault)
        ELSE IF hits > 1 THEN Fail(s, "assert") ELSE [s EXCEPT !.v = b, !.r = y]
  BY Zenon DEF ReadDirectory
<1> HIDE DEF ents, w, hits, y, b
<1>2. /\ Same(s, [s EXCEPT !.v = b, !.r = y]) /\ Same(s, Fail(s, "assert"))
      /\ Same(s, Fail(s, w.fault))
  BY StSet
<1> DEFINE t == [s EXCEPT !.v = b, !.r = y]
<1> HIDE DEF t
<1> QED
  BY <1>1, <1>2 DEF t

\* One round of a lookup.
LEMMA RoundSame ==
  ASSUME NEW path, NEW s, IsSt(s), NEW more, NEW i
  PROVE  LET x == Round(path, [s |-> s, more |-> more], i) IN
         x = [s |-> x.s, more |-> x.more] /\ Same(s, x.s)
<1> DEFINE w == [s |-> s, more |-> more]
           at == lookup_cur(s.v, path)
           name == path[at.depth + 1]
           q == LookupRound(s, at, name)
<1>1. Round(path, w, i) = IF more /\ Good(s) /\ s.r # None THEN q ELSE w
  <2>1. w.s = s /\ w.more = more
    OBVIOUS
  <2> QED
    BY <2>1 DEF Round
<1> HIDE DEF at, name
<1>2. q = [s |-> q.s, more |-> q.more] /\ Same(s, q.s)
  <2>1. CASE at.spin
    BY <2>1, StSet DEF LookupRound
  <2>2. CASE ~ at.spin /\ ~ at.stop
    BY <2>2, StSet DEF LookupRound
  <2>3. CASE ~ at.spin /\ at.stop
    <3>1. q = IF s.v[at.cur].fs = "VFS" \/ s.v[at.cur].child # None
              THEN [s |-> Ret(s, None), more |-> FALSE]
              ELSE [s |-> ReadDirectory(s, at.cur, name), more |-> TRUE]
      BY <2>3 DEF LookupRound
    <3> HIDE DEF q
    <3>2. Same(s, ReadDirectory(s, at.cur, name)) /\ Same(s, Ret(s, None))
      BY ReadSame, StSet
    <3> DEFINE rd == ReadDirectory(s, at.cur, name)
    <3> HIDE DEF rd
    <3> QED
      BY <3>1, <3>2 DEF rd
  <2> QED
    BY <2>1, <2>2, <2>3
<1> HIDE DEF q
<1>3. w.s = s /\ w.more = more /\ Same(s, s)
  BY StSet
<1> QED
  BY <1>1, <1>2, <1>3

Ro == INSTANCE Lemmas WITH apply <- Round

\* A lookup leaves the disk alone (vfs.c:85-168).
LEMMA LookupSame ==
  ASSUME NEW s, IsSt(s), NEW path, Len(path) \in Nat
  PROVE  Same(s, lookup_auto(s, path))
<1> DEFINE n == Len(path) + 1
           b == [s |-> Ret(s, VFS_ROOT), more |-> TRUE]
           l == [i \in 1 .. Len(path) + 1 |-> i]
           f == FoldLeft(LAMBDA w, i : Round(path, w, i), b, l)
<1>1. lookup_auto(s, path) = IF Good(s) THEN f.s ELSE s
  BY Zenon DEF lookup_auto, Then
<1>2. f = Ro!Fold(path, b, l)
  <2> HIDE DEF l, b
  <2> QED
    BY DEF FoldLeft, MapThenFoldSet, Max, Ro!Fold, Ro!FoldLeft, Ro!MapThenFoldSet, Ro!Max
<1>3. n \in Nat /\ DOMAIN l = 1 .. n
  OBVIOUS
<1> HIDE DEF f, l, n, b
<1>4. PICK h : /\ h[0] = b /\ f = h[n]
               /\ \A i \in 1 .. n : h[i] = Round(path, h[i - 1], l[i])
  BY <1>2, <1>3, Ro!FoldTrace
<1> DEFINE Ok(w) == w = [s |-> w.s, more |-> w.more] /\ Same(s, w.s)
           S == {i \in 0 .. n : Ok(h[i])}
<1>5. 0 \in S
  <2>1. Same(s, Ret(s, VFS_ROOT))
    BY StSet
  <2>2. Ok(b)
    BY <2>1 DEF b
  <2>3. 0 \in 0 .. n
    BY <1>3
  <2> QED
    BY <1>4, <2>2, <2>3
<1>6. \A i \in S \cap (0 .. n - 1) : i + 1 \in S
  <2> SUFFICES ASSUME NEW i \in S, i \in 0 .. n - 1
               PROVE  i + 1 \in 0 .. n /\ Ok(h[i + 1])
    OBVIOUS
  <2>1. Ok(h[i])
    OBVIOUS
  <2> HIDE DEF S
  <2>2. i + 1 \in 1 .. n /\ i + 1 \in 0 .. n /\ (i + 1) - 1 = i
    BY <1>3
  <2> DEFINE c == h[i].s
             m == h[i].more
  <2>3. h[i] = [s |-> c, more |-> m] /\ Same(s, c)
    BY <2>1
  <2> HIDE DEF c, m, Ok
  <2>4. h[i + 1] = Round(path, [s |-> c, more |-> m], l[i + 1])
    BY <1>4, <2>2, <2>3
  <2>5. IsSt(c)
    BY <2>3 DEF Same
  <2> DEFINE x == Round(path, [s |-> c, more |-> m], l[i + 1])
  <2>6. x = [s |-> x.s, more |-> x.more] /\ Same(c, x.s)
    BY <2>5, RoundSame
  <2> HIDE DEF x
  <2>7. Same(s, x.s)
    BY <2>3, <2>6, SameTwice
  <2> QED
    BY <2>2, <2>4, <2>6, <2>7 DEF Ok, x
<1>7. n \in S
  <2> HIDE DEF S
  <2>1. \A i \in 0 .. n : i \in S
    BY <1>3, <1>5, <1>6, UpTo
  <2>2. n \in 0 .. n
    BY <1>3
  <2> QED
    BY <2>1, <2>2
<1>8. Same(s, f.s)
  BY <1>4, <1>7
<1> QED
  BY <1>1, <1>8, StSet

\* The table's part of a new vinode leaves the disk alone (vfs.c:231-323).
LEMMA AppendSame ==
  ASSUME NEW s, IsSt(s), NEW par, NEW name, NEW mode, NEW fs
  PROVE  Same(s, append_dir(s, par, name, mode, fs))
<1> DEFINE v == s.v
           n == vinodes_alloc(v)
           c == Children(v, par)
           dots == {i \in 1 .. Len(c) - 1 : v[c[i]].name = "."}
           dot  == c[Max(dots)]
           v1 == [v EXCEPT ![Last(c)].next = n,
                      ![n] = Vinode(n, name, mode, dot, v[dot].next, None, None,
                                    v[n].ridx, fs)]
<1>1. append_dir(s, par, name, mode, fs) =
        IF c = <<>> \/ dots = {} THEN Fail(s, "assert")
        ELSE IF n = None THEN Fail(s, "index")
        ELSE [s EXCEPT !.r = n, !.v = v1]
  BY Zenon DEF append_dir
<1> HIDE DEF v, n, c, dots, dot, v1
<1>2. /\ Same(s, [s EXCEPT !.r = n, !.v = v1])
      /\ Same(s, Fail(s, "assert")) /\ Same(s, Fail(s, "index"))
  BY StSet
<1> DEFINE t == [s EXCEPT !.r = n, !.v = v1]
<1> HIDE DEF t
<1> QED
  BY <1>1, <1>2 DEF t

\* The same of prepare_dir (vfs.c:325-335).
LEMMA PrepareSame ==
  ASSUME NEW s, IsSt(s), NEW idx, NEW par, NEW fs
  PROVE  Same(s, prepare_dir(s, idx, par, fs))
<1> DEFINE v == s.v
           dot  == vinodes_alloc(v)
           ddot == vinodes_alloc([v EXCEPT ![dot].mode = {"LINK"}])
           v1 == [v EXCEPT
                    ![idx].child = dot,
                    ![dot]  = Vinode(dot, ".", {"LINK"}, None, ddot, ddot, idx,
                                     v[dot].ridx, fs),
                    ![ddot] = Vinode(ddot, "..", {"LINK"}, dot, None, None, par,
                                     v[ddot].ridx, fs)]
           v2 == add_link(add_link(v1, idx, dot), par, ddot)
<1>1. prepare_dir(s, idx, par, fs) =
        IF dot = None \/ ddot = None THEN Fail(s, "index")
        ELSE IF v[idx].child # None THEN Fail(s, "assert")
        ELSE [s EXCEPT !.v = v2]
  BY Zenon DEF prepare_dir
<1> HIDE DEF v, dot, ddot, v1, v2
<1>2. /\ Same(s, [s EXCEPT !.v = v2])
      /\ Same(s, Fail(s, "assert")) /\ Same(s, Fail(s, "index"))
  BY StSet
<1> DEFINE t == [s EXCEPT !.v = v2]
<1> HIDE DEF t
<1> QED
  BY <1>1, <1>2 DEF t

\* t has the disk of s, and may have done harm.
Adds(s, t) == IsSt(t) /\ t.e = s.e /\ s.harm \subseteq t.harm

\* remove_dir changes the table only (vfs.c:337-345).
LEMMA RemoveAdds ==
  ASSUME NEW s, IsSt(s), NEW idx, NEW par
  PROVE  Adds(s, remove_dir(s, idx, par))
<1> DEFINE v == s.v
           pre == {k \in Range(Children(v, par)) : v[k].next = idx}
           v1 == [v EXCEPT ![CHOOSE k \in pre : TRUE].next = v[idx].next]
           order == Append(Children(v, idx), idx)
           v2 == FoldLeft(delete_vinode, v1, order)
           h == s.harm \cup (IF CutsLink(v, Range(order)) THEN {"cut"} ELSE {})
                  \cup (IF Nested(v, Range(order), idx) THEN {"nested"} ELSE {})
<1>1. remove_dir(s, idx, par) =
        IF ~ Good(s) THEN s
        ELSE IF idx = None \/ pre = {} THEN Fail(s, "index")
        ELSE [s EXCEPT !.v = v2, !.harm = h]
  BY Zenon DEF remove_dir
<1>2. s.harm \subseteq h
  OBVIOUS
<1> HIDE DEF v, pre, v1, order, v2, h
<1>3. Adds(s, s) /\ Adds(s, Fail(s, "index"))
  BY StSet DEF Same, Adds
<1> DEFINE t == [s EXCEPT !.v = v2, !.harm = h]
<1>4. t = MkSt(v2, s.e, s.fault, s.r, h)
  BY StTableHarm
<1> HIDE DEF t
<1>5. Adds(s, t)
  BY <1>2, <1>4, StFields DEF Adds
<1> QED
  BY <1>1, <1>3, <1>5 DEF t

\* vfs_access changes the table only (vfs.c:410-416).
LEMMA AccessSame ==
  ASSUME NEW s, IsSt(s), NEW path, Len(path) \in Nat, NEW mode
  PROVE  Same(s, Access(s, path, mode))
<1> DEFINE w == lookup_auto(s, path)
<1>1. Access(s, path, mode) =
        IF Good(w)
        THEN IF w.r # None /\ ~ (mode \subseteq w.v[w.r].mode) THEN Ret(w, None) ELSE w
        ELSE w
  BY Zenon DEF Access, Then
<1>2. Same(s, w)
  BY LookupSame
<1> HIDE DEF w
<1>3. Same(w, Ret(w, None))
  BY <1>2, StSet DEF Same
<1> QED
  BY <1>1, <1>2, <1>3, SameTwice

\* Between the disks e and f, with harm h done: if no call went astray the books stay in
\* order, and if none wrote over another's block the files keep their texts.
Kept(e, f, h) ==
  "astray" \notin h /\ DiskInv(e) =>
    /\ DiskInv(f)
    /\ "smash" \notin h => \A t, half : TextInv(e, t, half) => TextInv(f, t, half)

\* What a command that ends well has done.
Does(e, s) == IsSt(s) /\ (Good(s) => Kept(e, s.e, s.harm))

\* A disk left alone is kept.
LEMMA KeptSame ==
  ASSUME NEW e, NEW h
  PROVE  Kept(e, e, h)
BY DEF Kept

\* More harm excuses more.
LEMMA KeptMore ==
  ASSUME NEW e, NEW f, NEW g, NEW h, Kept(e, f, g), g \subseteq h
  PROVE  Kept(e, f, h)
BY DEF Kept

\* A command that leaves the disk alone.
LEMMA DoesSame ==
  ASSUME NEW s, IsSt(s)
  PROVE  Does(s.e, s)
BY KeptSame DEF Does

\* What changes the table after a command.
LEMMA DoesAdds ==
  ASSUME NEW e, NEW s, Kept(e, s.e, s.harm), NEW t, Adds(s, t)
  PROVE  Does(e, t)
BY KeptMore DEF Does, Adds

\* A path with one more name.
LEMMA LongerPath ==
  ASSUME NEW S, NEW p \in Seq(S), NEW x
  PROVE  Len(p \o <<x>>) \in Nat
<1> DEFINE T == S \cup {x}
<1>1. p \in [1 .. Len(p) -> S] /\ Len(p) \in Nat
  OBVIOUS
<1>2. S \subseteq T /\ x \in T
  OBVIOUS
<1> HIDE DEF T
<1>3. p \in [1 .. Len(p) -> T]
  BY <1>1, <1>2
<1>4. p \in Seq(T)
  BY <1>1, <1>3, SeqDef
<1>5. <<x>> \in Seq(T)
  BY <1>2
<1>6. p \o <<x>> \in Seq(T)
  BY <1>4, <1>5
<1> QED
  BY <1>6

\* The name at the end of a path, and the path before it.
LEMMA PathEnds ==
  ASSUME NEW path \in AllPaths
  PROVE  /\ Len(path) \in Nat /\ Len(Front(path)) \in Nat /\ Last(path) \in Str
         /\ Len(path \o <<".">>) \in Nat
<1>1. path \in Seq(STRING) /\ path # <<>>
  BY VfsConstants
<1>2. Len(path) \in Nat /\ Len(path) >= 1 /\ Len(path) \in 1 .. Len(path)
  BY <1>1
<1>3. Front(path) \in Seq(STRING)
  BY <1>1, <1>2 DEF Front
<1>4. Last(path) \in STRING
  BY <1>1, <1>2 DEF Last
<1>5. Last(path) \in Str
  BY <1>4 DEF Str
<1>6. Len(path \o <<".">>) \in Nat
  BY <1>1, LongerPath
<1> QED
  BY <1>2, <1>3, <1>5, <1>6

\* A call that did not go astray.
LEMMA NotAstray ==
  ASSUME NEW e, NEW i, NEW kind, NEW h, Astray(e, i, kind) \subseteq h, "astray" \notin h
  PROVE  i \in e.inodemap /\ kind \in e.ind[i].mode
BY DEF Astray

\* A directory made on the disk (ext2fs.c:369-403).
LEMMA KeptCreate ==
  ASSUME NEW e, NEW ridx, NEW name \in Str, ~ ext2_create(e, ridx, name, DirMode).e.wild,
         NEW h, Astray(e, ridx, "DIR") \subseteq h
  PROVE  Kept(e, ext2_create(e, ridx, name, DirMode).e, h)
<1> DEFINE c == ext2_create(e, ridx, name, DirMode)
           f == c.e
<1> SUFFICES ASSUME "astray" \notin h, DiskInv(e)
             PROVE  DiskInv(f) /\ \A t, half : TextInv(e, t, half) => TextInv(f, t, half)
  BY DEF Kept
<1>1. ridx \in e.inodemap /\ "DIR" \in e.ind[ridx].mode
  BY NotAstray
<1>2. DirMode \in {DirMode, FileMode} /\ DirMode # FileMode
  BY DEF DirMode, FileMode
<1>3. DiskInv(f) /\ Created(e, f, ridx, c.n, DirMode)
  BY <1>1, <1>2, Create
<1> HIDE DEF f, c
<1>4. ASSUME NEW t, NEW half, TextInv(e, t, half) PROVE TextInv(f, t, half)
  BY <1>1, <1>2, <1>3, <1>4, CreateTexts
<1> QED
  BY <1>3, <1>4

\* A removal that removes nothing.
LEMMA RemoveNot ==
  ASSUME NEW e, NEW ridx, NEW name, NEW mode, ext2_remove(e, ridx, name, mode).ret # 0
  PROVE  ext2_remove(e, ridx, name, mode).e \in {e, Wild(e)}
<1> DEFINE ind == e.ind[ridx]
           S   == Named(e, ind, name)
           p   == FirstPlace(S)
           k   == EntryAt(e, ind, p).inode
           x   == ext2_remove(e, ridx, name, mode)
<1>1. x = CASE S = {} -> [e |-> e, ret |-> 1]
       [] S # {} /\ k = 0 /\ "DIR" \in mode -> [e |-> e, ret |-> 1]
       [] S # {} /\ k = 0 /\ "DIR" \notin mode -> [e |-> Wild(e), ret |-> 1]
       [] S # {} /\ k # 0 /\ "DIR" \in mode -> RemoveDir(e, ridx, p, k)
       [] S # {} /\ k # 0 /\ "DIR" \notin mode -> RemoveFile(e, ridx, p, k)
  BY Zenon DEF ext2_remove
<1> HIDE DEF ind, S, p, k, x
<1>2. RemoveFile(e, ridx, p, k).ret = 0
  BY DEF RemoveFile
<1>3. RemoveDir(e, ridx, p, k).ret # 0 => RemoveDir(e, ridx, p, k).e \in {e, Wild(e)}
  <2> DEFINE ci == e.ind[k]
             pa == e.ind[ridx]
             e1 == ext2_remove_inode(ext2_remove_block(e, ci.block[1]), k)
             e2 == [wr_dir(e1, ci.block[p[1]], Cleared(e, pa, p)) EXCEPT
                      !.ind[k].size = 0, !.ind[k].blocks = 0]
             e3 == [e2 EXCEPT !.ind[ridx].size = @ - 1]
             y == RemoveDir(e, ridx, p, k)
  <2>1. y = IF ci.size # 2 THEN [e |-> e, ret |-> 1]
            ELSE IF ci.blocks # 1 THEN [e |-> Wild(e), ret |-> 1]
            ELSE [e |-> e3, ret |-> 0]
    BY Zenon DEF RemoveDir
  <2> HIDE DEF ci, pa, e1, e2, e3, y
  <2>2. y.ret # 0 => y.e \in {e, Wild(e)}
    BY <2>1
  <2> QED
    BY <2>2 DEF y
<1> HIDE DEF x
<1>4. x.ret # 0
  BY DEF x
<1>5. \/ x = [e |-> e, ret |-> 1] \/ x = [e |-> Wild(e), ret |-> 1]
      \/ x = RemoveDir(e, ridx, p, k) \/ x = RemoveFile(e, ridx, p, k)
  BY <1>1
<1>6. x.e \in {e, Wild(e)}
  BY <1>2, <1>3, <1>4, <1>5
<1> QED
  BY <1>6 DEF x

\* A removal on the disk (ext2fs.c:405-462).
LEMMA KeptRemove ==
  ASSUME NEW e, NEW ridx, NEW name, NEW mode, ext2_remove(e, ridx, name, mode).ret = 0,
         NEW h, RemoveHarm(e, ext2_remove(e, ridx, name, mode).e, ridx, name) \subseteq h
  PROVE  Kept(e, ext2_remove(e, ridx, name, mode).e, h)
<1> DEFINE x == ext2_remove(e, ridx, name, mode)
           f == x.e
           S == Named(e, e.ind[ridx], name)
           p == FirstPlace(S)
           k == EntryAt(e, e.ind[ridx], p).inode
           at == e.ind[ridx].block[p[1]]
<1> SUFFICES ASSUME "astray" \notin h, DiskInv(e)
             PROVE  /\ DiskInv(f)
                    /\ "smash" \notin h =>
                         \A t, half : TextInv(e, t, half) => TextInv(f, t, half)
  BY DEF Kept
<1>1. /\ Astray(e, ridx, "DIR") \subseteq h
      /\ k \notin e.inodemap => "astray" \in h
      /\ (\E b \in f.blockmap \ {at} : f.blk[b] # e.blk[b]) => "smash" \in h
  BY DEF RemoveHarm
<1>2. ridx \in e.inodemap /\ "DIR" \in e.ind[ridx].mode /\ k \in e.inodemap
  BY <1>1, NotAstray
<1>3. DiskInv(f) /\ Dropped(e, f, ridx, k)
  BY <1>2, RemoveKeeps
<1>4. S # {}
  <2>1. CASE S = {}
    <3>1. x = [e |-> e, ret |-> 1]
      BY <2>1 DEF ext2_remove
    <3> QED
      BY <3>1
  <2> QED
    BY <2>1
<1>5. e \in Disk /\ ridx \in Inodes
  BY <1>2, DiskFields DEF DiskInv
<1>6. S \subseteq Nat \X Nat /\ S \subseteq Places(e.ind[ridx])
  BY <1>5, PlacesOf DEF Named
<1>7. p \in S
  BY <1>4, <1>6, FirstPlaceIn
<1>8. at \in Own(e.ind[ridx])
  <2>1. p \in (1 .. e.ind[ridx].blocks) \X (1 .. DirAmut)
    BY <1>6, <1>7 DEF Places
  <2>2. p[1] \in 1 .. e.ind[ridx].blocks
    BY <2>1
  <2> QED
    BY <2>2 DEF Own
<1> HIDE DEF x, f, S, p, k, at
<1>9. ASSUME "smash" \notin h, NEW t, NEW half, TextInv(e, t, half) PROVE TextInv(f, t, half)
  <2>1. \A b \in f.blockmap \ {at} : f.blk[b] = e.blk[b]
    BY <1>1, <1>9
  <2> QED
    BY <1>2, <1>3, <1>8, <1>9, <2>1, RemoveTexts
<1> QED
  BY <1>3, <1>9

\* A disk on which a call failed is not written back.
LEMMA OnDiskIs ==
  ASSUME NEW s, IsSt(s), NEW e
  PROVE  /\ IsSt(OnDisk(s, e)) /\ OnDisk(s, e).harm = s.harm
         /\ Good(OnDisk(s, e)) => ~ e.wild /\ OnDisk(s, e).e = e
<1> DEFINE t == [s EXCEPT !.e = e]
<1>1. t = MkSt(s.v, e, s.fault, s.r, s.harm)
  BY StDisk
<1> HIDE DEF t
<1>2. IsSt(t) /\ t.harm = s.harm /\ t.e = e
  BY <1>1, StFields
<1>3. CASE e.wild
  <2>1. OnDisk(s, e) = Fail(s, "wild")
    BY <1>3 DEF OnDisk
  <2>2. Fail(s, "wild") = MkSt(s.v, s.e, "wild", s.r, s.harm)
    BY StFail
  <2> QED
    BY <2>1, <2>2, StFields DEF Good
<1>4. CASE ~ e.wild
  <2>1. OnDisk(s, e) = t
    BY <1>4 DEF OnDisk, t
  <2> QED
    BY <1>2, <1>4, <2>1
<1> QED
  BY <1>3, <1>4

\* A command that changes the table only.
LEMMA DoesTable ==
  ASSUME NEW s, NEW t, Same(s, t) \/ Adds(s, t)
  PROVE  Does(s.e, t)
BY DoesSame DEF Same, Adds

\* A command that comes after lookups.
LEMMA DoesAfter ==
  ASSUME NEW s, NEW t, Same(s, t) \/ Adds(s, t), NEW u, Does(t.e, u)
  PROVE  Does(s.e, u)
BY DEF Same, Adds

\* Two steps that change the table only.
LEMMA AddsTwice ==
  ASSUME NEW s, NEW t, NEW u, Same(s, t) \/ Adds(s, t), Same(t, u) \/ Adds(t, u)
  PROVE  Adds(s, u)
BY DEF Same, Adds

\* The end of vfs_create.
LEMMA CreateEnd ==
  ASSUME NEW p, IsSt(p), NEW k, NEW n, NEW h
  PROVE  LET t == [p EXCEPT !.v[k].ridx = n, !.harm = @ \cup h] IN
         Adds(p, t) /\ h \subseteq t.harm
<1> DEFINE v1 == [p.v EXCEPT ![k].ridx = n]
           h1 == p.harm \cup h
           t == [p EXCEPT !.v[k].ridx = n, !.harm = @ \cup h]
           q == [p EXCEPT !.v = v1]
<1>1. q = MkSt(v1, p.e, p.fault, p.r, p.harm)
  BY StTable
<1>2. t = [q EXCEPT !.harm = @ \cup h]
  OBVIOUS
<1> HIDE DEF v1, q, t
<1>3. IsSt(q) /\ q.harm = p.harm /\ q.e = p.e
  BY <1>1, StFields
<1>4. [q EXCEPT !.harm = @ \cup h] = [q EXCEPT !.harm = h1]
  BY <1>3
<1>5. [q EXCEPT !.harm = h1] = MkSt(q.v, q.e, q.fault, q.r, h1)
  BY <1>3, StHarm
<1>6. IsSt(t) /\ t.e = p.e /\ t.harm = h1
  BY <1>2, <1>3, <1>4, <1>5, StFields
<1>7. Adds(p, t) /\ h \subseteq t.harm
  BY <1>6 DEF Adds
<1> QED
  BY <1>7 DEF t

\* mkdir's call (vfs.c:478-503).
LEMMA CreateDoes ==
  ASSUME NEW s, IsSt(s), NEW path \in AllPaths
  PROVE  Does(s.e, vfs_create(s, path))
<1> DEFINE w == lookup_auto(s, Front(path))
           d == w.v[w.r]
           c == ext2_create(w.e, d.ridx, Last(path), DirMode)
           u == OnDisk(w, c.e)
           a == append_dir(u, w.r, Last(path), DirMode, d.fs)
           p == prepare_dir(a, a.r, w.r, d.fs)
           h == Astray(w.e, d.ridx, "DIR")
           t == [p EXCEPT !.v[a.r].ridx = c.n, !.harm = @ \cup h]
           r == vfs_create(s, path)
<1>1. r = IF Good(w)
          THEN IF w.r = None THEN Fail(w, "index")
               ELSE IF d.fs # "EXT2FS" THEN w
               ELSE IF Good(u)
                    THEN IF Good(a) THEN IF Good(p) THEN t ELSE p ELSE a
                    ELSE u
          ELSE w
  BY Zenon DEF vfs_create, InDir, Then
<1>2. Same(s, w)
  BY LookupSame, PathEnds
<1>3. (Adds(p, t) /\ h \subseteq t.harm) \/ ~ IsSt(p)
  BY CreateEnd
<1> HIDE DEF t, r
<1>4. Last(path) \in Str
  BY PathEnds
<1>5. IsSt(w)
  BY <1>2 DEF Same
<1>6. Same(s, Fail(w, "index")) /\ Does(s.e, Fail(w, "index")) /\ Does(s.e, w)
  BY <1>2, <1>5, StSet, SameTwice, DoesTable
<1>7. IsSt(u) /\ u.harm = w.harm /\ (Good(u) => ~ c.e.wild /\ u.e = c.e)
  BY <1>5, OnDiskIs
<1>8. Same(u, a) /\ IsSt(a)
  <2>1. IsSt(u)
    BY <1>7
  <2> HIDE DEF w, d, c, u, p, h
  <2>2. Same(u, a)
    BY <2>1, AppendSame
  <2> HIDE DEF a
  <2> QED
    BY <2>2 DEF Same
<1> HIDE DEF a
<1>9. Same(a, p)
  BY <1>8, PrepareSame
<1> HIDE DEF p
<1>10. ASSUME Good(u), Good(a), Good(p) PROVE Does(s.e, t)
  <2>1. Adds(u, t) /\ h \subseteq t.harm
    BY <1>3, <1>8, <1>9, AddsTwice, SameTwice DEF Same
  <2>2. t.e = c.e /\ w.e = s.e /\ IsSt(t)
    BY <1>2, <1>7, <1>10, <2>1 DEF Same, Adds
  <2>3. Kept(w.e, c.e, t.harm)
    BY <1>4, <1>7, <1>10, <2>1, KeptCreate
  <2> QED
    BY <2>2, <2>3 DEF Does
<1>11. (~ Good(p) => Does(s.e, p)) /\ (~ Good(a) => Does(s.e, a)) /\ (~ Good(u) => Does(s.e, u))
  BY <1>7, <1>8, <1>9 DEF Does, Same
<1> HIDE DEF w, d, c, u, h
<1>12. Does(s.e, r)
  BY <1>1, <1>6, <1>10, <1>11
<1> QED
  BY <1>12 DEF r

\* The end of vfs_remove.
LEMMA RemovedDoes ==
  ASSUME NEW w, IsSt(w), NEW idx, NEW name, NEW mode
  PROVE  Does(w.e, Removed(w, idx, name, ext2_remove(w.e, w.v[w.r].ridx, name, mode)))
<1> DEFINE ridx == w.v[w.r].ridx
           x == ext2_remove(w.e, ridx, name, mode)
           u == OnDisk(w, x.e)
           h == RemoveHarm(w.e, x.e, ridx, name)
           t == [u EXCEPT !.harm = @ \cup h]
           q == remove_dir(t, idx, w.r)
           r == Removed(w, idx, name, x)
<1>1. r = IF x.ret # 0 THEN u ELSE q
  BY Zenon DEF Removed
<1>2. IsSt(u) /\ u.harm = w.harm /\ (Good(u) => ~ x.e.wild /\ u.e = x.e)
  BY OnDiskIs
<1>3. CASE x.ret # 0
  <2>1. x.e \in {w.e, Wild(w.e)}
    BY <1>3, RemoveNot
  <2>2. ASSUME Good(u) PROVE Kept(w.e, u.e, u.harm)
    <3>1. CASE x.e = w.e
      BY <1>2, <2>2, <3>1, KeptSame
    <3>2. CASE x.e = Wild(w.e)
      <4>1. ~ Wild(w.e).wild
        BY <1>2, <2>2, <3>2
      <4>2. ~ DiskInv(w.e)
        BY <4>1, WildIs DEF DiskInv
      <4> QED
        BY <4>2 DEF Kept
    <3> QED
      BY <2>1, <3>1, <3>2
  <2> QED
    BY <1>1, <1>2, <1>3, <2>2 DEF Does
<1>4. CASE x.ret = 0
  <2> DEFINE h1 == u.harm \cup h
  <2>1. t = [u EXCEPT !.harm = h1]
    OBVIOUS
  <2>0. h \subseteq h1
    OBVIOUS
  <2> HIDE DEF h1, u, h
  <2>2. t = MkSt(u.v, u.e, u.fault, u.r, h1)
    BY <1>2, <2>1, StHarm
  <2> HIDE DEF t
  <2>3. IsSt(t) /\ t.e = u.e /\ t.harm = h1 /\ t.fault = u.fault
    BY <2>2, StFields
  <2>4. Adds(t, q)
    BY <2>3, RemoveAdds
  <2>5. CASE Good(u)
    <3>1. Kept(w.e, x.e, t.harm)
      BY <1>4, <2>0, <2>3, KeptRemove DEF h
    <3>2. Kept(w.e, t.e, t.harm)
      BY <1>2, <2>3, <2>5, <3>1
    <3>3. Does(w.e, q)
      BY <2>4, <3>2, DoesAdds
    <3> QED
      BY <1>1, <1>4, <3>3
  <2>6. CASE ~ Good(u)
    <3>1. ~ Good(t)
      BY <2>3, <2>6 DEF Good
    <3>2. q = t
      BY <3>1 DEF remove_dir
    <3> QED
      BY <1>1, <1>4, <2>3, <3>1, <3>2 DEF Does
  <2> QED
    BY <2>5, <2>6
<1> QED
  BY <1>3, <1>4

\* rmdir's call, which unlink makes too (vfs.c:505-532).
LEMMA RemoveDoes ==
  ASSUME NEW s, IsSt(s), NEW path \in AllPaths
  PROVE  Does(s.e, vfs_remove(s, path))
<1> DEFINE name == Last(path)
           mode == IF name \in Dotted THEN FileMode ELSE DirMode
           n == lookup_auto(s, path)
           w == lookup_auto(n, Front(path))
           x == Removed(w, n.r, name, ext2_remove(w.e, w.v[w.r].ridx, name, mode))
           r == vfs_remove(s, path)
<1>1. r = IF Good(n)
          THEN IF Good(w)
               THEN IF w.r = None THEN Fail(w, "index")
                    ELSE IF w.v[w.r].fs # "EXT2FS" THEN w ELSE x
               ELSE w
          ELSE n
  BY Zenon DEF vfs_remove, InDir, Then
<1>2. Same(s, n) /\ IsSt(n)
  BY LookupSame, PathEnds DEF Same
<1>3. Same(n, w) /\ IsSt(w)
  BY <1>2, LookupSame, PathEnds DEF Same
<1>4. Same(s, w)
  BY <1>2, <1>3, SameTwice
<1>5. Does(s.e, n) /\ Does(s.e, w) /\ Same(w, Fail(w, "index")) /\ Does(w.e, x)
  BY <1>2, <1>3, <1>4, DoesTable, RemovedDoes, StSet
<1>6. Does(s.e, x) /\ Does(s.e, Fail(w, "index"))
  BY <1>4, <1>5, DoesAfter, SameTwice, DoesTable
<1> HIDE DEF n, w, x, r, name, mode
<1>7. Does(s.e, r)
  BY <1>1, <1>5, <1>6
<1> QED
  BY <1>7 DEF r

\* link's call (vfs.c:534-550).
LEMMA LinkDoes ==
  ASSUME NEW s, IsSt(s), NEW oldpath \in AllPaths, NEW newpath \in AllPaths
  PROVE  Does(s.e, vfs_link(s, oldpath, newpath))
<1> DEFINE o == lookup_auto(s, oldpath)
           n == lookup_auto(o, newpath)
           w == lookup_auto(n, Front(newpath))
           a == append_dir(w, w.r, Last(newpath), {"LINK"}, "VFS")
           v1 == add_link(a.v, o.r, a.r)
           t == [a EXCEPT !.v = v1]
           r == vfs_link(s, oldpath, newpath)
<1>1. r = IF Good(o)
          THEN IF o.r = None THEN o
               ELSE IF Good(n)
                    THEN IF n.r # None THEN n
                         ELSE IF Good(w)
                              THEN IF w.r = None THEN Fail(w, "index")
                                   ELSE IF Good(a) THEN t ELSE a
                              ELSE w
                    ELSE n
          ELSE o
  BY Zenon DEF vfs_link, InDir, Then
<1>2. Same(s, o) /\ IsSt(o)
  BY LookupSame, PathEnds DEF Same
<1>3. Same(o, n) /\ IsSt(n)
  BY <1>2, LookupSame, PathEnds DEF Same
<1>4. Same(n, w) /\ IsSt(w)
  BY <1>3, LookupSame, PathEnds DEF Same
<1>5. Same(w, Fail(w, "index")) /\ Same(w, a)
  BY <1>4, StSet, AppendSame
<1> HIDE DEF v1, a
<1>6. Same(a, t)
  <2>1. IsSt(a)
    BY <1>5 DEF Same
  <2> QED
    BY <2>1, StSet
<1> HIDE DEF o, n, w, t, r
<1>7. Same(s, r)
  <2>1. Same(s, n)
    BY <1>2, <1>3, SameTwice
  <2>2. Same(s, w)
    BY <1>4, <2>1, SameTwice
  <2>3. Same(s, a) /\ Same(s, Fail(w, "index"))
    BY <1>5, <2>2, SameTwice
  <2>4. Same(s, t)
    BY <1>6, <2>3, SameTwice
  <2> QED
    BY <1>1, <1>2, <2>1, <2>2, <2>3, <2>4
<1>8. Does(s.e, r)
  BY <1>7, DoesTable
<1> QED
  BY <1>8 DEF r

\* What unlink does with the vinode (vfs.c:557-580).
LEMMA UnlinkChildDoes ==
  ASSUME NEW w, IsSt(w), NEW k, NEW path \in AllPaths
  PROVE  Does(w.e, UnlinkChild(w, k, path))
<1> DEFINE v == w.v
           l == v[k].prev_link
           moved == [v EXCEPT ![l].mode = v[k].mode, ![l].ridx = v[k].ridx,
                              ![l].fs = v[k].fs]
           how   == {"moved"} \cup (IF Children(v, k) = <<>> THEN {} ELSE {"hollow"})
           v1 == remove_link(v, k)
           v2 == remove_link(moved, k)
           h2 == w.harm \cup how
           a == [w EXCEPT !.v = v1]
           b == [w EXCEPT !.v = v2, !.harm = h2]
           b1 == [w EXCEPT !.v = v2, !.harm = @ \cup how]
           r == UnlinkChild(w, k, path)
<1>1. r = IF k = None THEN w
          ELSE IF v[k].name \in {".", ".."} THEN Fail(w, "assert")
          ELSE IF "LINK" \in v[k].mode THEN remove_dir(a, k, w.r)
          ELSE IF l # k THEN remove_dir(b1, k, w.r)
          ELSE vfs_remove(w, path)
  BY Zenon DEF UnlinkChild
<1>0. w.harm \subseteq h2
  OBVIOUS
<1> HIDE DEF moved, v1, v2, r, v, l
<1>2. b1 = b
  <2> HIDE DEF how
  <2> QED
    OBVIOUS
<1> HIDE DEF b1, h2, how
<1>3. Same(w, a) /\ IsSt(a)
  BY StSet DEF Same
<1>4. b = MkSt(v2, w.e, w.fault, w.r, h2)
  BY StTableHarm
<1> HIDE DEF a, b
<1>5. Adds(w, b) /\ IsSt(b)
  BY <1>0, <1>4, StFields DEF Adds
<1>6. Adds(a, remove_dir(a, k, w.r)) /\ Adds(b, remove_dir(b, k, w.r))
  BY <1>3, <1>5, RemoveAdds
<1>7. Adds(w, remove_dir(a, k, w.r)) /\ Adds(w, remove_dir(b, k, w.r))
  BY <1>3, <1>5, <1>6, AddsTwice
<1>8. /\ Does(w.e, remove_dir(a, k, w.r)) /\ Does(w.e, remove_dir(b, k, w.r))
      /\ Does(w.e, w) /\ Does(w.e, vfs_remove(w, path))
  BY <1>7, DoesTable, DoesSame, RemoveDoes
<1>8a. Does(w.e, Fail(w, "assert"))
  BY StSet, DoesTable
<1>9. Does(w.e, r)
  BY <1>1, <1>2, <1>8, <1>8a
<1> QED
  BY <1>9 DEF r

\* unlink's call (vfs.c:552-582).
LEMMA UnlinkDoes ==
  ASSUME NEW s, IsSt(s), NEW path \in AllPaths
  PROVE  Does(s.e, vfs_unlink(s, path))
<1> DEFINE w == lookup_auto(s, Front(path))
           x == UnlinkChild(w, NamedChild(w.v, w.r, Last(path)), path)
           r == vfs_unlink(s, path)
<1>1. r = IF Good(w) THEN IF w.r = None THEN Fail(w, "index") ELSE x ELSE w
  BY Zenon DEF vfs_unlink, InDir, Then
<1>2. Same(s, w) /\ IsSt(w)
  BY LookupSame, PathEnds DEF Same
<1>3. Does(w.e, x) /\ Same(w, Fail(w, "index")) /\ Does(s.e, w)
  BY <1>2, UnlinkChildDoes, StSet, DoesTable
<1> HIDE DEF w, x, r
<1>4. Does(s.e, x) /\ Does(s.e, Fail(w, "index"))
  BY <1>2, <1>3, DoesAfter, SameTwice, DoesTable
<1>5. Does(s.e, r)
  BY <1>1, <1>3, <1>4
<1> QED
  BY <1>5 DEF r

\* The modes that mount takes and unmount gives back.
TakeMode(s, k, x) == [s EXCEPT !.v[k].mode = @ \ {x}]
GiveMode(s, k, x) == [s EXCEPT !.v[k].mode = @ \cup {x}]

\* Changes within a vinode are changes of the table.
LEMMA ModeSame ==
  ASSUME NEW s, IsSt(s), NEW k, NEW x
  PROVE  Same(s, TakeMode(s, k, x)) /\ Same(s, GiveMode(s, k, x))
<1> DEFINE a == [s.v EXCEPT ![k].mode = @ \ {x}]
           b == [s.v EXCEPT ![k].mode = @ \cup {x}]
<1>1. TakeMode(s, k, x) = [s EXCEPT !.v = a]
  BY DEF TakeMode
<1>2. GiveMode(s, k, x) = [s EXCEPT !.v = b]
  BY DEF GiveMode
<1> HIDE DEF a, b
<1>3. Same(s, [s EXCEPT !.v = a]) /\ Same(s, [s EXCEPT !.v = b])
  BY StSet
<1> QED
  BY <1>1, <1>2, <1>3

\* The same of the other two fields that mount sets.
LEMMA MountFields ==
  ASSUME NEW s, IsSt(s), NEW k, NEW x
  PROVE  Same(s, [s EXCEPT !.v[k].linkcnt = x]) /\ Same(s, [s EXCEPT !.v[k].ridx = x])
<1>1. /\ [s EXCEPT !.v[k].linkcnt = x] = [s EXCEPT !.v = [s.v EXCEPT ![k].linkcnt = x]]
      /\ [s EXCEPT !.v[k].ridx = x] = [s EXCEPT !.v = [s.v EXCEPT ![k].ridx = x]]
  OBVIOUS
<1> DEFINE a == [s.v EXCEPT ![k].linkcnt = x]
           b == [s.v EXCEPT ![k].ridx = x]
<1> HIDE DEF a, b
<1>2. Same(s, [s EXCEPT !.v = a]) /\ Same(s, [s EXCEPT !.v = b])
  BY StSet
<1> QED
  BY <1>1, <1>2 DEF a, b

\* The end of vfs_mount.
MountEnd(a, f) ==
  [a EXCEPT !.v[f].mode = @ \ {"MNT_ABLE"},
            !.v[a.r].linkcnt = f, !.v[a.r].ridx = EXT2_ROOT]

\* It changes the table only.
LEMMA MountEndSame ==
  ASSUME NEW a, IsSt(a), NEW f
  PROVE  Same(a, MountEnd(a, f))
<1> DEFINE n == a.r
           b == TakeMode(a, f, "MNT_ABLE")
           c == [b EXCEPT !.v[n].linkcnt = f]
           d == [c EXCEPT !.v[n].ridx = EXT2_ROOT]
<1>1. MountEnd(a, f) = d
  BY DEF MountEnd, TakeMode
<1>2. Same(a, b)
  BY ModeSame
<1> HIDE DEF b, n
<1>3. IsSt(b)
  BY <1>2 DEF Same
<1>4. Same(b, c)
  BY <1>3, MountFields
<1> HIDE DEF c
<1>5. IsSt(c)
  BY <1>4 DEF Same
<1>6. Same(c, d)
  BY <1>5, MountFields
<1> HIDE DEF d
<1> QED
  BY <1>1, <1>2, <1>4, <1>6, SameTwice

\* mount's call (vfs.c:431-456) changes the table only.
LEMMA MountSame ==
  ASSUME NEW s, IsSt(s), NEW filename, Len(filename) \in Nat, NEW dirname \in AllPaths
  PROVE  Same(s, vfs_mount(s, filename, dirname))
<1> DEFINE f == Access(s, filename, {"FILE", "MNT_ABLE"})
           x == Access(f, dirname, {"DIR"})
           w == lookup_auto(x, Front(dirname))
           a == append_dir(w, w.r, Last(dirname), {"DIR", "UNMNT_ABLE"}, w.v[f.r].fs)
           t == MountEnd(a, f.r)
           r == vfs_mount(s, filename, dirname)
<1>1. r = IF Good(f)
          THEN IF f.r = None THEN f
               ELSE IF Good(x)
                    THEN IF x.r # None THEN x
                         ELSE IF Good(w)
                              THEN IF w.r = None THEN Fail(w, "index")
                                   ELSE IF Good(a) THEN t ELSE a
                              ELSE w
                    ELSE x
          ELSE f
  BY Zenon DEF vfs_mount, InDir, Then, MountEnd
<1>2. Same(s, f) /\ IsSt(f)
  BY AccessSame DEF Same
<1>3. Same(f, x) /\ IsSt(x)
  BY <1>2, AccessSame, PathEnds DEF Same
<1>4. Same(x, w) /\ IsSt(w)
  BY <1>3, LookupSame, PathEnds DEF Same
<1>5. Same(w, Fail(w, "index")) /\ Same(w, a)
  BY <1>4, StSet, AppendSame
<1> HIDE DEF a
<1>6. Same(a, t)
  <2>1. IsSt(a)
    BY <1>5 DEF Same
  <2> QED
    BY <2>1, MountEndSame
<1> HIDE DEF f, x, w, t, r
<1>7. Same(s, x)
  BY <1>2, <1>3, SameTwice
<1>8. Same(s, w)
  BY <1>4, <1>7, SameTwice
<1>9. Same(s, a) /\ Same(s, Fail(w, "index"))
  BY <1>5, <1>8, SameTwice
<1>10. Same(s, t)
  BY <1>6, <1>9, SameTwice
<1>11. Same(s, r)
  BY <1>1, <1>2, <1>7, <1>8, <1>9, <1>10
<1> QED
  BY <1>11 DEF r

\* unmount's call (vfs.c:458-473) changes the table only.
LEMMA UnmountDoes ==
  ASSUME NEW s, IsSt(s), NEW path \in AllPaths
  PROVE  Does(s.e, vfs_unmount(s, path))
<1> DEFINE i == Access(s, path, {"DIR", "UNMNT_ABLE"})
           w == lookup_auto(i, Front(path))
           u == [w EXCEPT !.v[w.v[i.r].linkcnt].mode = @ \cup {"MNT_ABLE"}]
           t == remove_dir(u, i.r, w.r)
           r == vfs_unmount(s, path)
<1>1. r = IF Good(i)
          THEN IF i.r = None THEN i
               ELSE IF Good(w) THEN IF w.r = None THEN Fail(w, "index") ELSE t
                    ELSE w
          ELSE i
  BY Zenon DEF vfs_unmount, InDir, Then
<1>2. Same(s, i) /\ IsSt(i)
  BY AccessSame, PathEnds DEF Same
<1>3. Same(i, w) /\ IsSt(w)
  BY <1>2, LookupSame, PathEnds DEF Same
<1> HIDE DEF i, w, r
<1>4. Same(w, u)
  <2> DEFINE m == w.v[i.r].linkcnt
  <2> HIDE DEF m
  <2>1. Same(w, GiveMode(w, m, "MNT_ABLE"))
    BY <1>3, ModeSame
  <2>2. GiveMode(w, m, "MNT_ABLE") = u
    BY DEF GiveMode, m
  <2> HIDE DEF u
  <2> QED
    BY <2>1, <2>2
<1> HIDE DEF u
<1>5. Same(s, w) /\ Same(w, Fail(w, "index")) /\ Adds(u, t)
  <2>1. IsSt(u)
    BY <1>4 DEF Same
  <2> QED
    BY <1>2, <1>3, <2>1, SameTwice, StSet, RemoveAdds
<1>6. Adds(s, t) /\ Same(s, Fail(w, "index"))
  <2>1. Same(s, u)
    BY <1>4, <1>5, SameTwice
  <2> QED
    BY <1>5, <2>1, SameTwice, AddsTwice
<1> HIDE DEF t
<1>7. Does(s.e, r)
  BY <1>1, <1>2, <1>5, <1>6, DoesTable
<1> QED
  BY <1>7 DEF r

\* A fresh state.
LEMMA StIs ==
  ASSUME NEW v, NEW e
  PROVE  IsSt(St(v, e)) /\ St(v, e).e = e
<1>1. St(v, e) = MkSt(v, e, "none", None, {})
  BY DEF St, MkSt
<1> QED
  BY <1>1, StFields

\* Building the tree leaves the new disk alone (vfs.c:380-406).
LEMMA BootDisk ==
  ASSUME NEW where \in MountPaths
  PROVE  vfs_init(where).e = ext2_init(Hello, Label, Text)
<1> DEFINE e == ext2_init(Hello, Label, Text)
           boot == St(build_root, e)
           d == append_dir(boot, VFS_ROOT, "dev", {"DIR"}, "VFS")
           p == prepare_dir(d, d.r, VFS_ROOT, "VFS")
           f == append_dir(p, d.r, Last(Device), {"FILE", "MNT_ABLE"}, "EXT2FS")
           m == vfs_mount(f, Device, where)
           r == vfs_init(where)
<1>1. r = IF Good(d) THEN IF Good(p) THEN IF Good(f) THEN m ELSE f ELSE p ELSE d
  BY Zenon DEF vfs_init, Then
<1>2. IsSt(boot) /\ boot.e = e
  BY StIs
<1> HIDE DEF boot, e
<1>3. Same(boot, d)
  BY <1>2, AppendSame
<1>4. IsSt(d)
  BY <1>3 DEF Same
<1> HIDE DEF d
<1>5. Same(d, p)
  BY <1>4, PrepareSame
<1>6. IsSt(p)
  BY <1>5 DEF Same
<1> HIDE DEF p
<1>7. Same(p, f)
  BY <1>6, AppendSame
<1>8. IsSt(f)
  BY <1>7 DEF Same
<1>9. Len(Device) \in Nat /\ where \in AllPaths
  BY DEF Device, AllPaths
<1> HIDE DEF f
<1>10. Same(f, m)
  BY <1>8, <1>9, MountSame
<1> HIDE DEF m, r
<1>11. r.e = boot.e
  BY <1>1, <1>3, <1>5, <1>7, <1>10 DEF Same
<1> QED
  BY <1>2, <1>11 DEF r, e

(***************************************************************************)
(* The inductive invariant.  Unless a call went astray the disk is in      *)
(* order; unless one also wrote over a block, the files hold what was      *)
(* written.  For the writes to be what they seem, the offset of a file     *)
(* opened for writing is a number.                                         *)
(***************************************************************************)
IsOpen(f) ==
  /\ f = [vinode |-> f.vinode, mode |-> f.mode, offset |-> f.offset, inode |-> f.inode]
  /\ "WR" \in f.mode => f.offset \in Nat

FilesInv == (\E S : files \in Seq(S)) /\ \A f \in DOMAIN files : IsOpen(files[f])
WantInv == \E S : want \in [Inodes -> S]
BooksInv == Unless({"astray"}) => DiskInv(disk)
TextsInv == Unless({"astray", "smash"}) => TextInv(disk, want, "half" \in harm)
Inv == FilesInv /\ WantInv /\ BooksInv /\ TextsInv

\* The system starts so.
LEMMA InitInv == Init => Inv
<1> SUFFICES ASSUME Init PROVE Inv
  OBVIOUS
<1> DEFINE e == ext2_init(Hello, Label, Text)
<1>1. disk = e
  BY BootDisk, VfsConstants DEF Init
<1>2. /\ want = [i \in Inodes |-> IF "FILE" \in disk.ind[i].mode THEN Text ELSE <<>>]
      /\ files = <<>> /\ harm = {}
  BY DEF Init
<1>3. DiskInv(e) /\ TextInv(e, Written(e), FALSE)
  BY InitDisk
<1> HIDE DEF e
<1>4. want = Written(e)
  BY <1>1, <1>2 DEF Written
<1>5. FilesInv
  <2>1. files \in Seq({})
    BY <1>2
  <2>2. DOMAIN files = {}
    BY <1>2
  <2> QED
    BY <2>1, <2>2 DEF FilesInv
<1>6. WantInv
  <2>1. want \in [Inodes -> {Text, <<>>}]
    BY <1>2
  <2> QED
    BY <2>1 DEF WantInv
<1>7. ("half" \in harm) = FALSE
  BY <1>2
<1>8. TextInv(disk, want, "half" \in harm)
  BY <1>1, <1>3, <1>4, <1>7
<1> QED
  BY <1>1, <1>3, <1>5, <1>6, <1>8 DEF Inv, BooksInv, TextsInv

\* Once a write has lost cells, less is asked.
LEMMA TextHalf ==
  ASSUME NEW e, NEW t, NEW half, TextInv(e, t, half), NEW h, half => h
  PROVE  TextInv(e, t, h)
BY DEF TextInv, TextOf

\* A command.
LEMMA CommandKeeps ==
  ASSUME Inv, NEW s, Does(disk, s), Command(s)
  PROVE  Inv'
<1>1. files' = files /\ want' = want
  BY DEF Command
<1>2. FilesInv' /\ WantInv'
  BY <1>1 DEF Inv, FilesInv, WantInv, IsOpen
<1>3. CASE Good(s)
  <2>1. disk' = s.e /\ harm' = harm \cup s.harm \cup Pulled(s) /\ Kept(disk, s.e, s.harm)
    BY <1>3 DEF Command, Does
  <2>2. BooksInv'
    BY <2>1 DEF Inv, BooksInv, Unless, Kept
  <2>3. TextsInv'
    <3> SUFFICES ASSUME Unless({"astray", "smash"})'
                 PROVE  TextInv(disk', want, "half" \in harm')
      BY <1>1 DEF TextsInv
    <3>1. /\ "astray" \notin harm \cup s.harm /\ "smash" \notin harm \cup s.harm
          /\ "half" \in harm => "half" \in harm'
      BY <2>1 DEF Unless
    <3>2. DiskInv(disk) /\ TextInv(disk, want, "half" \in harm)
      BY <3>1 DEF Inv, BooksInv, TextsInv, Unless
    <3> DEFINE h == "half" \in harm
               h2 == "half" \in harm'
    <3> HIDE DEF h, h2
    <3>3. TextInv(disk', want, h)
      BY <2>1, <3>1, <3>2 DEF Kept, h
    <3>4. TextInv(disk', want, h2)
      BY <3>1, <3>3, TextHalf DEF h, h2
    <3> QED
      BY <3>4 DEF h2
  <2> QED
    BY <1>2, <2>2, <2>3 DEF Inv
<1>4. CASE ~ Good(s)
  <2>1. disk' = disk /\ harm' = harm
    BY <1>4 DEF Command
  <2> QED
    BY <1>1, <1>2, <2>1 DEF Inv, BooksInv, TextsInv, Unless
<1> QED
  BY <1>3, <1>4

\* Every command but those of files.
LEMMA CommandDoes ==
  ASSUME NEW p \in AllPaths, NEW o \in AllPaths
  PROVE  /\ mkdir_do(p) => \E s : Does(disk, s) /\ Command(s)
         /\ rmdir_do(p) => \E s : Does(disk, s) /\ Command(s)
         /\ link_do(o, p) => \E s : Does(disk, s) /\ Command(s)
         /\ unlink_do(p) => \E s : Does(disk, s) /\ Command(s)
         /\ mount_do(p) => \E s : Does(disk, s) /\ Command(s)
         /\ unmount_do(p) => \E s : Does(disk, s) /\ Command(s)
         /\ ls_do(p) => \E s : Does(disk, s) /\ Command(s)
<1>1. IsSt(Now) /\ Now.e = disk
  BY StIs DEF Now
<1>2. mkdir_do(p) => \E s : Does(disk, s) /\ Command(s)
  <2> DEFINE a == Access(Now, p, {"DIR"})
             s == IF Good(a) THEN IF a.r # None THEN a ELSE vfs_create(a, p) ELSE a
  <2>1. mkdir_do(p) => Command(s)
    BY Zenon DEF mkdir_do, Then
  <2>2. Same(Now, a)
    BY <1>1, AccessSame, PathEnds
  <2> HIDE DEF a
  <2>3. Does(disk, a)
    BY <1>1, <2>2, DoesTable
  <2>4. Does(disk, vfs_create(a, p))
    <3>1. IsSt(a) /\ a.e = disk
      BY <1>1, <2>2 DEF Same
    <3> QED
      BY <3>1, CreateDoes
  <2>5. Does(disk, s)
    BY <2>3, <2>4
  <2> HIDE DEF s
  <2> QED
    BY <2>1, <2>5
<1>3. rmdir_do(p) => \E s : Does(disk, s) /\ Command(s)
  <2> DEFINE a == Access(Now, p, {"DIR"})
  <2>1. Same(Now, a)
    BY <1>1, AccessSame, PathEnds
  <2>2. IsSt(a) /\ a.e = disk
    BY <1>1, <2>1 DEF Same
  <2>3. Does(disk, vfs_remove(a, p))
    BY <2>2, RemoveDoes
  <2>4. rmdir_do(p) => Command(vfs_remove(a, p))
    BY DEF rmdir_do
  <2> QED
    BY <2>3, <2>4
<1>4. link_do(o, p) => \E s : Does(disk, s) /\ Command(s)
  BY <1>1, LinkDoes DEF link_do
<1>5. unlink_do(p) => \E s : Does(disk, s) /\ Command(s)
  BY <1>1, UnlinkDoes DEF unlink_do
<1>6. mount_do(p) => \E s : Does(disk, s) /\ Command(s)
  <2>1. Len(Device) \in Nat
    BY DEF Device
  <2>2. Same(Now, vfs_mount(Now, Device, p))
    BY <1>1, <2>1, MountSame
  <2>3. Does(disk, vfs_mount(Now, Device, p))
    BY <1>1, <2>2, DoesTable
  <2> QED
    BY <2>3 DEF mount_do
<1>7. unmount_do(p) => \E s : Does(disk, s) /\ Command(s)
  BY <1>1, UnmountDoes DEF unmount_do
<1>8. ls_do(p) => \E s : Does(disk, s) /\ Command(s)
  <2>1. Same(Now, lookup_auto(Now, p \o <<".">>))
    BY <1>1, LookupSame, PathEnds
  <2>2. Does(disk, lookup_auto(Now, p \o <<".">>))
    BY <1>1, <2>1, DoesTable
  <2> QED
    BY <2>2 DEF ls_do
<1> QED
  BY <1>2, <1>3, <1>4, <1>5, <1>6, <1>7, <1>8

\* A sequence that one more element is put at the end of.
LEMMA AppendIs ==
  ASSUME NEW S, NEW s \in Seq(S), NEW x
  PROVE  /\ \E T : Append(s, x) \in Seq(T)
         /\ \A i \in DOMAIN Append(s, x) :
              (i \in DOMAIN s /\ Append(s, x)[i] = s[i]) \/ Append(s, x)[i] = x
<1> DEFINE T == S \cup {x}
<1>1. s \in [1 .. Len(s) -> S] /\ Len(s) \in Nat
  OBVIOUS
<1>2. S \subseteq T /\ x \in T
  OBVIOUS
<1> HIDE DEF T
<1>3. s \in [1 .. Len(s) -> T]
  BY <1>1, <1>2
<1>4. s \in Seq(T)
  BY <1>1, <1>3, SeqDef
<1>5. Append(s, x) \in Seq(T)
  BY <1>2, <1>4
<1>6. \A i \in DOMAIN Append(s, x) :
        (i \in DOMAIN s /\ Append(s, x)[i] = s[i]) \/ Append(s, x)[i] = x
  BY <1>2, <1>4
<1> QED
  BY <1>5, <1>6

\* cat and "cat >" take a file (vfs.c:584-589).
LEMMA OpenKeeps ==
  ASSUME Inv, NEW p, NEW mode \in {{"FILE", "RD"}, {"FILE", "WR"}}, Open(p, mode)
  PROVE  Inv'
<1> DEFINE a == Access(Now, p, mode)
           vi == a.v[a.r]
           ok == Good(a) /\ a.r # None /\ Len(files) < MaxFile
           offset == IF "RD" \in mode
                     THEN Len(ext2_read(disk, vi.ridx, 0, NIndBlocks * BlkSize)) ELSE 0
           f == [vinode |-> a.r, mode |-> mode, offset |-> offset, inode |-> vi.ridx]
<1>1. /\ files' = IF ok THEN Append(files, f) ELSE files
      /\ disk' = disk /\ want' = want /\ harm' = harm
  BY DEF Open, Opened
<1>2. WantInv' /\ BooksInv' /\ TextsInv'
  BY <1>1 DEF Inv, WantInv, BooksInv, TextsInv, Unless
<1>3. IsOpen(f)
  <2>1. "WR" \in mode => offset = 0
    OBVIOUS
  <2> HIDE DEF offset, a, vi
  <2>2. f.mode = mode /\ f.offset = offset
    OBVIOUS
  <2>3. f = [vinode |-> f.vinode, mode |-> f.mode, offset |-> f.offset, inode |-> f.inode]
    OBVIOUS
  <2> HIDE DEF f
  <2> QED
    BY <2>1, <2>2, <2>3 DEF IsOpen
<1> HIDE DEF f, ok
<1>4. FilesInv'
  <2>1. PICK S : files \in Seq(S)
    BY DEF Inv, FilesInv
  <2>2. \A i \in DOMAIN files : IsOpen(files[i])
    BY DEF Inv, FilesInv
  <2>3. CASE ok
    <3>1. files' = Append(files, f)
      BY <1>1, <2>3
    <3>2. /\ \E T : files' \in Seq(T)
          /\ \A i \in DOMAIN files' :
               (i \in DOMAIN files /\ files'[i] = files[i]) \/ files'[i] = f
      BY <2>1, <3>1, AppendIs
    <3>3. \A i \in DOMAIN files' : IsOpen(files'[i])
      BY <1>3, <2>2, <3>2
    <3>4. FilesInv' <=> (\E T : files' \in Seq(T)) /\ \A i \in DOMAIN files' : IsOpen(files'[i])
      BY DEF FilesInv, IsOpen
    <3> QED
      BY <3>2, <3>3, <3>4
  <2>4. CASE ~ ok
    BY <1>1, <2>4 DEF Inv, FilesInv, IsOpen
  <2> QED
    BY <2>3, <2>4
<1> QED
  BY <1>2, <1>4 DEF Inv

\* A file whose offset moves.
LEMMA OffsetMoves ==
  ASSUME NEW S, NEW fs \in Seq(S), NEW f \in DOMAIN fs, \A i \in DOMAIN fs : IsOpen(fs[i]),
         NEW n, "WR" \in fs[f].mode => n \in Nat
  PROVE  LET gs == [fs EXCEPT ![f].offset = n] IN
         (\E T : gs \in Seq(T)) /\ \A i \in DOMAIN gs : IsOpen(gs[i])
<1> DEFINE x == [fs[f] EXCEPT !.offset = n]
           gs == [fs EXCEPT ![f].offset = n]
           T == S \cup {x}
<1>1. gs = [fs EXCEPT ![f] = x]
  OBVIOUS
<1>2. fs \in [1 .. Len(fs) -> S] /\ Len(fs) \in Nat /\ DOMAIN fs = 1 .. Len(fs)
  OBVIOUS
<1>3. S \subseteq T /\ x \in T
  OBVIOUS
<1>4. IsOpen(x)
  <2> DEFINE a == fs[f].vinode
             b == fs[f].mode
             c == fs[f].offset
             d == fs[f].inode
  <2>1. fs[f] = [vinode |-> a, mode |-> b, offset |-> c, inode |-> d]
    BY DEF IsOpen
  <2>2. "WR" \in b => n \in Nat
    OBVIOUS
  <2> HIDE DEF a, b, c, d
  <2>3. x = [vinode |-> a, mode |-> b, offset |-> n, inode |-> d]
    BY <2>1
  <2> HIDE DEF x
  <2>4. x.vinode = a /\ x.mode = b /\ x.offset = n /\ x.inode = d
    BY <2>3
  <2> QED
    BY <2>2, <2>3, <2>4 DEF IsOpen
<1> HIDE DEF x, T, gs
<1>5. gs \in [1 .. Len(fs) -> T] /\ DOMAIN gs = DOMAIN fs
  BY <1>1, <1>2, <1>3
<1>6. gs \in Seq(T)
  BY <1>2, <1>5, SeqDef
<1>7. \A i \in DOMAIN gs : gs[i] = x \/ gs[i] = fs[i]
  BY <1>1, <1>2, <1>5
<1>8. \A i \in DOMAIN gs : IsOpen(gs[i])
  BY <1>4, <1>5, <1>7
<1> QED
  BY <1>6, <1>8 DEF gs

\* What ext2_write returns.
LEMMA WriteReturns ==
  ASSUME NEW e, NEW ridx, NEW offset \in Nat, NEW buf, Len(buf) \in Nat
  PROVE  ext2_write(e, ridx, offset, buf).ret \in Nat
<1> DEFINE size == offset + Len(buf)
           ret  == CopiedOf(offset, Len(buf))
           e1   == Resize(e, ridx, Need(size))
           w    == [ridx |-> ridx, offset |-> offset, buf |-> buf, ret |-> ret]
           g    == [CopyAll(w, e1, offset \div BlkSize, Need(size)) EXCEPT
                      !.ind[ridx].size = size]
           x    == ext2_write(e, ridx, offset, buf)
<1>1. x = IF "WR" \notin e.ind[ridx].mode THEN [e |-> e, ret |-> 0]
          ELSE IF e1.wild THEN [e |-> e1, ret |-> 0]
          ELSE [e |-> g, ret |-> ret]
  BY Zenon DEF ext2_write
<1>2. ret \in 0 .. Len(buf)
  BY CopiedIs
<1> HIDE DEF e1, w, g, x, ret
<1>3. x.ret = 0 \/ x.ret = ret
  BY <1>1
<1>4. x.ret \in Nat
  BY <1>2, <1>3
<1> QED
  BY <1>4 DEF x

\* A text in the cells' alphabet.
LEMMA TextsAre ==
  ASSUME NEW text \in Texts
  PROVE  text \in Seq(Str) /\ Len(text) \in Nat
<1>1. text \in Seq(STRING)
  BY VfsConstants
<1> DEFINE S == STRING
<1>2. S \subseteq Str
  BY DEF Str
<1>3. text \in Seq(S)
  BY <1>1
<1> HIDE DEF S
<1>4. text \in [1 .. Len(text) -> S] /\ Len(text) \in Nat
  BY <1>3
<1>5. text \in [1 .. Len(text) -> Str]
  BY <1>2, <1>4
<1> QED
  BY <1>4, <1>5, SeqDef

\* A write that takes the inode for the file it is keeps the invariant of the disk and
\* of the texts (vfs.c:619-638).
LEMMA WriteDisk ==
  ASSUME NEW e, DiskInv(e), NEW ridx \in e.inodemap, "FILE" \in e.ind[ridx].mode,
         NEW off \in Nat, NEW text \in Texts, ~ ext2_write(e, ridx, off, text).e.wild
  PROVE  LET x == ext2_write(e, ridx, off, text) IN
         /\ DiskInv(x.e)
         /\ \A t, u, half : /\ TextInv(e, t, half)
                            /\ u[ridx] = Over(t[ridx], off, text)
                            /\ \A i \in Inodes \ {ridx} : u[i] = t[i]
                            => TextInv(x.e, u, half \/ x.ret < Len(text))
<1> DEFINE x == ext2_write(e, ridx, off, text)
           w == Writing(ridx, off, text, x.ret)
<1>1. text \in Seq(Str) /\ Len(text) \in Nat
  BY TextsAre
<1>2. e \in Disk /\ ridx \in Inodes /\ e.ind[ridx].mode \in Kinds
  <2>1. e \in Disk /\ ridx \in Inodes
    BY DiskFields DEF DiskInv
  <2> QED
    BY <2>1, DiskFields DEF Ind
<1>3. "WR" \in e.ind[ridx].mode
  <2> DEFINE mo == e.ind[ridx].mode
  <2>1. mo \in Kinds /\ "FILE" \in mo
    BY <1>2
  <2> HIDE DEF mo
  <2>2. "WR" \in mo
    BY <2>1 DEF Kinds, DirMode, FileMode
  <2> QED
    BY <2>2 DEF mo
<1>4. Wrote(e, x.e, w)
  BY <1>1, <1>3, WriteKeeps
<1> HIDE DEF x
<1>5. /\ w = [ridx |-> ridx, offset |-> off, buf |-> text, ret |-> x.ret]
      /\ w.ridx = ridx /\ w.offset = off /\ w.buf = text /\ w.ret = x.ret
  BY DEF Writing
<1> HIDE DEF w
<1>6. Writes(w)
  <2>1. w.ret \in 0 .. Len(w.buf)
    BY <1>4 DEF Wrote
  <2> QED
    BY <1>1, <1>2, <1>5, <2>1 DEF Writes
<1>7. DiskInv(x.e)
  BY <1>4 DEF Wrote
<1>8. ASSUME NEW t, NEW u, NEW half, TextInv(e, t, half), u[ridx] = Over(t[ridx], off, text),
             \A i \in Inodes \ {ridx} : u[i] = t[i]
      PROVE  TextInv(x.e, u, half \/ x.ret < Len(text))
  <2>1. /\ u[w.ridx] = Over(t[w.ridx], w.offset, w.buf)
        /\ \A i \in Inodes \ {w.ridx} : u[i] = t[i]
        /\ w.ridx \in e.inodemap
    BY <1>5, <1>8
  <2>2. TextInv(x.e, u, half \/ w.ret < Len(w.buf))
    BY <1>4, <1>6, <1>8, <2>1, WriteTexts
  <2> QED
    BY <1>5, <2>2
<1> QED
  BY <1>7, <1>8 DEF x

\* A write (vfs.c:619-638).
LEMMA WriteInv ==
  ASSUME Inv, NEW f \in DOMAIN files, NEW text \in Texts, vfs_write(f, text)
  PROVE  Inv'
<1> DEFINE ridx == vinodes[files[f].vinode].ridx
           off == files[f].offset
           w  == ext2_write(disk, ridx, off, text)
           new == Over(want[ridx], off, text)
<1>1. /\ "WR" \in files[f].mode
      /\ IF ridx \notin Inodes \/ w.e.wild
         THEN disk' = disk /\ files' = files /\ want' = want /\ harm' = harm
         ELSE /\ disk' = w.e /\ files' = [files EXCEPT ![f].offset = @ + w.ret]
              /\ want' = [want EXCEPT ![ridx] = new]
              /\ harm' = harm \cup Astray(disk, ridx, "FILE")
                              \cup (IF w.ret < Len(text) THEN {"half"} ELSE {})
  BY Zenon DEF vfs_write, Over
<1>2. CASE ridx \notin Inodes \/ w.e.wild
  <2>1. disk' = disk /\ files' = files /\ want' = want /\ harm' = harm
    BY <1>1, <1>2
  <2> QED
    BY <2>1 DEF Inv, FilesInv, WantInv, BooksInv, TextsInv, Unless, IsOpen
<1>3. CASE ridx \in Inodes /\ ~ w.e.wild
  <2>1. off \in Nat
    BY <1>1 DEF Inv, FilesInv, IsOpen
  <2>2. w.ret \in Nat
    BY <2>1, TextsAre, WriteReturns
  <2> HIDE DEF new
  <2>3. /\ disk' = w.e /\ files' = [files EXCEPT ![f].offset = @ + w.ret]
        /\ want' = [want EXCEPT ![ridx] = new]
        /\ harm' = harm \cup Astray(disk, ridx, "FILE")
                        \cup (IF w.ret < Len(text) THEN {"half"} ELSE {})
    BY <1>1, <1>3
  <2>4. FilesInv'
    <3> DEFINE n == off + w.ret
    <3>1. n \in Nat
      BY <2>1, <2>2
    <3>2. files' = [files EXCEPT ![f].offset = n]
      BY <2>3
    <3> HIDE DEF n
    <3>3. PICK S : files \in Seq(S)
      BY DEF Inv, FilesInv
    <3>4. \A i \in DOMAIN files : IsOpen(files[i])
      BY DEF Inv, FilesInv
    <3> DEFINE gs == [files EXCEPT ![f].offset = n]
    <3>5. (\E T : gs \in Seq(T)) /\ \A i \in DOMAIN gs : IsOpen(gs[i])
      BY <3>1, <3>3, <3>4, OffsetMoves
    <3> HIDE DEF gs
    <3>6. (\E T : files' \in Seq(T)) /\ \A i \in DOMAIN files' : IsOpen(files'[i])
      BY <3>2, <3>5 DEF gs
    <3> QED
      BY <3>6 DEF FilesInv, IsOpen
  <2>5. PICK S : want \in [Inodes -> S]
    BY DEF Inv, WantInv
  <2>6. want'[ridx] = new /\ \A i \in Inodes \ {ridx} : want'[i] = want[i]
    BY <1>3, <2>3, <2>5
  <2>7. WantInv'
    <3>1. want' \in [Inodes -> S \cup {new}]
      BY <1>3, <2>3, <2>5
    <3> QED
      BY <3>1 DEF WantInv
  <2>8. ASSUME Unless({"astray"})'
        PROVE  DiskInv(disk) /\ ridx \in disk.inodemap /\ "FILE" \in disk.ind[ridx].mode
    <3>1. "astray" \notin harm' /\ harm \subseteq harm'
             /\ Astray(disk, ridx, "FILE") \subseteq harm'
      BY <2>3, <2>8 DEF Unless
    <3>2. "astray" \notin harm
      BY <3>1
    <3> QED
      BY <3>1, <3>2, NotAstray DEF Inv, BooksInv, Unless
  <2>9. BooksInv'
    <3> SUFFICES ASSUME Unless({"astray"})' PROVE DiskInv(disk')
      BY DEF BooksInv
    <3>1. DiskInv(w.e)
      BY <1>3, <2>1, <2>8, WriteDisk
    <3> QED
      BY <2>3, <3>1
  <2>10. TextsInv'
    <3> SUFFICES ASSUME Unless({"astray", "smash"})'
                 PROVE  TextInv(disk', want', "half" \in harm')
      BY DEF TextsInv
    <3>1. Unless({"astray"})' /\ Unless({"astray", "smash"})
      BY <2>3 DEF Unless
    <3> DEFINE h == "half" \in harm
               h2 == "half" \in harm'
    <3>2. h \/ w.ret < Len(text) => h2
      BY <2>3
    <3>3. TextInv(disk, want, h)
      BY <3>1 DEF Inv, TextsInv
    <3> HIDE DEF h, h2
    <3>4. TextInv(w.e, want', h \/ w.ret < Len(text))
      BY <1>3, <2>1, <2>6, <2>8, <3>1, <3>3, WriteDisk DEF new
    <3>5. TextInv(w.e, want', h2)
      BY <3>2, <3>4, TextHalf
    <3> QED
      BY <2>3, <3>5 DEF h2
  <2> QED
    BY <2>4, <2>7, <2>9, <2>10 DEF Inv
<1> QED
  BY <1>2, <1>3

\* Every step keeps the invariant.
LEMMA NextInv == Inv /\ [Next]_vars => Inv'
<1> SUFFICES ASSUME Inv, [Next]_vars PROVE Inv'
  OBVIOUS
<1>1. /\ DirPaths \subseteq AllPaths /\ LinkPaths \subseteq AllPaths
      /\ MountPaths \subseteq AllPaths /\ HelloPaths \subseteq AllPaths
  BY DEF AllPaths
<1>2. CASE UNCHANGED vars
  BY <1>2 DEF vars, Inv, FilesInv, WantInv, BooksInv, TextsInv, Unless, IsOpen
<1>3. ASSUME NEW p \in DirPaths, mkdir_do(p) \/ rmdir_do(p) PROVE Inv'
  BY <1>1, <1>3, CommandDoes, CommandKeeps
<1>4. ASSUME NEW o \in AllPaths, NEW n \in LinkPaths, link_do(o, n) PROVE Inv'
  BY <1>1, <1>4, CommandDoes, CommandKeeps
<1>5. ASSUME NEW p \in AllPaths, unlink_do(p) PROVE Inv'
  BY <1>5, CommandDoes, CommandKeeps
<1>6. ASSUME NEW p \in DirPaths \cup LinkPaths, ls_do(p) PROVE Inv'
  BY <1>1, <1>6, CommandDoes, CommandKeeps
<1>7. ASSUME NEW p \in MountPaths, mount_do(p) PROVE Inv'
  BY <1>1, <1>7, CommandDoes, CommandKeeps
<1>8. ASSUME NEW p \in MountPaths \cup LinkPaths, unmount_do(p) PROVE Inv'
  BY <1>1, <1>8, CommandDoes, CommandKeeps
<1>9. ASSUME NEW p \in HelloPaths \cup LinkPaths, cat_do(p) \/ catto_do(p) PROVE Inv'
  <2>1. CASE cat_do(p)
    BY <2>1, OpenKeeps DEF cat_do
  <2>2. CASE catto_do(p)
    BY <2>2, OpenKeeps DEF catto_do
  <2> QED
    BY <1>9, <2>1, <2>2
<1>10. ASSUME NEW f \in DOMAIN files, NEW t \in Texts, vfs_write(f, t) PROVE Inv'
  BY <1>10, WriteInv
<1> QED
  BY <1>2, <1>3, <1>4, <1>5, <1>6, <1>7, <1>8, <1>9, <1>10 DEF Next

\* What the invariant says of the bitmaps and the counters.
LEMMA InvBitmaps == Inv => BitmapsExact
<1> DEFINE owned(i) == Range(BlocksOf(disk.ind[i]))
<1> SUFFICES ASSUME Inv, Unless({"astray"})
             PROVE  /\ disk.free_blocks = NBlocks - Cardinality(disk.blockmap)
                    /\ disk.free_inodes = NInodes - Cardinality(disk.inodemap)
                    /\ \A i, j \in disk.inodemap : i # j => owned(i) \cap owned(j) = {}
                    /\ disk.blockmap = UNION {owned(i) : i \in disk.inodemap}
  BY DEF BitmapsExact
<1>1. DiskInv(disk)
  BY DEF Inv, BooksInv
<1>2. \A i : owned(i) = Own(disk.ind[i])
  BY DEF Range, BlocksOf, Own
<1> HIDE DEF owned
<1>3. Counted(disk) /\ Books(disk.blockmap, disk.inodemap, disk.ind)
  BY <1>1 DEF DiskInv, Owned
<1>4. \A i, j \in disk.inodemap : i # j => owned(i) \cap owned(j) = {}
  BY <1>2, <1>3 DEF Books
<1>5. disk.blockmap = UNION {owned(i) : i \in disk.inodemap}
  BY <1>2, <1>3 DEF Books
<1> QED
  BY <1>3, <1>4, <1>5 DEF Counted

\* What it says of the files.
LEMMA InvTexts == Inv => FilesKeepText
<1> SUFFICES ASSUME Inv, Unless({"astray", "smash"}), NEW i \in disk.inodemap,
                    "FILE" \in disk.ind[i].mode
             PROVE  LET ind == disk.ind[i]
                        first == Min({ind.size, BlkSize})
                    IN /\ Len(want[i]) = ind.size
                       /\ \A k \in 1 .. ind.size :
                            k <= BlkSize \/ Unless({"half"})
                              => want[i][k] \in {Cell(disk, ind, k), Stray}
                       /\ \A off \in 0 .. first - 1 :
                            ext2_read(disk, i, off, first - off)
                              = [k \in 1 .. first - off |-> Cell(disk, ind, off + k)]
  BY DEF FilesKeepText
<1> DEFINE ind == disk.ind[i]
           first == Min({ind.size, BlkSize})
<1>1. DiskInv(disk) /\ TextInv(disk, want, "half" \in harm)
  BY DEF Inv, BooksInv, TextsInv, Unless
<1>2. disk \in Disk /\ i \in Inodes
  BY <1>1, DiskFields DEF DiskInv
<1>3. TextOf(disk, ind, want[i], "half" \in harm)
  BY <1>1 DEF TextInv, IsFile
<1>4. Unless({"half"}) <=> "half" \notin harm
  BY DEF Unless
<1>5. /\ Len(want[i]) = ind.size
      /\ \A k \in 1 .. ind.size :
           k <= BlkSize \/ Unless({"half"})
             => want[i][k] \in {Cell(disk, ind, k), Stray}
  BY <1>3, <1>4 DEF TextOf
<1>6. \A off \in 0 .. first - 1 :
        ext2_read(disk, i, off, first - off)
          = [k \in 1 .. first - off |-> Cell(disk, ind, off + k)]
  <2>1. ind.size \in Nat /\ ind.blocks = Need(ind.size)
    BY <1>3 DEF TextOf
  <2>2. first = Min({disk.ind[i].size, BlkSize})
    OBVIOUS
  <2> HIDE DEF first
  <2> SUFFICES ASSUME NEW off \in 0 .. first - 1
               PROVE  ext2_read(disk, i, off, first - off)
                        = [k \in 1 .. first - off |-> Cell(disk, ind, off + k)]
    OBVIOUS
  <2> QED
    <3>1. ReadsCells(disk, i, first, off)
      BY <1>2, <2>1, <2>2, ReadFirst
    <3> QED
      BY <3>1 DEF ReadsCells
<1> QED
  BY <1>5, <1>6

\* Whatever the users do, no block has two owners or is owned and free, and none is taken
\* for good, unless a call went astray (ext2fs.c:109-277, 369-462).
THEOREM BitmapsExactAlways == Spec => []BitmapsExact
<1>1. Spec => []Inv
  BY InitInv, NextInv, PTL DEF Spec
<1> QED
  BY <1>1, InvBitmaps, PTL

\* A file holds what was written to it, in its first block in any case, unless a call
\* took it for something else or a directory was written over its block (vfs.c:619-638).
THEOREM FilesKeepTextAlways == Spec => []FilesKeepText
<1>1. Spec => []Inv
  BY InitInv, NextInv, PTL DEF Spec
<1> QED
  BY <1>1, InvTexts, PTL

(***************************************************************************)
(* The table.  A vinode that can be opened names an inode of the disk.     *)
(***************************************************************************)
VN  == Vinodes \cup {None}
Rec == {x \in VinodeType :
          x.mode \cap {"RD", "WR"} # {} => x.fs = "EXT2FS" /\ x.ridx \in Inodes}
Tab == [Vinodes -> Rec]

MkRec(name, fs, mode, dot, ddot, next, child, prev, succ, cnt, ridx) ==
  [name |-> name, fs |-> fs, mode |-> mode, dot |-> dot, ddot |-> ddot, next |-> next,
   child |-> child, prev_link |-> prev, next_link |-> succ, linkcnt |-> cnt,
   ridx |-> ridx]

VModes == {"DIR", "FILE", "LINK", "RD", "WR", "MNT_ABLE", "UNMNT_ABLE"}

\* What a vinode is made of.
LEMMA RecFields ==
  ASSUME NEW x \in Rec
  PROVE  /\ x = MkRec(x.name, x.fs, x.mode, x.dot, x.ddot, x.next, x.child, x.prev_link,
                      x.next_link, x.linkcnt, x.ridx)
         /\ x.name \in Names /\ x.fs \in {"VFS", "EXT2FS"} /\ x.mode \in SUBSET VModes
         /\ x.dot \in VN /\ x.ddot \in VN /\ x.next \in VN /\ x.child \in VN
         /\ x.prev_link \in Vinodes /\ x.next_link \in Vinodes /\ x.linkcnt \in Vinodes
         /\ x.ridx \in Inodes \cup {0, None}
         /\ x.mode \cap {"RD", "WR"} # {} => x.fs = "EXT2FS" /\ x.ridx \in Inodes
BY DEF Rec, VinodeType, MkRec, VN, VModes

\* What of these parts makes a vinode.
LEMMA RecMade ==
  ASSUME NEW name \in Names, NEW fs \in {"VFS", "EXT2FS"}, NEW mode \in SUBSET VModes,
         NEW dot \in VN, NEW ddot \in VN, NEW next \in VN, NEW child \in VN,
         NEW prev \in Vinodes, NEW succ \in Vinodes, NEW cnt \in Vinodes,
         NEW ridx \in Inodes \cup {0, None},
         mode \cap {"RD", "WR"} # {} => fs = "EXT2FS" /\ ridx \in Inodes
  PROVE  LET x == MkRec(name, fs, mode, dot, ddot, next, child, prev, succ, cnt, ridx) IN
         /\ x \in Rec /\ x.mode = mode /\ x.ridx = ridx /\ x.fs = fs
BY DEF Rec, VinodeType, MkRec, VN, VModes

\* u differs from v in the neighbours only.
Alike(v, u) ==
  u \in Tab /\ \A k \in Vinodes :
    u[k].mode = v[k].mode /\ u[k].ridx = v[k].ridx /\ u[k].fs = v[k].fs

\* What is in use in v is so in u.
Grows(v, u) ==
  u \in Tab /\ \A k \in Vinodes :
    v[k].mode # {} => u[k].mode # {} /\ u[k].ridx = v[k].ridx /\ u[k].fs = v[k].fs

\* u is v with some vinodes freed.
Cuts(v, u) ==
  u \in Tab /\ \A k \in Vinodes :
    u[k].mode \in {{}, v[k].mode} /\ u[k].ridx = v[k].ridx /\ u[k].fs = v[k].fs

\* How they follow each other.
LEMMA GrowsTwice ==
  ASSUME NEW a, NEW b, NEW c
  PROVE  /\ Alike(a, b) /\ Alike(b, c) => Alike(a, c)
         /\ Alike(a, b) => Grows(a, b) /\ Cuts(a, b)
         /\ Grows(a, b) /\ Grows(b, c) => Grows(a, c)
         /\ Cuts(a, b) /\ Cuts(b, c) => Cuts(a, c)
         /\ a \in Tab => Alike(a, a)
BY DEF Alike, Grows, Cuts

\* One vinode gets another neighbour in a list.
LEMMA TabSet ==
  ASSUME NEW v \in Tab, NEW k, NEW y \in VN
  PROVE  /\ Alike(v, [v EXCEPT ![k].next = y]) /\ Alike(v, [v EXCEPT ![k].child = y])
         /\ Alike(v, [v EXCEPT ![k].ddot = y])
<1>1. \A i \in Vinodes : v[i] \in Rec
  BY DEF Tab
<1>2. ASSUME NEW x \in Rec
      PROVE  /\ [x EXCEPT !.next = y] \in Rec /\ [x EXCEPT !.child = y] \in Rec
             /\ [x EXCEPT !.ddot = y] \in Rec
  BY DEF Rec, VinodeType, VN
<1>3. ASSUME NEW x \in Rec, NEW u \in {[x EXCEPT !.next = y], [x EXCEPT !.child = y],
               [x EXCEPT !.ddot = y]}
      PROVE  u.mode = x.mode /\ u.ridx = x.ridx /\ u.fs = x.fs
  BY DEF Rec, VinodeType
<1>4. Alike(v, [v EXCEPT ![k].next = y])
  BY <1>1, <1>2, <1>3 DEF Alike, Tab
<1>5. Alike(v, [v EXCEPT ![k].child = y])
  BY <1>1, <1>2, <1>3 DEF Alike, Tab
<1>6. Alike(v, [v EXCEPT ![k].ddot = y])
  BY <1>1, <1>2, <1>3 DEF Alike, Tab
<1> QED
  BY <1>4, <1>5, <1>6

\* One vinode gets another neighbour in a ring.
LEMMA TabLink ==
  ASSUME NEW v \in Tab, NEW k, NEW z \in Vinodes
  PROVE  /\ Alike(v, [v EXCEPT ![k].next_link = z])
         /\ Alike(v, [v EXCEPT ![k].prev_link = z])
<1>1. \A i \in Vinodes : v[i] \in Rec
  BY DEF Tab
<1>2. ASSUME NEW x \in Rec
      PROVE  [x EXCEPT !.next_link = z] \in Rec /\ [x EXCEPT !.prev_link = z] \in Rec
  BY DEF Rec, VinodeType
<1>3. ASSUME NEW x \in Rec,
             NEW u \in {[x EXCEPT !.next_link = z], [x EXCEPT !.prev_link = z]}
      PROVE  u.mode = x.mode /\ u.ridx = x.ridx /\ u.fs = x.fs
  BY DEF Rec, VinodeType
<1>7. Alike(v, [v EXCEPT ![k].next_link = z])
  BY <1>1, <1>2, <1>3 DEF Alike, Tab
<1>8. Alike(v, [v EXCEPT ![k].prev_link = z])
  BY <1>1, <1>2, <1>3 DEF Alike, Tab
<1> QED
  BY <1>7, <1>8

\* It is a table then.
LEMMA AlikeTab == ASSUME NEW v, NEW u, Alike(v, u) PROVE u \in Tab
BY DEF Alike

\* A vinode joins a ring (vfs.c:683-689).
LEMMA AddAlike ==
  ASSUME NEW v \in Tab, NEW o \in Vinodes, NEW n \in Vinodes
  PROVE  Alike(v, add_link(v, o, n))
<1> DEFINE nl == v[o].next_link
           a == [v EXCEPT ![n].next_link = nl]
           b == [a EXCEPT ![n].prev_link = o]
           c == [b EXCEPT ![o].next_link = n]
           d == [c EXCEPT ![nl].prev_link = n]
<1>1. add_link(v, o, n) = d
  BY Zenon DEF add_link
<1>2. nl \in Vinodes
  BY RecFields DEF Tab
<1> HIDE DEF nl
<1>3. Alike(v, a) /\ a \in Tab
  BY <1>2, TabLink, AlikeTab
<1> HIDE DEF a
<1>4. Alike(a, b) /\ b \in Tab
  BY <1>3, TabLink, AlikeTab
<1> HIDE DEF b
<1>5. Alike(b, c) /\ c \in Tab
  BY <1>4, TabLink, AlikeTab
<1> HIDE DEF c
<1>6. Alike(c, d)
  BY <1>2, <1>5, TabLink, AlikeTab
<1> HIDE DEF d
<1>7. Alike(v, d)
  BY <1>3, <1>4, <1>5, <1>6, GrowsTwice
<1> QED
  BY <1>1, <1>7

\* A vinode leaves its ring (vfs.c:691-697).
LEMMA RemoveAlike ==
  ASSUME NEW v \in Tab, NEW i \in Vinodes
  PROVE  Alike(v, remove_link(v, i))
<1> DEFINE nl == v[i].next_link
           pl == v[i].prev_link
           a == [v EXCEPT ![pl].next_link = nl]
           b == [a EXCEPT ![nl].prev_link = pl]
<1>1. remove_link(v, i) = b
  BY Zenon DEF remove_link
<1>2. nl \in Vinodes /\ pl \in Vinodes
  BY RecFields DEF Tab
<1> HIDE DEF nl, pl
<1>3. Alike(v, a) /\ a \in Tab
  BY <1>2, TabLink, AlikeTab
<1> HIDE DEF a
<1>4. Alike(a, b)
  BY <1>2, <1>3, TabLink, AlikeTab
<1> HIDE DEF b
<1>5. Alike(v, b)
  BY <1>3, <1>4, GrowsTwice
<1> QED
  BY <1>1, <1>5

\* A vinode is freed (vfs.c:260-264).
LEMMA DeleteCuts ==
  ASSUME NEW v \in Tab, NEW i \in Vinodes
  PROVE  Cuts(v, delete_vinode(v, i))
<1> DEFINE a == [v EXCEPT ![i].mode = {}]
<1>1. \A k \in Vinodes : v[k] \in Rec
  BY DEF Tab
<1>2. \A x \in Rec : LET u == [x EXCEPT !.mode = {}] IN
        u \in Rec /\ u.mode = {} /\ u.ridx = x.ridx /\ u.fs = x.fs
  BY DEF Rec, VinodeType
<1>3. Cuts(v, a) /\ a \in Tab
  BY <1>1, <1>2 DEF Cuts, Tab
<1> HIDE DEF a
<1>4. Alike(a, remove_link(a, i))
  BY <1>3, RemoveAlike
<1> QED
  BY <1>3, <1>4, GrowsTwice DEF delete_vinode, a

\* A free slot is the least one (vfs.c:29-36).
LEMMA AllocIs ==
  ASSUME NEW v
  PROVE  LET n == vinodes_alloc(v) IN n = None \/ (n \in Vinodes /\ v[n].mode = {})
<1> DEFINE free == {i \in Vinodes : v[i].mode = {}}
           n == vinodes_alloc(v)
<1>1. n = IF free = {} THEN None ELSE Min(free)
  BY DEF vinodes_alloc
<1>2. CASE free # {}
  <2>1. free \in SUBSET Nat
    BY VfsConstants DEF Vinodes
  <2>2. PICK m \in free : \A k \in free : m <= k
    BY <1>2, <2>1, LeastNatural
  <2> HIDE DEF free
  <2>3. Min(free) \in free
    BY <2>2 DEF Min
  <2> HIDE DEF n
  <2> QED
    BY <1>1, <1>2, <2>3 DEF free, n
<1> HIDE DEF n, free
<1> QED
  BY <1>1, <1>2 DEF n

\* A free slot is taken.
LEMMA TakeGrows ==
  ASSUME NEW v \in Tab, NEW n \in Vinodes, v[n].mode = {}, NEW x \in Rec
  PROVE  Grows(v, [v EXCEPT ![n] = x])
BY DEF Grows, Tab

Lo == INSTANCE Lemmas WITH apply <- Longer
Fa == INSTANCE Lemmas WITH apply <- Farther
Li == INSTANCE Lemmas WITH apply <- Listed

\* A walk along a list stays in the table.
LEMMA BrothersType ==
  ASSUME NEW v \in Tab, NEW k \in VN
  PROVE  Brothers(v, k) \in Seq(Vinodes)
<1> DEFINE T == [VN -> Seq(Vinodes)]
           b == [i \in Vinodes \cup {None} |-> <<>>]
<1>1. Brothers(v, k) = Lo!Iter(v, b, MaxVinode)[k]
  BY DEF Brothers, Lo!Iter
<1>2. b \in T /\ MaxVinode \in Nat
  BY VfsConstants DEF VN
<1>3. ASSUME NEW y \in T, NEW n \in 1 .. MaxVinode PROVE Longer(v, y, n) \in T
  <2>1. ASSUME NEW i \in VN, i # None PROVE <<i>> \o y[v[i].next] \in Seq(Vinodes)
    <3>1. i \in Vinodes /\ v[i] \in Rec
      BY <2>1 DEF VN, Tab
    <3>2. v[i].next \in VN
      BY <3>1, RecFields
    <3>3. y[v[i].next] \in Seq(Vinodes) /\ <<i>> \in Seq(Vinodes)
      BY <3>1, <3>2
    <3> QED
      BY <3>3
  <2>2. Longer(v, y, n) = [i \in VN |-> IF i = None THEN <<>> ELSE <<i>> \o y[v[i].next]]
    BY DEF Longer, VN
  <2>3. \A i \in VN : (IF i = None THEN <<>> ELSE <<i>> \o y[v[i].next]) \in Seq(Vinodes)
    BY <2>1
  <2> QED
    BY <2>2, <2>3
<1> HIDE DEF T, b
<1>4. Lo!Iter(v, b, MaxVinode) \in T
  BY <1>2, <1>3, Lo!IterType
<1> QED
  BY <1>1, <1>4 DEF T

\* A directory's entries in the table.
LEMMA ChildrenType ==
  ASSUME NEW v \in Tab, NEW d \in Vinodes
  PROVE  Children(v, d) \in Seq(Vinodes)
<1>1. v[d].child \in VN
  BY RecFields DEF Tab
<1> QED
  BY <1>1, BrothersType DEF Children

\* So does a walk along a ring.
LEMMA RealType ==
  ASSUME NEW v \in Tab, NEW k \in Vinodes
  PROVE  RealOf(v, k) \in Vinodes
<1> DEFINE T == [Vinodes -> Vinodes]
           b == [i \in Vinodes |-> i]
<1>1. RealOf(v, k) = Fa!Iter(v, b, MaxVinode)[k]
  BY DEF RealOf, Fa!Iter
<1>2. b \in T /\ MaxVinode \in Nat
  BY VfsConstants
<1>3. ASSUME NEW y \in T, NEW n \in 1 .. MaxVinode PROVE Farther(v, y, n) \in T
  <2>1. \A i \in Vinodes : v[i].next_link \in Vinodes
    BY RecFields DEF Tab
  <2> QED
    BY <2>1 DEF Farther
<1> HIDE DEF T, b
<1>4. Fa!Iter(v, b, MaxVinode) \in T
  BY <1>2, <1>3, Fa!IterType
<1> QED
  BY <1>1, <1>4 DEF T

\* The child with a name, if there is one.
LEMMA NamedType ==
  ASSUME NEW v \in Tab, NEW d \in Vinodes, NEW name
  PROVE  NamedChild(v, d, name) \in VN
<1> DEFINE c  == Children(v, d)
           S  == {i \in 1 .. Len(c) : v[c[i]].name = name}
           at == SelectInSeq(c, LAMBDA k : v[k].name = name)
<1>1. NamedChild(v, d, name) = IF at = 0 THEN None ELSE c[at]
  BY DEF NamedChild
<1>2. at = IF S # {} THEN Min(S) ELSE 0
  BY DEF SelectInSeq
<1>3. c \in Seq(Vinodes)
  BY ChildrenType
<1> HIDE DEF c, at
<1>4. CASE S # {}
  <2>1. S \in SUBSET Nat
    BY <1>3
  <2>2. PICK m \in S : \A k \in S : m <= k
    BY <1>4, <2>1, LeastNatural
  <2>3. Min(S) \in S
    <3> HIDE DEF S
    <3> QED
      BY <2>2 DEF Min
  <2>4. c[Min(S)] \in Vinodes
    BY <1>3, <2>3
  <2> HIDE DEF S
  <2> QED
    BY <1>1, <1>2, <1>4, <2>4 DEF VN
<1> HIDE DEF S
<1>5. CASE S = {}
  BY <1>1, <1>2, <1>5 DEF VN
<1> QED
  BY <1>4, <1>5

\* An entry in use.
Listing == {x \in Entry : x.inode \in Inodes}

\* What a directory reads as (ext2fs.c:89-107).
LEMMA ReaddirType ==
  ASSUME NEW e \in Disk, NEW ridx
  PROVE  ext2_readdir(e, ridx) \in Seq(Listing)
<1> DEFINE ind == IF ridx \in Inodes THEN e.ind[ridx] ELSE NoInd
           d   == [e |-> e, ind |-> ind]
           n   == ind.blocks * DirAmut
           T   == Seq(Listing)
<1>1. ext2_readdir(e, ridx) = Li!Iter(d, <<>>, n)
  BY DEF ext2_readdir, Li!Iter
<1>2. ind.blocks \in Nat /\ \A i \in 1 .. ind.blocks : ind.block[i] \in Blocks
  <2>1. CASE ridx \in Inodes
    <3>1. ind \in Ind
      BY <2>1, DiskFields
    <3> HIDE DEF ind
    <3> QED
      BY <3>1, Sizes DEF Ind
  <2>2. CASE ridx \notin Inodes
    BY <2>2 DEF NoInd
  <2> QED
    BY <2>1, <2>2
<1>3. d.e = e /\ d.ind = ind
  OBVIOUS
<1> HIDE DEF ind, d
<1>4. DirAmut \in Nat \ {0}
  BY Ext2Constants
<1>5. n \in Nat
  BY <1>2, <1>4
<1>6. ASSUME NEW y \in T, NEW k \in 1 .. n PROVE Listed(d, y, k) \in T
  <2> DEFINE q == (k - 1) \div DirAmut
             r == (k - 1) % DirAmut
             p == <<1 + q, 1 + r>>
             x == EntryAt(d.e, d.ind, p)
  <2>0. Listed(d, y, k) = IF x.inode = 0 THEN y ELSE Append(y, x)
    BY DEF Listed
  <2>1. k - 1 \in Int /\ k - 1 >= 0 /\ k <= n
    BY <1>5
  <2>2. r \in 0 .. DirAmut - 1 /\ q \in Int /\ k - 1 = (DirAmut * q) + r
    BY <1>4, <2>1, DivMod
  <2> HIDE DEF q, r
  <2>3. ASSUME q < 0 PROVE FALSE
    <3>1. DirAmut * (- q - 1) >= 0 /\ DirAmut * (- q - 1) = - (DirAmut * q) - DirAmut
      BY <1>4, <2>2, <2>3
    <3> QED
      BY <1>4, <2>1, <2>2, <3>1
  <2>4. ASSUME q >= ind.blocks PROVE FALSE
    <3>1. (q - ind.blocks) * DirAmut >= 0
          /\ (q - ind.blocks) * DirAmut = (DirAmut * q) - (ind.blocks * DirAmut)
      BY <1>2, <1>4, <2>2, <2>4
    <3>2. ind.blocks * DirAmut \in Int /\ DirAmut * q \in Int /\ r >= 0 /\ r \in Int
      BY <1>2, <1>4, <2>2
    <3> DEFINE P == DirAmut * q
               B == ind.blocks * DirAmut
    <3>3. P >= B /\ P \in Int /\ B \in Int
      <4> DEFINE D == (q - ind.blocks) * DirAmut
      <4>1. D >= 0 /\ D = P - B /\ P \in Int /\ B \in Int
        BY <3>1, <3>2
      <4> HIDE DEF D, P, B
      <4> QED
        BY <4>1
    <3>4. k - 1 = P + r /\ k - 1 < B
      <4>1. k - 1 = P + r
        BY <2>2
      <4>2. k \in Int /\ k <= B
        BY <2>1
      <4> HIDE DEF P, B
      <4> QED
        BY <3>3, <4>1, <4>2
    <3> HIDE DEF P, B
    <3> QED
      BY <3>2, <3>3, <3>4
  <2>5. 1 + q \in 1 .. ind.blocks /\ 1 + r \in 1 .. DirAmut
    BY <1>2, <1>4, <2>2, <2>3, <2>4
  <2>6. ind.block[1 + q] \in Blocks
    BY <1>2, <2>5
  <2>7. e.blk[ind.block[1 + q]].dir \in DirBuf
    BY <2>6, DiskFields DEF Blk
  <2>8. x = e.blk[ind.block[1 + q]].dir[1 + r]
    BY <1>3 DEF EntryAt
  <2> HIDE DEF x
  <2>9. x \in Entry
    BY <2>5, <2>7, <2>8 DEF DirBuf
  <2>10. x.inode = 0 \/ x \in Listing
    BY <2>9 DEF Entry, Listing
  <2> HIDE DEF Listing
  <2> QED
    BY <2>0, <2>10
<1>7. <<>> \in T
  OBVIOUS
<1> HIDE DEF T, n
<1>8. Li!Iter(d, <<>>, n) \in T
  BY <1>5, <1>6, <1>7, Li!IterType
<1> QED
  BY <1>1, <1>8 DEF T

Faults == {"none", "assert", "spin", "index", "wild"}

\* Where a directory d of table v is being read.
Reading(v, d) ==
  {w \in [v : Tab, prev : VN, dot : VN, ddot : VN, fault : Faults] :
     Grows(v, w.v) /\ w.v[d].fs = "EXT2FS"}
MkRead(v, prev, dot, ddot, fa) ==
  [v |-> v, prev |-> prev, dot |-> dot, ddot |-> ddot, fault |-> fa]

\* What it is made of.
LEMMA ReadingIs ==
  ASSUME NEW v, NEW d
  PROVE  /\ \A w \in Reading(v, d) :
              /\ w = MkRead(w.v, w.prev, w.dot, w.ddot, w.fault)
              /\ w.v \in Tab /\ w.prev \in VN /\ w.dot \in VN /\ w.ddot \in VN
              /\ w.fault \in Faults /\ Grows(v, w.v) /\ w.v[d].fs = "EXT2FS"
         /\ \A u \in Tab, prev, dot, ddot \in VN, fa \in Faults :
              Grows(v, u) /\ u[d].fs = "EXT2FS"
                => MkRead(u, prev, dot, ddot, fa) \in Reading(v, d)
BY DEF Reading, MkRead

\* The name of a vinode.
LEMMA NamesAre == Str \subseteq Names /\ {0, 1, 2} \subseteq Vinodes
<1>1. MaxVinode \in Nat /\ MaxVinode > 2
  BY VfsConstants
<1>2. {0, 1, 2} \subseteq Vinodes
  BY <1>1 DEF Vinodes
<1>3. Str \subseteq Names
  BY DEF Names
<1> QED
  BY <1>2, <1>3

\* A slot that a call has filled.
LEMMA VinodeIs ==
  ASSUME NEW n \in Vinodes, NEW name \in Names, NEW mode \in SUBSET VModes,
         NEW dot \in VN, NEW ddot \in VN, NEW next \in VN, NEW child \in VN,
         NEW ridx \in Inodes \cup {0, None}, NEW fs \in {"VFS", "EXT2FS"},
         mode \cap {"RD", "WR"} # {} => fs = "EXT2FS" /\ ridx \in Inodes
  PROVE  LET x == Vinode(n, name, mode, dot, ddot, next, child, ridx, fs) IN
         /\ x \in Rec /\ x.mode = mode /\ x.ridx = ridx /\ x.fs = fs
<1>1. 1 \in Vinodes
  BY NamesAre
<1>2. Vinode(n, name, mode, dot, ddot, next, child, ridx, fs)
        = MkRec(name, fs, mode, dot, ddot, next, child, n, n, 1, ridx)
  BY DEF Vinode, MkRec
<1> QED
  BY <1>1, <1>2, RecMade

\* A vinode is taken for an entry of d, which keeps its file system.
LEMMA TakeEntry ==
  ASSUME NEW v \in Tab, NEW n \in Vinodes, v[n].mode = {}, NEW x \in Rec,
         NEW d \in Vinodes, v[d].fs = "EXT2FS", x.fs = "EXT2FS"
  PROVE  LET u == [v EXCEPT ![n] = x] IN u \in Tab /\ Grows(v, u) /\ u[d].fs = "EXT2FS"
BY DEF Grows, Tab

\* Links and lists leave it alone.
LEMMA AlikeFs ==
  ASSUME NEW v, NEW u, Alike(v, u), NEW d \in Vinodes, v[d].fs = "EXT2FS"
  PROVE  u \in Tab /\ Grows(v, u) /\ u[d].fs = "EXT2FS"
BY DEF Alike, Grows

\* The updates of a reading.
LEMMA ReadSet ==
  ASSUME NEW w, w = MkRead(w.v, w.prev, w.dot, w.ddot, w.fault), NEW x, NEW n
  PROVE  /\ [w EXCEPT !.prev = n, !.v = x] = MkRead(x, n, w.dot, w.ddot, w.fault)
         /\ [w EXCEPT !.prev = n, !.dot = n, !.v = x] = MkRead(x, n, n, w.ddot, w.fault)
         /\ [w EXCEPT !.prev = n, !.ddot = n, !.v = x] = MkRead(x, n, w.dot, n, w.fault)
<1> DEFINE w1 == [w EXCEPT !.prev = n]
           w2 == [w1 EXCEPT !.dot = n]
           w3 == [w1 EXCEPT !.ddot = n]
           a == w.dot
           b == w.ddot
           f == w.fault
<1>1. w1 = MkRead(w.v, n, a, b, f)
  BY DEF MkRead
<1>2. /\ [w EXCEPT !.prev = n, !.v = x] = [w1 EXCEPT !.v = x]
      /\ [w EXCEPT !.prev = n, !.dot = n, !.v = x] = [w2 EXCEPT !.v = x]
      /\ [w EXCEPT !.prev = n, !.ddot = n, !.v = x] = [w3 EXCEPT !.v = x]
  OBVIOUS
<1> HIDE DEF w1, a, b, f
<1>3. w2 = MkRead(w.v, n, n, b, f) /\ w3 = MkRead(w.v, n, a, n, f)
      /\ [w1 EXCEPT !.v = x] = MkRead(x, n, a, b, f)
  BY <1>1 DEF MkRead
<1> HIDE DEF w2, w3
<1>4. [w2 EXCEPT !.v = x] = MkRead(x, n, n, b, f) /\ [w3 EXCEPT !.v = x] = MkRead(x, n, a, n, f)
  BY <1>3 DEF MkRead
<1> QED
  BY <1>2, <1>3, <1>4 DEF a, b, f

\* An entry goes into the table (vfs.c:105-161).
LEMMA EntryRead ==
  ASSUME NEW v0, NEW d \in Vinodes, NEW w \in Reading(v0, d), NEW ent \in Listing
  PROVE  ReadEntry(d, w, ent) \in Reading(v0, d)
<1> DEFINE v == w.v
           n == vinodes_alloc(v)
           up == v[d].dot
           x1 == Vinode(n, ent.name, {"LINK"}, None, None, None, d, ent.inode, v[d].fs)
           v1 == add_link([v EXCEPT ![d].child = n, ![n] = x1], d, n)
           x2 == Vinode(n, ent.name, {"LINK"}, w.prev, None, None, v[v[d].ddot].child,
                        ent.inode, v[d].fs)
           v2 == add_link([v EXCEPT ![w.prev].next = n, ![w.prev].ddot = n, ![n] = x2],
                          v[up].child, n)
           x3 == Vinode(n, ent.name, ent.mode, w.dot, w.ddot, None, None, ent.inode,
                        v[d].fs)
           v3 == [v EXCEPT ![w.prev].next = n, ![n] = x3]
           u1 == [w EXCEPT !.prev = n, !.dot = n, !.v = v1]
           u2 == [w EXCEPT !.prev = n, !.ddot = n, !.v = v2]
           u3 == [w EXCEPT !.prev = n, !.v = v3]
           fa == [w EXCEPT !.fault = "assert"]
           fi == [w EXCEPT !.fault = "index"]
<1>1. ReadEntry(d, w, ent) =
        CASE w.fault # "none" -> w
          [] w.fault = "none" /\ (n = None \/ (ent.name = ".") # (w.prev = None)) -> fa
          [] w.fault = "none" /\ n # None /\ ent.name = "." /\ w.prev = None -> u1
          [] w.fault = "none" /\ n # None /\ ent.name = ".." /\ w.prev # None ->
               IF None \in {up, v[d].ddot} \/ v[up].child = None THEN fi ELSE u2
          [] w.fault = "none" /\ n # None /\ ent.name \notin {".", ".."} /\ w.prev # None ->
               IF w.ddot = None THEN fa ELSE u3
  BY Zenon DEF ReadEntry
<1>2. /\ v \in Tab /\ w.prev \in VN /\ w.dot \in VN /\ w.ddot \in VN
      /\ w.fault \in Faults /\ Grows(v0, v) /\ v[d].fs = "EXT2FS"
      /\ w = MkRead(v, w.prev, w.dot, w.ddot, w.fault)
  BY ReadingIs
<1>3. n = None \/ (n \in Vinodes /\ v[n].mode = {})
  BY AllocIs
<1>4. /\ ent.name \in Names /\ ent.mode \in SUBSET VModes /\ ent.inode \in Inodes
  BY NamesAre DEF Listing, Entry, Modes, VModes
<1>6. v[d].dot \in VN /\ v[d].ddot \in VN
  BY <1>2, RecFields DEF Tab
<1>7. /\ {"LINK"} \in SUBSET VModes /\ {"LINK"} \cap {"RD", "WR"} = {}
      /\ None \in VN /\ d \in VN /\ "assert" \in Faults /\ "index" \in Faults
  BY DEF VModes, VN, Faults
<1> DEFINE p == w.prev
           a == w.dot
           b == w.ddot
           f == w.fault
<1>8. /\ u1 = MkRead(v1, n, n, b, f) /\ u2 = MkRead(v2, n, a, n, f)
      /\ u3 = MkRead(v3, n, a, b, f) /\ fa = MkRead(v, p, a, b, "assert")
      /\ fi = MkRead(v, p, a, b, "index")
  <2> HIDE DEF v1, v2, v3, n
  <2>1. w = MkRead(w.v, w.prev, w.dot, w.ddot, w.fault)
    BY <1>2
  <2>2. u1 = MkRead(v1, n, n, b, f)
    BY <2>1, ReadSet
  <2>3. u2 = MkRead(v2, n, a, n, f)
    BY <2>1, ReadSet
  <2>4. u3 = MkRead(v3, n, a, b, f)
    BY <2>1, ReadSet
  <2>5. fa = MkRead(v, p, a, b, "assert") /\ fi = MkRead(v, p, a, b, "index")
    BY <2>1 DEF MkRead
  <2> QED
    BY <2>2, <2>3, <2>4, <2>5
<1> HIDE DEF v, n, x1, x2, x3, up, u1, u2, u3, fa, fi
<1>9. fa \in Reading(v0, d) /\ fi \in Reading(v0, d)
  BY <1>2, <1>7, <1>8, ReadingIs
<1>10. CASE n = None
  BY <1>1, <1>9, <1>10
<1>11. CASE n # None
  <2>0. n \in Vinodes /\ v[n].mode = {} /\ n \in VN
    BY <1>3, <1>11 DEF VN
  \* Where u is the table after the entry before, with x in its place.
  <2>1. ASSUME NEW u, Alike(v, u), NEW x \in Rec, x.fs = "EXT2FS"
        PROVE  LET z == [u EXCEPT ![n] = x] IN
               z \in Tab /\ Grows(v0, z) /\ z[d].fs = "EXT2FS"
    <3>1. u \in Tab /\ Grows(v, u) /\ u[d].fs = "EXT2FS"
      BY <1>2, <2>1, AlikeFs
    <3>2. u[n].mode = {}
      BY <2>0, <2>1 DEF Alike
    <3> DEFINE z == [u EXCEPT ![n] = x]
    <3>3. z \in Tab /\ Grows(u, z) /\ z[d].fs = "EXT2FS"
      BY <2>0, <2>1, <3>1, <3>2, TakeEntry
    <3> HIDE DEF z
    <3>4. Grows(v0, u)
      BY <1>2, <3>1, GrowsTwice
    <3>5. Grows(v0, z)
      BY <3>3, <3>4, GrowsTwice
    <3> QED
      BY <3>3, <3>5 DEF z
  <2>2. ASSUME NEW z \in Tab, Grows(v0, z), z[d].fs = "EXT2FS", NEW o \in Vinodes
        PROVE  LET y == add_link(z, o, n) IN
               y \in Tab /\ Grows(v0, y) /\ y[d].fs = "EXT2FS"
    <3> DEFINE y == add_link(z, o, n)
    <3>1. Alike(z, y)
      BY <2>0, AddAlike
    <3> HIDE DEF y
    <3>2. y \in Tab /\ Grows(z, y) /\ y[d].fs = "EXT2FS"
      BY <2>2, <3>1, AlikeFs
    <3>3. Grows(v0, y)
      BY <2>2, <3>2, GrowsTwice
    <3> QED
      BY <3>2, <3>3 DEF y
  <2>3. u1 \in Reading(v0, d)
    <3> DEFINE u == [v EXCEPT ![d].child = n]
               z == [u EXCEPT ![n] = x1]
    <3>1. Alike(v, u)
      BY <1>2, <2>0, TabSet
    <3>2. x1 \in Rec /\ x1.fs = "EXT2FS"
      BY <1>2, <1>4, <1>7, <2>0, VinodeIs DEF x1
    <3>3. v1 = add_link(z, d, n)
      OBVIOUS
    <3> HIDE DEF u
    <3>4. z \in Tab /\ Grows(v0, z) /\ z[d].fs = "EXT2FS"
      BY <2>1, <3>1, <3>2
    <3> HIDE DEF z, v1
    <3>5. v1 \in Tab /\ Grows(v0, v1) /\ v1[d].fs = "EXT2FS"
      BY <2>2, <3>3, <3>4
    <3> QED
      BY <1>2, <1>8, <2>0, <3>5, ReadingIs
  <2>4. ASSUME p # None, up # None, v[d].ddot # None, v[up].child # None
        PROVE  u2 \in Reading(v0, d)
    <3> DEFINE t == [v EXCEPT ![p].next = n]
               u == [t EXCEPT ![p].ddot = n]
               z == [u EXCEPT ![n] = x2]
    <3>1. Alike(v, t)
      BY <1>2, <2>0, TabSet
    <3>2. v2 = add_link(z, v[up].child, n)
      OBVIOUS
    <3> HIDE DEF t
    <3>3. t \in Tab
      BY <3>1, AlikeTab
    <3>4. Alike(t, u)
      BY <2>0, <3>3, TabSet
    <3> HIDE DEF u
    <3>5. Alike(v, u)
      BY <3>1, <3>4, GrowsTwice
    <3>6. up \in Vinodes /\ v[d].ddot \in Vinodes
      BY <1>6, <2>4 DEF up, VN
    <3>7. v[up].child \in VN /\ v[v[d].ddot].child \in VN
      BY <1>2, <3>6, RecFields DEF Tab
    <3>8. v[up].child \in Vinodes
      BY <2>4, <3>7 DEF VN
    <3>9. x2 \in Rec /\ x2.fs = "EXT2FS"
      BY <1>2, <1>4, <1>7, <2>0, <3>7, VinodeIs DEF x2
    <3>10. z \in Tab /\ Grows(v0, z) /\ z[d].fs = "EXT2FS"
      BY <2>1, <3>5, <3>9
    <3> HIDE DEF z, v2
    <3>11. v2 \in Tab /\ Grows(v0, v2) /\ v2[d].fs = "EXT2FS"
      BY <2>2, <3>2, <3>8, <3>10
    <3> QED
      BY <1>2, <1>8, <2>0, <3>11, ReadingIs
  <2>5. u3 \in Reading(v0, d)
    <3> DEFINE u == [v EXCEPT ![p].next = n]
    <3>1. Alike(v, u)
      BY <1>2, <2>0, TabSet
    <3>2. x3 \in Rec /\ x3.fs = "EXT2FS"
      BY <1>2, <1>4, <1>7, <2>0, VinodeIs DEF x3
    <3>3. v3 = [u EXCEPT ![n] = x3]
      OBVIOUS
    <3> HIDE DEF u, v3
    <3>4. v3 \in Tab /\ Grows(v0, v3) /\ v3[d].fs = "EXT2FS"
      BY <2>1, <3>1, <3>2, <3>3
    <3> QED
      BY <1>2, <1>8, <2>0, <3>4, ReadingIs
  <2> HIDE DEF v1, v2, v3
  <2>6. None \in {up, v[d].ddot} \/ v[up].child = None
        \/ (up # None /\ v[d].ddot # None /\ v[up].child # None)
    OBVIOUS
  <2> QED
    BY <1>1, <1>9, <1>11, <2>3, <2>4, <2>5, <2>6
<1> QED
  BY <1>10, <1>11

Rd == INSTANCE Lemmas WITH apply <- ReadEntry
Lk == INSTANCE Lemmas WITH apply <- LookupName

\* A working state whose table is one, and what only adds to it.
Tabled(s) == IsSt(s) /\ s.v \in Tab /\ s.fault \in Faults /\ s.r \in VN
Goes(s, t) == Tabled(t) /\ Grows(s.v, t.v)

\* Steps that add one after the other.
LEMMA GoesTwice ==
  ASSUME NEW s, NEW t, NEW u
  PROVE  /\ Goes(s, t) /\ Goes(t, u) => Goes(s, u)
         /\ Tabled(s) => Goes(s, s)
         /\ Goes(s, t) => Tabled(t)
BY GrowsTwice DEF Goes, Tabled

\* A step ends in a fault, or with a result.
LEMMA GoesSet ==
  ASSUME NEW s, Tabled(s), NEW x \in Faults, NEW r \in VN
  PROVE  Goes(s, Fail(s, x)) /\ Goes(s, Ret(s, r))
<1>1. IsSt(s) /\ s.v \in Tab /\ Grows(s.v, s.v)
  BY GrowsTwice DEF Tabled
<1>2. Goes(s, Fail(s, x))
  <2> DEFINE t == Fail(s, x)
  <2>1. t = MkSt(s.v, s.e, x, s.r, s.harm)
    BY <1>1, StFail
  <2> HIDE DEF t
  <2>2. IsSt(t) /\ t.v = s.v /\ t.fault = x /\ t.r = s.r
    BY <2>1, StFields
  <2> QED
    BY <1>1, <2>2 DEF Goes, Tabled, t
<1>3. Goes(s, Ret(s, r))
  <2> DEFINE t == Ret(s, r)
  <2>1. t = MkSt(s.v, s.e, s.fault, r, s.harm)
    BY <1>1, StRet
  <2> HIDE DEF t
  <2>2. IsSt(t) /\ t.v = s.v /\ t.fault = s.fault /\ t.r = r
    BY <2>1, StFields
  <2> QED
    BY <1>1, <2>2 DEF Goes, Tabled, t
<1> QED
  BY <1>2, <1>3

\* A step ends with another table.
LEMMA GoesTable ==
  ASSUME NEW s, Tabled(s), NEW u, Grows(s.v, u), NEW r \in VN
  PROVE  /\ Goes(s, [s EXCEPT !.v = u]) /\ Goes(s, [s EXCEPT !.v = u, !.r = r])
         /\ Goes(s, [s EXCEPT !.r = r, !.v = u])
<1>1. IsSt(s) /\ u \in Tab
  BY DEF Tabled, Grows
<1>2. ASSUME NEW t, NEW y \in VN, t = MkSt(u, s.e, s.fault, y, s.harm) PROVE Goes(s, t)
  <2>1. IsSt(t) /\ t.v = u /\ t.fault = s.fault /\ t.r = y
    BY <1>2, StFields
  <2> QED
    BY <1>1, <2>1 DEF Goes, Tabled
<1>3. Goes(s, [s EXCEPT !.v = u])
  BY <1>1, <1>2, StTable DEF Tabled
<1>4. Goes(s, [s EXCEPT !.v = u, !.r = r])
  <2> DEFINE t == [s EXCEPT !.v = u, !.r = r]
  <2>1. t = MkSt(u, s.e, s.fault, r, s.harm)
    BY <1>1, StTableRet
  <2> HIDE DEF t
  <2>2. Goes(s, t)
    BY <1>2, <2>1
  <2> QED
    BY <2>2 DEF t
<1>5. Goes(s, [s EXCEPT !.r = r, !.v = u])
  <2> DEFINE t == [s EXCEPT !.r = r, !.v = u]
  <2>1. t = MkSt(u, s.e, s.fault, r, s.harm)
    BY <1>1, StTableRet
  <2> HIDE DEF t
  <2>2. Goes(s, t)
    BY <1>2, <2>1
  <2> QED
    BY <2>2 DEF t
<1> QED
  BY <1>3, <1>4, <1>5

\* A directory is read into the table (vfs.c:105-161).
LEMMA ReadGoes ==
  ASSUME NEW s, Tabled(s), s.e \in Disk, NEW d \in Vinodes, s.v[d].fs = "EXT2FS", NEW name
  PROVE  Goes(s, ReadDirectory(s, d, name))
<1> DEFINE ents == ext2_readdir(s.e, s.v[d].ridx)
           w0 == [v |-> s.v, prev |-> None, dot |-> None, ddot |-> None, fault |-> "none"]
           w == FoldLeft(LAMBDA x, ent : ReadEntry(d, x, ent), w0, ents)
           hits == Cardinality({i \in 1 .. Len(ents) : ents[i].name = name})
           y == IF hits = 0 THEN None ELSE d
           b == w.v
           t == [s EXCEPT !.v = b, !.r = y]
<1>1. ReadDirectory(s, d, name) =
        IF w.fault # "none" THEN Fail(s, w.fault)
        ELSE IF hits > 1 THEN Fail(s, "assert") ELSE t
  BY Zenon DEF ReadDirectory
<1>2. ents \in Seq(Listing)
  BY ReaddirType
<1>3. w = Rd!Fold(d, w0, ents)
  <2> HIDE DEF w0, ents
  <2> QED
    BY DEF FoldLeft, MapThenFoldSet, Max, Rd!Fold, Rd!FoldLeft, Rd!MapThenFoldSet, Rd!Max
<1> HIDE DEF ents, w, hits
<1>4. w0 \in Reading(s.v, d)
  <2>1. s.v \in Tab /\ Grows(s.v, s.v)
    BY GrowsTwice DEF Tabled
  <2>2. "none" \in Faults /\ None \in VN
    BY DEF Faults, VN
  <2>3. w0 = MkRead(s.v, None, None, None, "none")
    BY DEF MkRead
  <2> HIDE DEF w0
  <2> QED
    BY <2>1, <2>2, <2>3, ReadingIs
<1> HIDE DEF w0
<1> DEFINE R == Reading(s.v, d)
<1>5. \A x \in R, ent \in Listing : ReadEntry(d, x, ent) \in R
  BY EntryRead
<1> HIDE DEF R
<1>6. w \in R
  BY <1>2, <1>3, <1>4, <1>5, Rd!FoldType DEF R
<1>7. w.fault \in Faults /\ Grows(s.v, b) /\ y \in VN /\ "assert" \in Faults
  BY <1>6, ReadingIs DEF R, VN, Faults
<1> HIDE DEF b, y
<1>8. Goes(s, t)
  BY <1>7, GoesTable
<1> HIDE DEF t
<1>9. Goes(s, Fail(s, w.fault)) /\ Goes(s, Fail(s, "assert"))
  <2>1. 0 \in Vinodes
    BY NamesAre
  <2> QED
    BY <1>7, <2>1, GoesSet DEF VN
<1> QED
  BY <1>1, <1>8, <1>9

Cur == [cur : Vinodes, depth : Int, stop : BOOLEAN, spin : BOOLEAN]

\* Going down a path stays in the table (vfs.c:58-83).
LEMMA CurType ==
  ASSUME NEW v \in Tab, NEW E, NEW path \in Seq(E)
  PROVE  lookup_cur(v, path) \in Cur
<1> DEFINE b == [cur |-> VFS_ROOT, depth |-> 0, stop |-> FALSE, spin |-> FALSE]
           f == FoldLeft(LAMBDA w, name : LookupName(v, w, name), b, path)
<1>1. lookup_cur(v, path) = f
  BY Zenon DEF lookup_cur
<1>2. f = Lk!Fold(v, b, path)
  <2> HIDE DEF b
  <2> QED
    BY DEF FoldLeft, MapThenFoldSet, Max, Lk!Fold, Lk!FoldLeft, Lk!MapThenFoldSet, Lk!Max
<1>3. b \in Cur
  BY NamesAre DEF Cur, VFS_ROOT
<1> HIDE DEF f, b
<1>4. ASSUME NEW w \in Cur, NEW name \in E PROVE LookupName(v, w, name) \in Cur
  <2> DEFINE k == NamedChild(v, w.cur, name)
             real == RealOf(v, k)
  <2>1. w.cur \in Vinodes
    BY DEF Cur
  <2>2. k \in VN
    BY <2>1, NamedType
  <2> HIDE DEF k
  <2>3. k # None => real \in Vinodes
    BY <2>2, RealType DEF VN
  <2> HIDE DEF real
  <2>4. LookupName(v, w, name) =
          IF w.stop THEN w
          ELSE IF k = None THEN [w EXCEPT !.stop = TRUE]
          ELSE IF "LINK" \in v[real].mode THEN [w EXCEPT !.stop = TRUE, !.spin = TRUE]
          ELSE [w EXCEPT !.cur = real, !.depth = @ + 1]
    BY DEF LookupName, LookupStep, k, real
  <2>5. CASE w.stop
    BY <2>4, <2>5
  <2>6. CASE ~ w.stop /\ k = None
    BY <2>4, <2>6 DEF Cur
  <2>7. CASE ~ w.stop /\ k # None /\ "LINK" \in v[real].mode
    BY <2>4, <2>7 DEF Cur
  <2>8. CASE ~ w.stop /\ k # None /\ "LINK" \notin v[real].mode
    <3> DEFINE x == [w EXCEPT !.cur = real]
               y == [x EXCEPT !.depth = @ + 1]
    <3>1. x \in Cur
      BY <2>3, <2>8 DEF Cur
    <3>2. LookupName(v, w, name) = y
      BY <2>4, <2>8
    <3> HIDE DEF x
    <3>3. y \in Cur
      BY <3>1 DEF Cur
    <3> QED
      BY <3>2, <3>3
  <2> QED
    BY <2>5, <2>6, <2>7, <2>8
<1>5. Lk!Fold(v, b, path) \in Cur
  <2> HIDE DEF Cur
  <2> QED
    BY <1>3, <1>4, Lk!FoldType
<1> QED
  BY <1>1, <1>2, <1>5

\* One round of a lookup adds to the table.
LEMMA RoundGoes ==
  ASSUME NEW E, NEW path \in Seq(E), NEW s, Tabled(s), s.e \in Disk, NEW more, NEW i
  PROVE  LET x == Round(path, [s |-> s, more |-> more], i) IN
         x = [s |-> x.s, more |-> x.more] /\ Goes(s, x.s)
<1> DEFINE w == [s |-> s, more |-> more]
           at == lookup_cur(s.v, path)
           name == path[at.depth + 1]
           q == LookupRound(s, at, name)
<1>1. Round(path, w, i) = IF more /\ Good(s) /\ s.r # None THEN q ELSE w
  <2>1. w.s = s /\ w.more = more
    OBVIOUS
  <2> QED
    BY <2>1 DEF Round
<1>2. at.cur \in Vinodes
  <2>1. at \in Cur
    BY CurType DEF Tabled
  <2> HIDE DEF at
  <2> QED
    BY <2>1 DEF Cur
<1> HIDE DEF at, name
<1>3. /\ Goes(s, Fail(s, "spin")) /\ Goes(s, Ret(s, at.cur)) /\ Goes(s, Ret(s, None))
      /\ Goes(s, s)
  <2>1. "spin" \in Faults /\ at.cur \in VN /\ None \in VN
    BY <1>2 DEF Faults, VN
  <2> QED
    BY <2>1, GoesSet, GoesTwice
<1>4. q = [s |-> q.s, more |-> q.more] /\ Goes(s, q.s)
  <2>1. CASE at.spin
    BY <1>3, <2>1 DEF LookupRound
  <2>2. CASE ~ at.spin /\ ~ at.stop
    BY <1>3, <2>2 DEF LookupRound
  <2>3. CASE ~ at.spin /\ at.stop
    <3> DEFINE rd == ReadDirectory(s, at.cur, name)
    <3>1. q = IF s.v[at.cur].fs = "VFS" \/ s.v[at.cur].child # None
              THEN [s |-> Ret(s, None), more |-> FALSE]
              ELSE [s |-> rd, more |-> TRUE]
      BY <2>3 DEF LookupRound
    <3> HIDE DEF q
    <3>2. s.v[at.cur].fs # "VFS" => s.v[at.cur].fs = "EXT2FS"
      BY <1>2, RecFields DEF Tabled, Tab
    <3>3. s.v[at.cur].fs # "VFS" => Goes(s, rd)
      BY <1>2, <3>2, ReadGoes
    <3> HIDE DEF rd
    <3> QED
      BY <1>3, <3>1, <3>3
  <2> QED
    BY <2>1, <2>2, <2>3
<1> HIDE DEF q
<1> QED
  BY <1>1, <1>3, <1>4

\* A lookup, round by round.
LEMMA LookupRounds ==
  ASSUME NEW s, NEW path, Len(path) \in Nat
  PROVE  \E n \in Nat : \E h :
           /\ h[0] = [s |-> Ret(s, VFS_ROOT), more |-> TRUE]
           /\ lookup_auto(s, path) = IF Good(s) THEN h[n].s ELSE s
           /\ \A i \in 1 .. n : h[i] = Round(path, h[i - 1], i)
<1> DEFINE n == Len(path) + 1
           b == [s |-> Ret(s, VFS_ROOT), more |-> TRUE]
           l == [i \in 1 .. Len(path) + 1 |-> i]
           f == FoldLeft(LAMBDA w, i : Round(path, w, i), b, l)
<1>1. lookup_auto(s, path) = IF Good(s) THEN f.s ELSE s
  BY Zenon DEF lookup_auto, Then
<1>2. f = Ro!Fold(path, b, l)
  <2> HIDE DEF l, b
  <2> QED
    BY DEF FoldLeft, MapThenFoldSet, Max, Ro!Fold, Ro!FoldLeft, Ro!MapThenFoldSet, Ro!Max
<1>3. n \in Nat /\ DOMAIN l = 1 .. n /\ \A i \in 1 .. n : l[i] = i
  OBVIOUS
<1> HIDE DEF f, l, n, b
<1>4. PICK h : /\ h[0] = b /\ f = h[n]
               /\ \A i \in 1 .. n : h[i] = Round(path, h[i - 1], l[i])
  BY <1>2, <1>3, Ro!FoldTrace
<1>5. \A i \in 1 .. n : h[i] = Round(path, h[i - 1], i)
  BY <1>3, <1>4
<1> QED
  BY <1>1, <1>3, <1>4, <1>5 DEF b

\* A lookup adds to the table (vfs.c:85-168).
LEMMA LookupGoes ==
  ASSUME NEW s, Tabled(s), s.e \in Disk, NEW E, NEW path \in Seq(E)
  PROVE  Goes(s, lookup_auto(s, path)) /\ Same(s, lookup_auto(s, path))
<1> DEFINE b == [s |-> Ret(s, VFS_ROOT), more |-> TRUE]
<1>1. Len(path) \in Nat
  OBVIOUS
<1>2. PICK n \in Nat : \E h : 
           /\ h[0] = [s |-> Ret(s, VFS_ROOT), more |-> TRUE]
           /\ lookup_auto(s, path) = IF Good(s) THEN h[n].s ELSE s
           /\ \A i \in 1 .. n : h[i] = Round(path, h[i - 1], i)
  BY <1>1, LookupRounds
<1>3. n \in Nat
  OBVIOUS
<1>4. PICK h : /\ h[0] = b /\ lookup_auto(s, path) = IF Good(s) THEN h[n].s ELSE s
               /\ \A i \in 1 .. n : h[i] = Round(path, h[i - 1], i)
  BY <1>2
<1> HIDE DEF b
<1>0. IsSt(s)
  BY DEF Tabled
<1> DEFINE Ok(w) == w = [s |-> w.s, more |-> w.more] /\ Goes(s, w.s) /\ Same(s, w.s)
           S == {i \in 0 .. n : Ok(h[i])}
<1>5. 0 \in S
  <2>1. Same(s, Ret(s, VFS_ROOT))
    BY <1>0, StSet
  <2>2. Goes(s, Ret(s, VFS_ROOT))
    <3>1. VFS_ROOT \in VN /\ "none" \in Faults
      BY NamesAre DEF VFS_ROOT, VN, Faults
    <3> QED
      BY <3>1, GoesSet
  <2>3. Ok(b)
    BY <2>1, <2>2 DEF b
  <2>4. 0 \in 0 .. n
    BY <1>3
  <2> QED
    BY <1>4, <2>3, <2>4
<1>6. \A i \in S \cap (0 .. n - 1) : i + 1 \in S
  <2> SUFFICES ASSUME NEW i \in S, i \in 0 .. n - 1
               PROVE  i + 1 \in 0 .. n /\ Ok(h[i + 1])
    OBVIOUS
  <2>1. Ok(h[i])
    OBVIOUS
  <2> HIDE DEF S
  <2>2. i + 1 \in 1 .. n /\ i + 1 \in 0 .. n /\ (i + 1) - 1 = i
    BY <1>3
  <2> DEFINE c == h[i].s
             m == h[i].more
  <2>3. h[i] = [s |-> c, more |-> m] /\ Goes(s, c) /\ Same(s, c)
    BY <2>1
  <2> HIDE DEF c, m, Ok
  <2>4. h[i + 1] = Round(path, [s |-> c, more |-> m], i + 1)
    BY <1>4, <2>2, <2>3
  <2>5. IsSt(c) /\ Tabled(c) /\ c.e \in Disk
    BY <2>3 DEF Same, Goes
  <2> DEFINE x == Round(path, [s |-> c, more |-> m], i + 1)
  <2>6. x = [s |-> x.s, more |-> x.more] /\ Same(c, x.s)
    BY <2>5, RoundSame
  <2>7. Goes(c, x.s)
    BY <2>5, RoundGoes
  <2> HIDE DEF x
  <2>8. Same(s, x.s)
    BY <2>3, <2>6, SameTwice
  <2>9. Goes(s, x.s)
    BY <2>3, <2>7, GoesTwice
  <2> QED
    BY <2>2, <2>4, <2>6, <2>8, <2>9 DEF Ok, x
<1>7. n \in S
  <2> HIDE DEF S
  <2>1. \A i \in 0 .. n : i \in S
    BY <1>3, <1>5, <1>6, UpTo
  <2>2. n \in 0 .. n
    BY <1>3
  <2> QED
    BY <2>1, <2>2
<1>8. Goes(s, h[n].s) /\ Same(s, h[n].s)
  BY <1>7
<1>9. Goes(s, s)
  BY GoesTwice
<1>10. Same(s, s)
  BY <1>0 DEF Same
<1> QED
  BY <1>4, <1>8, <1>9, <1>10

\* vfs_access finds a vinode of the mode, or none (vfs.c:410-416).
LEMMA AccessGoes ==
  ASSUME NEW s, Tabled(s), s.e \in Disk, NEW E, NEW path \in Seq(E), NEW mode
  PROVE  LET t == Access(s, path, mode) IN
         /\ Goes(s, t) /\ Same(s, t)
         /\ Good(t) /\ t.r # None => t.r \in Vinodes /\ mode \subseteq t.v[t.r].mode
<1> DEFINE w == lookup_auto(s, path)
           x == Ret(w, None)
           t == Access(s, path, mode)
<1>1. t = IF Good(w)
          THEN IF w.r # None /\ ~ (mode \subseteq w.v[w.r].mode) THEN x ELSE w
          ELSE w
  BY Zenon DEF Access, Then
<1>2. Goes(s, w) /\ Same(s, w)
  BY LookupGoes
<1> HIDE DEF w
<1>3. Tabled(w) /\ IsSt(w)
  BY <1>2 DEF Goes, Tabled
<1>4. Goes(w, x) /\ Same(w, x) /\ x.r = None
  <2>1. None \in VN /\ "none" \in Faults
    BY DEF VN, Faults
  <2>2. Goes(w, x)
    BY <1>3, <2>1, GoesSet
  <2>3. Same(w, x)
    BY <1>3, StSet
  <2>4. x.r = None
    BY <1>3, StRet, StFields
  <2> QED
    BY <2>2, <2>3, <2>4
<1> HIDE DEF x
<1>5. Goes(s, x) /\ Same(s, x)
  BY <1>2, <1>4, GoesTwice, SameTwice
<1>6. w.r \in VN
  BY <1>3 DEF Tabled
<1> HIDE DEF t
<1>7. CASE t = x
  BY <1>4, <1>5, <1>7 DEF t
<1>8. CASE t = w /\ (Good(w) => w.r = None \/ mode \subseteq w.v[w.r].mode)
  BY <1>2, <1>6, <1>8 DEF t, VN
<1> QED
  BY <1>1, <1>7, <1>8

Given == {{"DIR"}, {"LINK"}, {"DIR", "UNMNT_ABLE"}, {"FILE", "MNT_ABLE"}}

\* No call gives a new vinode the right to be read.
LEMMA GivenIs ==
  ASSUME NEW mode \in Given
  PROVE  mode \in SUBSET VModes /\ mode \cap {"RD", "WR"} = {}
BY DEF Given, VModes

\* A vinode is appended to a directory (vfs.c:287-323).
LEMMA AppendGoes ==
  ASSUME NEW s, Tabled(s), NEW par \in Vinodes, NEW name \in Names, NEW mode \in Given,
         NEW fs \in {"VFS", "EXT2FS"}
  PROVE  LET t == append_dir(s, par, name, mode, fs) IN
         Goes(s, t) /\ (Good(t) => t.r \in Vinodes /\ s.v[t.r].mode = {})
<1> DEFINE v == s.v
           n == vinodes_alloc(v)
           c == Children(v, par)
           dots == {i \in 1 .. Len(c) - 1 : v[c[i]].name = "."}
           dot  == c[Max(dots)]
           x == Vinode(n, name, mode, dot, v[dot].next, None, None, v[n].ridx, fs)
           v1 == [v EXCEPT ![Last(c)].next = n, ![n] = x]
           y == [s EXCEPT !.r = n, !.v = v1]
           t == append_dir(s, par, name, mode, fs)
<1>1. t = IF c = <<>> \/ dots = {} THEN Fail(s, "assert")
          ELSE IF n = None THEN Fail(s, "index")
          ELSE y
  BY Zenon DEF append_dir
<1>2. v \in Tab
  BY DEF Tabled
<1>3. c \in Seq(Vinodes)
  BY <1>2, ChildrenType
<1>4. n = None \/ (n \in Vinodes /\ v[n].mode = {})
  BY AllocIs
<1> HIDE DEF v, n, c
<1>5. dots # {} => dot \in Vinodes
  <2> SUFFICES ASSUME dots # {} PROVE dot \in Vinodes
    OBVIOUS
  <2>1. Len(c) \in Nat /\ dots \in SUBSET (1 .. Len(c))
    BY <1>3
  <2> HIDE DEF dots
  <2>2. Max(dots) \in dots
    BY <2>1, Lo!MaxPosition DEF Max, Lo!Max
  <2> DEFINE k == Max(dots)
  <2>3. k \in 1 .. Len(c)
    BY <2>1, <2>2
  <2> HIDE DEF k
  <2>4. c[k] \in Vinodes
    BY <1>3, <2>3
  <2> QED
    BY <2>4 DEF k
<1> HIDE DEF dots, dot
<1>6. CASE ~ (c = <<>> \/ dots = {}) /\ n # None
  <2> DEFINE a == [v EXCEPT ![Last(c)].next = n]
             b == [a EXCEPT ![n] = x]
  <2>1. n \in Vinodes /\ v[n].mode = {} /\ n \in VN /\ None \in VN
    BY <1>4, <1>6 DEF VN
  <2>2. dot \in VN /\ v[dot].next \in VN /\ v[n].ridx \in Inodes \cup {0, None}
    <3>1. v[dot] \in Rec /\ v[n] \in Rec
      BY <1>2, <1>5, <1>6, <2>1 DEF Tab
    <3> QED
      BY <1>5, <1>6, <3>1, RecFields DEF VN
  <2>3. x \in Rec
    BY <2>1, <2>2, GivenIs, VinodeIs
  <2> HIDE DEF x
  <2>4. Alike(v, a)
    BY <1>2, <2>1, TabSet
  <2>5. v1 = b
    OBVIOUS
  <2> HIDE DEF a
  <2>6. a \in Tab /\ Grows(v, a) /\ a[n].mode = {}
    BY <2>1, <2>4, GrowsTwice DEF Alike
  <2>7. Grows(a, b)
    BY <2>1, <2>3, <2>6, TakeGrows
  <2> HIDE DEF b
  <2>8. Grows(v, b)
    BY <2>6, <2>7, GrowsTwice
  <2> HIDE DEF v1
  <2>9. Grows(s.v, v1)
    BY <2>5, <2>8 DEF v
  <2>10. Goes(s, y)
    BY <2>1, <2>9, GoesTable
  <2>11. y.r = n
    <3>1. y = MkSt(v1, s.e, s.fault, n, s.harm)
      BY StTableRet DEF Tabled
    <3> HIDE DEF y
    <3> QED
      BY <3>1, StFields
  <2> HIDE DEF y, t
  <2>12. t = y
    BY <1>1, <1>6
  <2> QED
    BY <2>1, <2>10, <2>11, <2>12 DEF t, v
<1>7. CASE c = <<>> \/ dots = {} \/ n = None
  <2>1. {"assert", "index"} \subseteq Faults /\ None \in VN /\ "assert" # "none" /\ "index" # "none"
    BY DEF Faults, VN
  <2>2. Goes(s, Fail(s, "assert")) /\ Goes(s, Fail(s, "index"))
    BY <2>1, GoesSet
  <2>3. ~ Good(Fail(s, "assert")) /\ ~ Good(Fail(s, "index"))
    BY StFail, StFields DEF Tabled, Good
  <2> HIDE DEF t, y
  <2>4. t \in {Fail(s, "assert"), Fail(s, "index")}
    BY <1>1, <1>7
  <2> QED
    BY <2>2, <2>3, <2>4 DEF t
<1> HIDE DEF t, y, v1, x
<1> QED
  BY <1>6, <1>7

\* A directory gets its first two entries (vfs.c:325-335).
LEMMA PrepareGoes ==
  ASSUME NEW s, Tabled(s), NEW idx \in Vinodes, NEW par \in Vinodes,
         NEW fs \in {"VFS", "EXT2FS"}
  PROVE  Goes(s, prepare_dir(s, idx, par, fs))
<1> DEFINE v == s.v
           dot  == vinodes_alloc(v)
           m    == [v EXCEPT ![dot].mode = {"LINK"}]
           ddot == vinodes_alloc(m)
           x == Vinode(dot, ".", {"LINK"}, None, ddot, ddot, idx, v[dot].ridx, fs)
           y == Vinode(ddot, "..", {"LINK"}, dot, None, None, par, v[ddot].ridx, fs)
           v1 == [v EXCEPT ![idx].child = dot, ![dot] = x, ![ddot] = y]
           v2 == add_link(add_link(v1, idx, dot), par, ddot)
           t == [s EXCEPT !.v = v2]
<1>1. prepare_dir(s, idx, par, fs) =
        IF dot = None \/ ddot = None THEN Fail(s, "index")
        ELSE IF v[idx].child # None THEN Fail(s, "assert")
        ELSE t
  BY Zenon DEF prepare_dir
<1>2. v \in Tab
  BY DEF Tabled
<1>3. dot = None \/ (dot \in Vinodes /\ v[dot].mode = {})
  BY AllocIs
<1>4. ddot = None \/ (ddot \in Vinodes /\ m[ddot].mode = {})
  BY AllocIs
<1> HIDE DEF v, dot, ddot
<1>5. CASE dot # None /\ ddot # None
  <2>1. dot \in Vinodes /\ v[dot].mode = {} /\ ddot \in Vinodes /\ m[ddot].mode = {}
    BY <1>3, <1>4, <1>5
  <2>2. v[dot] \in Rec /\ v[ddot] \in Rec
    BY <1>2, <2>1 DEF Tab
  <2>3. m[dot].mode = {"LINK"} /\ \A k \in Vinodes : k # dot => m[k] = v[k]
    <3>1. m[dot] = [v[dot] EXCEPT !.mode = {"LINK"}]
      BY <1>2, <2>1 DEF Tab
    <3>2. \A k \in Vinodes : k # dot => m[k] = v[k]
      BY <1>2, <2>1 DEF Tab
    <3> HIDE DEF m
    <3>3. m[dot].mode = {"LINK"}
      BY <2>2, <3>1 DEF Rec, VinodeType
    <3> QED
      BY <3>2, <3>3
  <2> HIDE DEF m
  <2>4. dot # ddot /\ v[ddot].mode = {}
    BY <2>1, <2>3
  <2>5. /\ dot \in VN /\ ddot \in VN /\ None \in VN /\ idx \in VN /\ par \in VN
        /\ v[dot].ridx \in Inodes \cup {0, None} /\ v[ddot].ridx \in Inodes \cup {0, None}
        /\ "." \in Names /\ ".." \in Names /\ {"LINK"} \in Given
    BY <2>1, <2>2, RecFields, NamesAre DEF VN, Str, Given
  <2>6. {"LINK"} \in SUBSET VModes /\ {"LINK"} \cap {"RD", "WR"} = {}
    BY <2>5, GivenIs
  <2>7. x \in Rec /\ x.mode = {"LINK"}
    BY <2>1, <2>5, <2>6, VinodeIs
  <2>8. y \in Rec
    BY <2>1, <2>5, <2>6, VinodeIs
  <2> HIDE DEF x, y
  <2> DEFINE a == [v EXCEPT ![idx].child = dot]
             b == [a EXCEPT ![dot] = x]
             c == [b EXCEPT ![ddot] = y]
             d == add_link(c, idx, dot)
             e == add_link(d, par, ddot)
  <2>9. v2 = e
    OBVIOUS
  <2>10. Alike(v, a)
    BY <1>2, <2>5, TabSet
  <2> HIDE DEF a
  <2>11. a \in Tab /\ Grows(v, a) /\ a[dot].mode = {} /\ a[ddot].mode = {}
    BY <2>1, <2>4, <2>10, GrowsTwice DEF Alike
  <2>12. Grows(a, b)
    BY <2>1, <2>7, <2>11, TakeGrows
  <2>13. b[ddot].mode = {} /\ b \in Tab
    <3>1. b \in Tab
      BY <2>12 DEF Grows
    <3>2. b[ddot] = a[ddot]
      BY <2>1, <2>4, <2>11 DEF Tab
    <3> QED
      BY <2>11, <3>1, <3>2
  <2> HIDE DEF b
  <2>14. Grows(b, c)
    BY <2>1, <2>8, <2>13, TakeGrows
  <2>15. c \in Tab
    BY <2>14 DEF Grows
  <2> HIDE DEF c
  <2>16. Alike(c, d)
    BY <2>1, <2>15, AddAlike
  <2>17. d \in Tab
    BY <2>16, AlikeTab
  <2> HIDE DEF d
  <2>18. Alike(d, e)
    BY <2>1, <2>17, AddAlike
  <2> HIDE DEF e
  <2>19. Grows(v, c)
    <3>1. Grows(v, b)
      BY <2>11, <2>12, GrowsTwice
    <3> QED
      BY <2>14, <3>1, GrowsTwice
  <2>20. Grows(c, e)
    <3>1. Alike(c, e)
      BY <2>16, <2>18, GrowsTwice
    <3> QED
      BY <3>1, GrowsTwice
  <2>21. Grows(s.v, v2)
    <3> HIDE DEF v2
    <3>1. Grows(v, e)
      BY <2>19, <2>20, GrowsTwice
    <3> QED
      BY <2>9, <3>1 DEF v
  <2> HIDE DEF v2
  <2>22. Goes(s, t)
    BY <2>5, <2>21, GoesTable
  <2>23. Goes(s, Fail(s, "assert"))
    <3>1. "assert" \in Faults
      BY DEF Faults
    <3> QED
      BY <2>5, <3>1, GoesSet
  <2> HIDE DEF t
  <2> QED
    BY <1>1, <1>5, <2>22, <2>23
<1>6. CASE dot = None \/ ddot = None
  <2>1. "index" \in Faults /\ None \in VN
    BY DEF Faults, VN
  <2>2. Goes(s, Fail(s, "index"))
    BY <2>1, GoesSet
  <2> HIDE DEF t
  <2> QED
    BY <1>1, <1>6, <2>2
<1> HIDE DEF t, v1, v2, x, y, m
<1> QED
  BY <1>5, <1>6

DeleteOn(p, f, i) == delete_vinode(f, i)
De == INSTANCE Lemmas WITH apply <- DeleteOn

\* Vinodes are freed, one after the other (vfs.c:342-343).
LEMMA DeletesCut ==
  ASSUME NEW v \in Tab, NEW s \in Seq(Vinodes)
  PROVE  Cuts(v, FoldLeft(delete_vinode, v, s))
<1> DEFINE f == FoldLeft(delete_vinode, v, s)
           T == {u \in Tab : Cuts(v, u)}
<1>1. f = De!Fold(0, v, s)
  BY DEF DeleteOn, FoldLeft, MapThenFoldSet, Max,
         De!Fold, De!FoldLeft, De!MapThenFoldSet, De!Max
<1>2. v \in T
  BY GrowsTwice
<1>3. ASSUME NEW y \in T, NEW i \in Vinodes PROVE DeleteOn(0, y, i) \in T
  <2> DEFINE z == delete_vinode(y, i)
  <2>1. y \in Tab /\ Cuts(v, y)
    OBVIOUS
  <2>2. Cuts(y, z)
    BY <2>1, DeleteCuts
  <2> HIDE DEF z
  <2>3. Cuts(v, z) /\ z \in Tab
    BY <2>1, <2>2, GrowsTwice DEF Cuts
  <2> QED
    BY <2>3 DEF DeleteOn, z
<1> HIDE DEF f, T
<1>4. f \in T
  BY <1>1, <1>2, <1>3, De!FoldType
<1> QED
  BY <1>4 DEF T, f

\* A vinode goes with one level of children (vfs.c:337-345).
LEMMA RemoveCuts ==
  ASSUME NEW s, Tabled(s), NEW idx \in VN, NEW par \in Vinodes
  PROVE  LET t == remove_dir(s, idx, par) IN Tabled(t) /\ Cuts(s.v, t.v)
<1> DEFINE v == s.v
           pre == {k \in Range(Children(v, par)) : v[k].next = idx}
           pk == CHOOSE k \in pre : TRUE
           nx == v[idx].next
           v1 == [v EXCEPT ![pk].next = nx]
           order == Append(Children(v, idx), idx)
           v2 == FoldLeft(delete_vinode, v1, order)
           h == s.harm \cup (IF CutsLink(v, Range(order)) THEN {"cut"} ELSE {})
                  \cup (IF Nested(v, Range(order), idx) THEN {"nested"} ELSE {})
           x == [s EXCEPT !.v = v2, !.harm = h]
           t == remove_dir(s, idx, par)
<1>1. t = IF ~ Good(s) THEN s
          ELSE IF idx = None \/ pre = {} THEN Fail(s, "index")
          ELSE x
  BY Zenon DEF remove_dir
<1>2. v \in Tab /\ IsSt(s) /\ s.fault \in Faults /\ s.r \in VN
  BY DEF Tabled
<1> HIDE DEF v, pre, h, t
<1>3. CASE ~ (idx = None \/ pre = {})
  <2>1. idx \in Vinodes
    BY <1>3 DEF VN
  <2>2. nx \in VN /\ Children(v, idx) \in Seq(Vinodes)
    BY <1>2, <2>1, ChildrenType, RecFields DEF Tab
  <2>3. order \in Seq(Vinodes)
    BY <2>1, <2>2
  <2> HIDE DEF order, nx, pk
  <2>4. Alike(v, v1)
    BY <1>2, <2>2, TabSet
  <2>5. v1 \in Tab
    BY <2>4, AlikeTab
  <2> HIDE DEF v1
  <2>6. Cuts(v1, v2)
    BY <2>3, <2>5, DeletesCut
  <2> HIDE DEF v2
  <2>7. Cuts(v, v2)
    <3>1. Cuts(v, v1)
      BY <2>4, GrowsTwice
    <3> QED
      BY <2>6, <3>1, GrowsTwice
  <2>8. x = MkSt(v2, s.e, s.fault, s.r, h)
    BY <1>2, StTableHarm
  <2> HIDE DEF x
  <2>9. IsSt(x) /\ x.v = v2 /\ x.fault = s.fault /\ x.r = s.r
    BY <2>8, StFields
  <2>10. Tabled(x) /\ Cuts(s.v, x.v)
    BY <1>2, <2>7, <2>9 DEF Tabled, Cuts, v
  <2>11. Cuts(s.v, s.v)
    BY <1>2, GrowsTwice DEF v
  <2> QED
    BY <1>1, <1>3, <2>10, <2>11 DEF t
<1>4. CASE idx = None \/ pre = {}
  <2> DEFINE y == Fail(s, "index")
  <2>1. y = MkSt(s.v, s.e, "index", s.r, s.harm)
    BY <1>2, StFail
  <2> HIDE DEF y
  <2>2. IsSt(y) /\ y.v = s.v /\ y.fault = "index" /\ y.r = s.r
    BY <2>1, StFields
  <2>3. Tabled(y) /\ y.v = s.v
    BY <1>2, <2>2 DEF Tabled, v, Faults
  <2>4. Cuts(s.v, s.v)
    BY <1>2, GrowsTwice DEF v
  <2> HIDE DEF x
  <2> QED
    BY <1>1, <1>4, <2>3, <2>4 DEF t, y
<1> QED
  BY <1>3, <1>4

\* The end of a command: the table is still one.
Ends(s) ==
  /\ IsSt(s) /\ s.fault \in Faults
  /\ Good(s) /\ "astray" \notin s.harm => s.v \in Tab

\* A step that adds.
LEMMA EndsGoes ==
  ASSUME NEW s, NEW t, Goes(s, t)
  PROVE  Ends(t)
BY DEF Ends, Goes, Tabled

\* A removal at the end.
LEMMA EndsRemove ==
  ASSUME NEW s, Tabled(s), NEW idx \in VN, NEW par \in Vinodes
  PROVE  Ends(remove_dir(s, idx, par))
<1> DEFINE t == remove_dir(s, idx, par)
<1>1. Tabled(t)
  BY RemoveCuts
<1> HIDE DEF t
<1> QED
  BY <1>1 DEF Ends, Tabled, t

\* The names on a path.
LEMMA PathNames ==
  ASSUME NEW path \in AllPaths
  PROVE  /\ path \in Seq(STRING) /\ Front(path) \in Seq(STRING)
         /\ Last(path) \in Names /\ path \o <<".">> \in Seq(Str)
<1>1. path \in Seq(STRING) /\ path # <<>>
  BY VfsConstants
<1>2. Len(path) \in Nat /\ Len(path) >= 1 /\ Len(path) \in 1 .. Len(path)
  BY <1>1
<1>3. Front(path) \in Seq(STRING)
  BY <1>1, <1>2 DEF Front
<1>4. Last(path) \in Names
  BY PathEnds, NamesAre
<1>5. path \in Seq(Str)
  <2>1. STRING \subseteq Str
    BY DEF Str
  <2>0. path \in [1 .. Len(path) -> STRING]
    BY <1>1
  <2>2. path \in [1 .. Len(path) -> Str]
    BY <2>0, <2>1
  <2> QED
    BY <1>2, <2>2, SeqDef
<1>6. <<".">> \in Seq(Str)
  BY DEF Str
<1>7. path \o <<".">> \in Seq(Str)
  <2> HIDE DEF Str
  <2> QED
    BY <1>5, <1>6
<1> QED
  BY <1>1, <1>3, <1>4, <1>7

\* A vinode gets another inode.
LEMMA InodeSet ==
  ASSUME NEW v \in Tab, NEW n \in Vinodes, NEW i \in Inodes
  PROVE  LET u == [v EXCEPT ![n].ridx = i] IN
         u \in Tab /\ \A k \in Vinodes : k # n => u[k] = v[k]
<1>1. v[n] \in Rec
  BY DEF Tab
<1>2. [v[n] EXCEPT !.ridx = i] \in Rec
  BY <1>1 DEF Rec, VinodeType
<1> QED
  BY <1>2 DEF Tab

\* The state after a call on the disk has the same table.
LEMMA OnDiskTable ==
  ASSUME NEW s, Tabled(s), NEW e
  PROVE  Tabled(OnDisk(s, e)) /\ OnDisk(s, e).v = s.v
<1>1. IsSt(s) /\ "wild" \in Faults
  BY DEF Tabled, Faults
<1>2. CASE e.wild
  <2>1. OnDisk(s, e) = MkSt(s.v, s.e, "wild", s.r, s.harm)
    BY <1>1, <1>2, StFail DEF OnDisk
  <2> QED
    BY <1>1, <2>1, StFields DEF Tabled
<1>3. CASE ~ e.wild
  <2>1. OnDisk(s, e) = MkSt(s.v, e, s.fault, s.r, s.harm)
    BY <1>1, <1>3, StDisk DEF OnDisk
  <2> QED
    BY <1>1, <2>1, StFields DEF Tabled
<1> QED
  BY <1>2, <1>3

\* A step that fails for want of a directory.
LEMMA FailGoes ==
  ASSUME NEW s, Tabled(s), NEW x \in Faults PROVE Goes(s, Fail(s, x))
<1>1. None \in VN
  BY DEF VN
<1> QED
  BY <1>1, GoesSet

\* The end of vfs_create: the new vinode gets its inode.
LEMMA CreateEndEnds ==
  ASSUME NEW p, Tabled(p), NEW k \in Vinodes, NEW n, NEW h,
         "astray" \notin h => n \in Inodes
  PROVE  Ends([p EXCEPT !.v[k].ridx = n, !.harm = @ \cup h])
<1> DEFINE v1 == [p.v EXCEPT ![k].ridx = n]
           h1 == p.harm \cup h
           t == [p EXCEPT !.v[k].ridx = n, !.harm = @ \cup h]
           q == [p EXCEPT !.v = v1]
<1>0. IsSt(p) /\ p.v \in Tab /\ p.fault \in Faults
  BY DEF Tabled
<1>1. q = MkSt(v1, p.e, p.fault, p.r, p.harm)
  BY <1>0, StTable
<1>2. t = [q EXCEPT !.harm = @ \cup h]
  OBVIOUS
<1>3. n \in Inodes => v1 \in Tab /\ \A i \in Vinodes : i # k => v1[i] = p.v[i]
  BY <1>0, InodeSet
<1> HIDE DEF v1, q, t
<1>4. IsSt(q) /\ q.harm = p.harm /\ q.e = p.e /\ q.v = v1 /\ q.fault = p.fault
  BY <1>1, StFields
<1>5. [q EXCEPT !.harm = @ \cup h] = [q EXCEPT !.harm = h1]
  BY <1>4
<1>6. [q EXCEPT !.harm = h1] = MkSt(q.v, q.e, q.fault, q.r, h1)
  BY <1>4, StHarm
<1>7. IsSt(t) /\ t.v = v1 /\ t.harm = h1 /\ t.fault = p.fault
  BY <1>2, <1>4, <1>5, <1>6, StFields
<1>9. Ends(t)
  BY <1>0, <1>3, <1>7 DEF Ends
<1> QED
  BY <1>9 DEF t

\* What mkdir does to the table (vfs.c:478-503).
LEMMA CreateEnds ==
  ASSUME NEW s, Tabled(s), DiskInv(s.e), NEW path \in AllPaths
  PROVE  Ends(vfs_create(s, path))
<1> DEFINE w == lookup_auto(s, Front(path))
           d == w.v[w.r]
           c == ext2_create(w.e, d.ridx, Last(path), DirMode)
           u == OnDisk(w, c.e)
           a == append_dir(u, w.r, Last(path), DirMode, d.fs)
           p == prepare_dir(a, a.r, w.r, d.fs)
           h == Astray(w.e, d.ridx, "DIR")
           t == [p EXCEPT !.v[a.r].ridx = c.n, !.harm = @ \cup h]
           r == vfs_create(s, path)
<1>1. r = IF Good(w)
          THEN IF w.r = None THEN Fail(w, "index")
               ELSE IF d.fs # "EXT2FS" THEN w
               ELSE IF Good(u)
                    THEN IF Good(a) THEN IF Good(p) THEN t ELSE p ELSE a
                    ELSE u
          ELSE w
  BY Zenon DEF vfs_create, InDir, Then
<1>2. s.e \in Disk /\ Last(path) \in Names /\ Last(path) \in Str
  BY PathNames, PathEnds DEF DiskInv
<1>3. Goes(s, w) /\ Same(s, w)
  BY <1>2, LookupGoes, PathNames
<1>4. Tabled(w) /\ w.e = s.e /\ w.v \in Tab /\ w.r \in VN /\ IsSt(w)
  BY <1>3 DEF Goes, Same, Tabled
<1>5. "index" \in Faults
  BY DEF Faults
<1>6. Ends(w) /\ Ends(Fail(w, "index"))
  <2>1. Goes(w, Fail(w, "index"))
    BY <1>4, <1>5, FailGoes
  <2>2. Goes(s, Fail(w, "index"))
    BY <1>3, <2>1, GoesTwice
  <2> QED
    BY <1>3, <2>2, EndsGoes
<1>7. ASSUME w.r # None, d.fs = "EXT2FS" PROVE
        /\ Ends(u) /\ (Good(u) => Ends(a))
        /\ (Good(u) /\ Good(a) => Ends(p))
        /\ (Good(u) /\ Good(a) /\ Good(p) => Ends(t))
  <2>1. w.r \in Vinodes
    BY <1>4, <1>7 DEF VN
  <2>2. Tabled(u) /\ u.v = w.v
    BY <1>4, OnDiskTable
  <2>3. Good(u) => ~ c.e.wild
    BY <1>4, OnDiskIs
  <2>4. ASSUME "astray" \notin h, Good(u) PROVE c.n \in Inodes
    <3>1. d.ridx \in w.e.inodemap /\ "DIR" \in w.e.ind[d.ridx].mode
      BY <2>4, NotAstray
    <3>2. DirMode \in {DirMode, FileMode} /\ DiskInv(w.e)
      BY <1>4
    <3>3. DiskInv(c.e) /\ Created(w.e, c.e, d.ridx, c.n, DirMode)
      BY <1>2, <2>3, <2>4, <3>1, <3>2, Create
    <3> QED
      BY <3>3 DEF Created
  <2> HIDE DEF u, c, h
  <2>5. DirMode \in Given /\ d.fs \in {"VFS", "EXT2FS"}
    BY <1>7 DEF DirMode, Given
  <2>6. Goes(u, a) /\ (Good(a) => a.r \in Vinodes /\ u.v[a.r].mode = {})
    BY <1>2, <2>1, <2>2, <2>5, AppendGoes
  <2> HIDE DEF a
  <2>7. Tabled(a)
    BY <2>6, GoesTwice
  <2>8. Good(a) => Goes(a, p)
    BY <2>1, <2>5, <2>6, <2>7, PrepareGoes
  <2> HIDE DEF p
  <2>9. Goes(w, u)
    BY <1>4, <2>2, GrowsTwice DEF Goes, Tabled
  <2>10. Goes(s, u)
    BY <1>3, <2>9, GoesTwice
  <2>11. Goes(s, a)
    BY <2>6, <2>10, GoesTwice
  <2>12. Good(a) => Goes(s, p) /\ Goes(u, p)
    BY <2>6, <2>8, <2>11, GoesTwice
  <2>13. ASSUME Good(u), Good(a) PROVE Ends(t)
    <3>1. Tabled(p)
      BY <2>12, <2>13 DEF Goes
    <3>2. a.r \in Vinodes
      BY <2>6, <2>13
    <3>3. "astray" \notin h => c.n \in Inodes
      BY <2>4, <2>13
    <3> DEFINE k == a.r
               n == c.n
    <3> HIDE DEF k, n
    <3>4. Ends([p EXCEPT !.v[k].ridx = n, !.harm = @ \cup h])
      BY <3>1, <3>2, <3>3, CreateEndEnds DEF k, n
    <3> QED
      BY <3>4 DEF k, n
  <2> HIDE DEF t
  <2>14. Good(u) /\ Good(a) => Ends(t)
    BY <2>13
  <2>15. Ends(u) /\ Ends(a) /\ (Good(a) => Ends(p))
    BY <2>10, <2>11, <2>12, EndsGoes
  <2> QED
    BY <2>14, <2>15
<1> HIDE DEF w, d, c, u, a, p, h, t, r
<1>8. Ends(r)
  BY <1>1, <1>6, <1>7
<1> QED
  BY <1>8 DEF r

\* The end of vfs_remove.
LEMMA RemovedEnds ==
  ASSUME NEW w, Tabled(w), NEW idx \in VN, w.r \in Vinodes, NEW name, NEW x
  PROVE  Ends(Removed(w, idx, name, x))
<1> DEFINE u == OnDisk(w, x.e)
           h == RemoveHarm(w.e, x.e, w.v[w.r].ridx, name)
           h1 == u.harm \cup h
           t == [u EXCEPT !.harm = @ \cup h]
           q == remove_dir(t, idx, w.r)
           r == Removed(w, idx, name, x)
<1>1. r = IF x.ret # 0 THEN u ELSE q
  BY Zenon DEF Removed
<1>2. Tabled(u) /\ u.v = w.v
  BY OnDiskTable
<1>3. Goes(w, u)
  BY <1>2, GrowsTwice DEF Goes, Tabled
<1>4. t = [u EXCEPT !.harm = h1]
  OBVIOUS
<1> HIDE DEF u, h1, h
<1>5. t = MkSt(u.v, u.e, u.fault, u.r, h1)
  BY <1>2, <1>4, StHarm DEF Tabled
<1> HIDE DEF t
<1>6. Tabled(t) /\ t.v = w.v
  BY <1>2, <1>5, StFields DEF Tabled
<1>7. Ends(q)
  BY <1>6, EndsRemove
<1> HIDE DEF q, r
<1>8. Ends(r)
  BY <1>1, <1>3, <1>7, EndsGoes
<1> QED
  BY <1>8 DEF r

\* What rmdir, and unlink at the end, do to the table (vfs.c:505-532).
LEMMA RemoveEnds ==
  ASSUME NEW s, Tabled(s), s.e \in Disk, NEW path \in AllPaths
  PROVE  Ends(vfs_remove(s, path))
<1> DEFINE name == Last(path)
           mode == IF name \in Dotted THEN FileMode ELSE DirMode
           n == lookup_auto(s, path)
           w == lookup_auto(n, Front(path))
           x == Removed(w, n.r, name, ext2_remove(w.e, w.v[w.r].ridx, name, mode))
           r == vfs_remove(s, path)
<1>1. r = IF Good(n)
          THEN IF Good(w)
               THEN IF w.r = None THEN Fail(w, "index")
                    ELSE IF w.v[w.r].fs # "EXT2FS" THEN w ELSE x
               ELSE w
          ELSE n
  BY Zenon DEF vfs_remove, InDir, Then
<1>2. Goes(s, n) /\ Same(s, n)
  BY LookupGoes, PathNames
<1>3. Tabled(n) /\ n.e \in Disk /\ n.r \in VN
  BY <1>2 DEF Goes, Same, Tabled
<1> HIDE DEF n
<1>4. Goes(n, w)
  BY <1>3, LookupGoes, PathNames
<1>5. Goes(s, w) /\ Tabled(w)
  BY <1>2, <1>4, GoesTwice
<1>6. w.r \in VN
  BY <1>5 DEF Tabled
<1> HIDE DEF w
<1>7. Goes(s, Fail(w, "index"))
  <2>1. "index" \in Faults
    BY DEF Faults
  <2>2. Goes(w, Fail(w, "index"))
    BY <1>5, <2>1, FailGoes
  <2> QED
    BY <1>5, <2>2, GoesTwice
<1>8. w.r # None => Ends(x)
  <2> SUFFICES ASSUME w.r # None PROVE Ends(x)
    OBVIOUS
  <2>1. w.r \in Vinodes
    BY <1>6 DEF VN
  <2> QED
    BY <1>3, <1>5, <2>1, RemovedEnds
<1> HIDE DEF x, r, name, mode
<1>9. Ends(n) /\ Ends(w) /\ Ends(Fail(w, "index"))
  BY <1>2, <1>5, <1>7, EndsGoes
<1>10. Ends(r)
  BY <1>1, <1>8, <1>9
<1> QED
  BY <1>10 DEF r

\* What link does to the table (vfs.c:534-550).
LEMMA LinkEnds ==
  ASSUME NEW s, Tabled(s), s.e \in Disk, NEW oldpath \in AllPaths, NEW newpath \in AllPaths
  PROVE  Ends(vfs_link(s, oldpath, newpath))
<1> DEFINE o == lookup_auto(s, oldpath)
           n == lookup_auto(o, newpath)
           w == lookup_auto(n, Front(newpath))
           a == append_dir(w, w.r, Last(newpath), {"LINK"}, "VFS")
           v1 == add_link(a.v, o.r, a.r)
           t == [a EXCEPT !.v = v1]
           r == vfs_link(s, oldpath, newpath)
<1>1. r = IF Good(o)
          THEN IF o.r = None THEN o
               ELSE IF Good(n)
                    THEN IF n.r # None THEN n
                         ELSE IF Good(w)
                              THEN IF w.r = None THEN Fail(w, "index")
                                   ELSE IF Good(a) THEN t ELSE a
                              ELSE w
                    ELSE n
          ELSE o
  BY Zenon DEF vfs_link, InDir, Then
<1>2. Goes(s, o) /\ Same(s, o)
  BY LookupGoes, PathNames
<1>3. Tabled(o) /\ o.e \in Disk /\ o.r \in VN
  BY <1>2 DEF Goes, Same, Tabled
<1> HIDE DEF o
<1>4. Goes(o, n) /\ Same(o, n)
  BY <1>3, LookupGoes, PathNames
<1>5. Tabled(n) /\ n.e \in Disk
  BY <1>3, <1>4 DEF Goes, Same
<1> HIDE DEF n
<1>6. Goes(n, w)
  BY <1>5, LookupGoes, PathNames
<1>7. Goes(s, n)
  BY <1>2, <1>4, GoesTwice
<1>8. Goes(s, w) /\ Tabled(w)
  BY <1>6, <1>7, GoesTwice
<1>9. w.r \in VN
  BY <1>8 DEF Tabled
<1> HIDE DEF w
<1>10. Goes(s, Fail(w, "index"))
  <2>1. "index" \in Faults
    BY DEF Faults
  <2>2. Goes(w, Fail(w, "index"))
    BY <1>8, <2>1, FailGoes
  <2> QED
    BY <1>8, <2>2, GoesTwice
<1>11. ASSUME o.r # None, w.r # None
       PROVE  Goes(s, a) /\ (Good(a) => Goes(s, t))
  <2>1. w.r \in Vinodes /\ o.r \in Vinodes
    BY <1>3, <1>9, <1>11 DEF VN
  <2>2. {"LINK"} \in Given /\ "VFS" \in {"VFS", "EXT2FS"} /\ Last(newpath) \in Names
    BY PathNames DEF Given
  <2>3. Goes(w, a) /\ (Good(a) => a.r \in Vinodes)
    BY <1>8, <2>1, <2>2, AppendGoes
  <2> HIDE DEF a
  <2>4. Goes(s, a) /\ Tabled(a) /\ a.v \in Tab
    BY <1>8, <2>3, GoesTwice DEF Tabled
  <2>5. ASSUME Good(a) PROVE Goes(s, t)
    <3>1. Alike(a.v, v1)
      BY <2>1, <2>3, <2>4, <2>5, AddAlike
    <3> HIDE DEF v1
    <3>2. Grows(a.v, v1) /\ None \in VN
      BY <3>1, GrowsTwice DEF VN
    <3>3. Goes(a, t)
      BY <2>4, <3>2, GoesTable
    <3> HIDE DEF t
    <3> QED
      BY <2>4, <3>3, GoesTwice
  <2> QED
    BY <2>4, <2>5
<1> HIDE DEF a, v1, t, r
<1>12. /\ Ends(o) /\ Ends(n) /\ Ends(w) /\ Ends(Fail(w, "index"))
       /\ (o.r # None /\ w.r # None => Ends(a) /\ (Good(a) => Ends(t)))
  BY <1>2, <1>7, <1>8, <1>10, <1>11, EndsGoes
<1>13. Ends(r)
  BY <1>1, <1>12
<1> QED
  BY <1>13 DEF r

\* A vinode becomes what another one is.
LEMMA MovedTab ==
  ASSUME NEW v \in Tab, NEW l \in Vinodes, NEW k \in Vinodes
  PROVE  [v EXCEPT ![l].mode = v[k].mode, ![l].ridx = v[k].ridx, ![l].fs = v[k].fs] \in Tab
<1> DEFINE x == v[l]
           y == v[k]
           m == [v EXCEPT ![l].mode = y.mode, ![l].ridx = y.ridx, ![l].fs = y.fs]
           a == [x EXCEPT !.mode = y.mode]
           b == [a EXCEPT !.ridx = y.ridx]
           c == [b EXCEPT !.fs = y.fs]
<1>1. x \in Rec /\ y \in Rec
  BY DEF Tab
<1>2. m = [v EXCEPT ![l] = c]
  <2> DEFINE m1 == [v EXCEPT ![l].mode = y.mode]
             m2 == [m1 EXCEPT ![l].ridx = y.ridx]
             m3 == [m2 EXCEPT ![l].fs = y.fs]
  <2>1. m = m3
    OBVIOUS
  <2>2. DOMAIN v = Vinodes /\ v = [i \in Vinodes |-> v[i]]
    BY DEF Tab
  <2>3. m1 = [v EXCEPT ![l] = a]
    BY <2>2
  <2> HIDE DEF a, m1, y
  <2>4. m2 = [v EXCEPT ![l] = b]
    BY <2>2, <2>3
  <2> HIDE DEF b, m2
  <2>5. m3 = [v EXCEPT ![l] = c]
    BY <2>2, <2>4
  <2> HIDE DEF m, m3
  <2> QED
    BY <2>1, <2>5
<1> HIDE DEF x, y, m
<1>3. a = MkRec(x.name, x.fs, y.mode, x.dot, x.ddot, x.next, x.child, x.prev_link,
                x.next_link, x.linkcnt, x.ridx)
  BY <1>1, RecFields DEF MkRec
<1> HIDE DEF a
<1>4. b = MkRec(x.name, x.fs, y.mode, x.dot, x.ddot, x.next, x.child, x.prev_link,
                x.next_link, x.linkcnt, y.ridx)
  BY <1>3 DEF MkRec
<1> HIDE DEF b
<1>5. c = MkRec(x.name, y.fs, y.mode, x.dot, x.ddot, x.next, x.child, x.prev_link,
                x.next_link, x.linkcnt, y.ridx)
  BY <1>4 DEF MkRec
<1> HIDE DEF c
<1>6. c \in Rec
  BY <1>1, <1>5, RecFields, RecMade
<1>7. m \in Tab
  BY <1>2, <1>6 DEF Tab
<1> QED
  BY <1>7 DEF m, y

\* What unlink does with the vinode (vfs.c:557-580).
LEMMA UnlinkChildEnds ==
  ASSUME NEW w, Tabled(w), w.e \in Disk, w.r \in Vinodes, NEW k \in VN, NEW path \in AllPaths
  PROVE  Ends(UnlinkChild(w, k, path))
<1> DEFINE v == w.v
           l == v[k].prev_link
           moved == [v EXCEPT ![l].mode = v[k].mode, ![l].ridx = v[k].ridx,
                              ![l].fs = v[k].fs]
           how   == {"moved"} \cup (IF Children(v, k) = <<>> THEN {} ELSE {"hollow"})
           v1 == remove_link(v, k)
           v2 == remove_link(moved, k)
           h2 == w.harm \cup how
           a == [w EXCEPT !.v = v1]
           b == [w EXCEPT !.v = v2, !.harm = h2]
           b1 == [w EXCEPT !.v = v2, !.harm = @ \cup how]
           r == UnlinkChild(w, k, path)
<1>1. r = IF k = None THEN w
          ELSE IF v[k].name \in {".", ".."} THEN Fail(w, "assert")
          ELSE IF "LINK" \in v[k].mode THEN remove_dir(a, k, w.r)
          ELSE IF l # k THEN remove_dir(b1, k, w.r)
          ELSE vfs_remove(w, path)
  BY Zenon DEF UnlinkChild
<1>2. v \in Tab /\ IsSt(w) /\ w.fault \in Faults /\ w.r \in VN
  BY DEF Tabled
<1>3. k # None => k \in Vinodes /\ l \in Vinodes
  BY <1>2, RecFields DEF Tab, VN
<1>4. k # None => moved \in Tab
  <2> HIDE DEF v, l
  <2> QED
    BY <1>2, <1>3, MovedTab
<1> HIDE DEF moved, r, l
<1>5. b1 = b
  <2> HIDE DEF how, v2
  <2> QED
    OBVIOUS
<1> HIDE DEF b1, h2, how
<1>6. ASSUME k # None
      PROVE  Ends(remove_dir(a, k, w.r)) /\ Ends(remove_dir(b, k, w.r))
  <2>1. Alike(v, v1) /\ Alike(moved, v2)
    BY <1>2, <1>3, <1>4, <1>6, RemoveAlike
  <2> HIDE DEF v1, v2
  <2>2. v1 \in Tab /\ v2 \in Tab
    BY <2>1, AlikeTab
  <2>3. a = MkSt(v1, w.e, w.fault, w.r, w.harm)
    BY <1>2, StTable
  <2>3b. b = MkSt(v2, w.e, w.fault, w.r, h2)
    BY <1>2, StTableHarm
  <2> HIDE DEF a, b
  <2>4. Tabled(a)
    BY <1>2, <2>2, <2>3, StFields DEF Tabled
  <2>5. Tabled(b)
    BY <1>2, <2>2, <2>3b, StFields DEF Tabled
  <2>6. Ends(remove_dir(a, k, w.r))
    BY <2>4, EndsRemove
  <2>7. Ends(remove_dir(b, k, w.r))
    BY <2>5, EndsRemove
  <2> QED
    BY <2>6, <2>7
<1>7. Ends(w)
  BY GoesTwice, EndsGoes
<1>8. Ends(vfs_remove(w, path))
  BY RemoveEnds
<1>8a. Ends(Fail(w, "assert"))
  <2>1. "assert" \in Faults
    BY DEF Faults
  <2> QED
    BY <2>1, FailGoes, EndsGoes
<1> HIDE DEF a, b, v1, v2
<1>9. Ends(r)
  BY <1>1, <1>5, <1>6, <1>7, <1>8, <1>8a
<1> QED
  BY <1>9 DEF r

\* What unlink does to the table (vfs.c:552-582).
LEMMA UnlinkEnds ==
  ASSUME NEW s, Tabled(s), s.e \in Disk, NEW path \in AllPaths
  PROVE  Ends(vfs_unlink(s, path))
<1> DEFINE w == lookup_auto(s, Front(path))
           k == NamedChild(w.v, w.r, Last(path))
           x == UnlinkChild(w, k, path)
           r == vfs_unlink(s, path)
<1>1. r = IF Good(w) THEN IF w.r = None THEN Fail(w, "index") ELSE x ELSE w
  BY Zenon DEF vfs_unlink, InDir, Then
<1>2. Goes(s, w) /\ Same(s, w)
  BY LookupGoes, PathNames
<1>3. Tabled(w) /\ w.e \in Disk /\ w.r \in VN /\ w.v \in Tab
  BY <1>2 DEF Goes, Same, Tabled
<1> HIDE DEF w
<1>4. Goes(s, Fail(w, "index"))
  <2>1. "index" \in Faults
    BY DEF Faults
  <2>2. Goes(w, Fail(w, "index"))
    BY <1>3, <2>1, FailGoes
  <2> QED
    BY <1>2, <2>2, GoesTwice
<1>5. w.r # None => Ends(x)
  <2> SUFFICES ASSUME w.r # None PROVE Ends(x)
    OBVIOUS
  <2>1. w.r \in Vinodes
    BY <1>3 DEF VN
  <2>2. k \in VN
    BY <1>3, <2>1, NamedType
  <2> HIDE DEF k
  <2> QED
    BY <1>3, <2>1, <2>2, UnlinkChildEnds
<1> HIDE DEF x, r
<1>6. Ends(w) /\ Ends(Fail(w, "index"))
  BY <1>2, <1>4, EndsGoes
<1>7. Ends(r)
  BY <1>1, <1>5, <1>6
<1> QED
  BY <1>7 DEF r

\* The modes that mount and unmount change.
LEMMA ModeTab ==
  ASSUME NEW v \in Tab, NEW k \in Vinodes
  PROVE  /\ LET u == [v EXCEPT ![k].mode = @ \ {"MNT_ABLE"}] IN
            u \in Tab /\ \A i \in Vinodes : u[i].ridx = v[i].ridx /\ u[i].fs = v[i].fs
         /\ Grows(v, [v EXCEPT ![k].mode = @ \cup {"MNT_ABLE"}])
<1> DEFINE x == v[k]
           a == [x EXCEPT !.mode = @ \ {"MNT_ABLE"}]
           b == [x EXCEPT !.mode = @ \cup {"MNT_ABLE"}]
           ma == x.mode \ {"MNT_ABLE"}
           mb == x.mode \cup {"MNT_ABLE"}
           u == [v EXCEPT ![k].mode = @ \ {"MNT_ABLE"}]
           z == [v EXCEPT ![k].mode = @ \cup {"MNT_ABLE"}]
<1>1. x \in Rec /\ DOMAIN v = Vinodes
  BY DEF Tab
<1>2. u = [v EXCEPT ![k] = a] /\ z = [v EXCEPT ![k] = b]
  BY <1>1
<1> HIDE DEF x, u, z
<1>3. /\ x.mode \in SUBSET VModes
      /\ x.mode \cap {"RD", "WR"} # {} => x.fs = "EXT2FS" /\ x.ridx \in Inodes
  BY <1>1, RecFields
<1>4. ma \in SUBSET VModes /\ mb \in SUBSET VModes
      /\ ma \cap {"RD", "WR"} = x.mode \cap {"RD", "WR"}
      /\ mb \cap {"RD", "WR"} = x.mode \cap {"RD", "WR"} /\ mb # {}
  BY <1>3 DEF VModes
<1>4a. a = [x EXCEPT !.mode = ma] /\ b = [x EXCEPT !.mode = mb]
  OBVIOUS
<1> HIDE DEF a, b, ma, mb
<1>5. a = MkRec(x.name, x.fs, ma, x.dot, x.ddot, x.next, x.child, x.prev_link,
                x.next_link, x.linkcnt, x.ridx)
  BY <1>1, <1>4a, RecFields DEF MkRec
<1>6. b = MkRec(x.name, x.fs, mb, x.dot, x.ddot, x.next, x.child, x.prev_link,
                x.next_link, x.linkcnt, x.ridx)
  BY <1>1, <1>4a, RecFields DEF MkRec
<1>7. a \in Rec /\ a.ridx = x.ridx /\ a.fs = x.fs
  BY <1>1, <1>3, <1>4, <1>5, RecFields, RecMade
<1>8. b \in Rec /\ b.ridx = x.ridx /\ b.fs = x.fs /\ b.mode # {}
  BY <1>1, <1>3, <1>4, <1>6, RecFields, RecMade
<1>9. u \in Tab /\ \A i \in Vinodes : u[i].ridx = v[i].ridx /\ u[i].fs = v[i].fs
  BY <1>2, <1>7 DEF Tab, x
<1>10. Grows(v, z)
  BY <1>2, <1>8 DEF Tab, Grows, x
<1> QED
  BY <1>9, <1>10 DEF u, z

\* What vfs_mount writes into the two vinodes.
Mounted(v, f, n) ==
  [[[v EXCEPT ![f].mode = @ \ {"MNT_ABLE"}] EXCEPT ![n].linkcnt = f]
     EXCEPT ![n].ridx = EXT2_ROOT]

\* They stay vinodes.
LEMMA MountedTab ==
  ASSUME NEW v \in Tab, NEW f \in Vinodes, NEW n \in Vinodes
  PROVE  Mounted(v, f, n) \in Tab
<1> DEFINE a == [v EXCEPT ![f].mode = @ \ {"MNT_ABLE"}]
           b == [a EXCEPT ![n].linkcnt = f]
           c == [b EXCEPT ![n].ridx = EXT2_ROOT]
<1>1. a \in Tab
  BY ModeTab
<1>2. Mounted(v, f, n) = c
  BY DEF Mounted
<1> HIDE DEF a
<1>3. b \in Tab
  <2>1. a[n] \in Rec
    BY <1>1 DEF Tab
  <2>2. [a[n] EXCEPT !.linkcnt = f] \in Rec
    BY <2>1 DEF Rec, VinodeType
  <2> QED
    BY <1>1, <2>2 DEF Tab
<1> HIDE DEF b
<1>4. EXT2_ROOT \in Inodes
  BY DiskRoom, Sizes DEF EXT2_ROOT, Inodes
<1>5. c \in Tab
  BY <1>3, <1>4, InodeSet
<1> HIDE DEF c
<1> QED
  BY <1>2, <1>5

\* The end of vfs_mount.
LEMMA MountEndIs ==
  ASSUME NEW a, IsSt(a), NEW f
  PROVE  MountEnd(a, f) = MkSt(Mounted(a.v, f, a.r), a.e, a.fault, a.r, a.harm)
<1> DEFINE n == a.r
           v1 == [a.v EXCEPT ![f].mode = @ \ {"MNT_ABLE"}]
           v2 == [v1 EXCEPT ![n].linkcnt = f]
           v3 == [v2 EXCEPT ![n].ridx = EXT2_ROOT]
           b == TakeMode(a, f, "MNT_ABLE")
           c == [b EXCEPT !.v[n].linkcnt = f]
           d == [c EXCEPT !.v[n].ridx = EXT2_ROOT]
<1>1. MountEnd(a, f) = d
  BY DEF MountEnd, TakeMode
<1>2. b = [a EXCEPT !.v = v1]
  BY DEF TakeMode
<1>3. Mounted(a.v, f, n) = v3
  BY DEF Mounted
<1>4. v1 = [a.v EXCEPT ![f].mode = @ \ {"MNT_ABLE"}]
  OBVIOUS
<1> HIDE DEF b, n, v1
<1>5. b = MkSt(v1, a.e, a.fault, a.r, a.harm)
  BY <1>2, StTable
<1>6. IsSt(b) /\ b.v = v1 /\ b.e = a.e /\ b.fault = a.fault /\ b.r = a.r /\ b.harm = a.harm
  BY <1>5, StFields
<1>7. c = [b EXCEPT !.v = v2]
  BY <1>6
<1> HIDE DEF c, v2
<1>8. c = MkSt(v2, b.e, b.fault, b.r, b.harm)
  BY <1>6, <1>7, StTable
<1>9. IsSt(c) /\ c.v = v2 /\ c.e = a.e /\ c.fault = a.fault /\ c.r = a.r /\ c.harm = a.harm
  BY <1>6, <1>8, StFields
<1>10. d = [c EXCEPT !.v = v3]
  BY <1>9
<1> HIDE DEF d, v3
<1>11. d = MkSt(v3, c.e, c.fault, c.r, c.harm)
  BY <1>9, <1>10, StTable
<1> QED
  BY <1>1, <1>3, <1>9, <1>11 DEF n

\* What mount does to the table (vfs.c:431-456).
LEMMA MountTabled ==
  ASSUME NEW s, Tabled(s), s.e \in Disk, NEW E, NEW filename \in Seq(E),
         NEW dirname \in AllPaths
  PROVE  Tabled(vfs_mount(s, filename, dirname))
<1> DEFINE f == Access(s, filename, {"FILE", "MNT_ABLE"})
           x == Access(f, dirname, {"DIR"})
           w == lookup_auto(x, Front(dirname))
           a == append_dir(w, w.r, Last(dirname), {"DIR", "UNMNT_ABLE"}, w.v[f.r].fs)
           t == MountEnd(a, f.r)
           r == vfs_mount(s, filename, dirname)
<1>1. r = IF Good(f)
          THEN IF f.r = None THEN f
               ELSE IF Good(x)
                    THEN IF x.r # None THEN x
                         ELSE IF Good(w)
                              THEN IF w.r = None THEN Fail(w, "index")
                                   ELSE IF Good(a) THEN t ELSE a
                              ELSE w
                    ELSE x
          ELSE f
  BY Zenon DEF vfs_mount, InDir, Then, MountEnd
<1>2. Goes(s, f) /\ Same(s, f)
  BY AccessGoes
<1>3. Tabled(f) /\ f.e \in Disk /\ f.r \in VN
  BY <1>2 DEF Goes, Same, Tabled
<1> HIDE DEF f
<1>4. Goes(f, x) /\ Same(f, x)
  BY <1>3, AccessGoes, PathNames
<1>5. Tabled(x) /\ x.e \in Disk
  BY <1>3, <1>4 DEF Goes, Same
<1> HIDE DEF x
<1>6. Goes(x, w)
  BY <1>5, LookupGoes, PathNames
<1>7. Goes(s, x)
  BY <1>2, <1>4, GoesTwice
<1>8. Goes(s, w) /\ Tabled(w)
  BY <1>6, <1>7, GoesTwice
<1>9. w.r \in VN /\ w.v \in Tab
  BY <1>8 DEF Tabled
<1> HIDE DEF w
<1>10. Goes(s, Fail(w, "index"))
  <2>1. "index" \in Faults
    BY DEF Faults
  <2>2. Goes(w, Fail(w, "index"))
    BY <1>8, <2>1, FailGoes
  <2> QED
    BY <1>8, <2>2, GoesTwice
<1>11. ASSUME f.r # None, w.r # None
       PROVE  Tabled(a) /\ (Good(a) => Tabled(t))
  <2>1. w.r \in Vinodes /\ f.r \in Vinodes
    BY <1>3, <1>9, <1>11 DEF VN
  <2>2. {"DIR", "UNMNT_ABLE"} \in Given /\ Last(dirname) \in Names
        /\ w.v[f.r].fs \in {"VFS", "EXT2FS"}
    BY <1>9, <2>1, PathNames, RecFields DEF Given, Tab
  <2>3. Goes(w, a) /\ (Good(a) => a.r \in Vinodes /\ w.v[a.r].mode = {})
    BY <1>8, <2>1, <2>2, AppendGoes
  <2> HIDE DEF a
  <2>4. Goes(s, a)
    BY <1>8, <2>3, GoesTwice
  <2>5. Tabled(a)
    BY <2>4 DEF Goes
  <2>6. ASSUME Good(a) PROVE Tabled(t)
    <3> DEFINE v1 == Mounted(a.v, f.r, a.r)
    <3>1. t = MkSt(v1, a.e, a.fault, a.r, a.harm)
      BY <2>5, MountEndIs DEF Tabled
    <3>2. v1 \in Tab
      BY <2>1, <2>3, <2>5, <2>6, MountedTab DEF Tabled
    <3> HIDE DEF v1, t
    <3>3. IsSt(t) /\ t.v = v1 /\ t.fault = a.fault /\ t.r = a.r
      BY <3>1, StFields
    <3> QED
      BY <2>5, <3>2, <3>3 DEF Tabled
  <2> QED
    BY <2>5, <2>6
<1>12. Tabled(f) /\ Tabled(x) /\ Tabled(w) /\ Tabled(Fail(w, "index"))
  BY <1>2, <1>7, <1>8, <1>10 DEF Goes
<1> HIDE DEF a, t, r
<1>13. Tabled(r)
  BY <1>1, <1>11, <1>12
<1> QED
  BY <1>13 DEF r

\* What unmount does to the table (vfs.c:458-473).
LEMMA UnmountEnds ==
  ASSUME NEW s, Tabled(s), s.e \in Disk, NEW path \in AllPaths
  PROVE  Ends(vfs_unmount(s, path))
<1> DEFINE i == Access(s, path, {"DIR", "UNMNT_ABLE"})
           w == lookup_auto(i, Front(path))
           u == [w EXCEPT !.v[w.v[i.r].linkcnt].mode = @ \cup {"MNT_ABLE"}]
           t == remove_dir(u, i.r, w.r)
           r == vfs_unmount(s, path)
<1>1. r = IF Good(i)
          THEN IF i.r = None THEN i
               ELSE IF Good(w) THEN IF w.r = None THEN Fail(w, "index") ELSE t
                    ELSE w
          ELSE i
  BY Zenon DEF vfs_unmount, InDir, Then
<1>2. Goes(s, i) /\ Same(s, i)
  BY AccessGoes, PathNames
<1>3. Tabled(i) /\ i.e \in Disk /\ i.r \in VN
  BY <1>2 DEF Goes, Same, Tabled
<1> HIDE DEF i
<1>4. Goes(i, w)
  BY <1>3, LookupGoes, PathNames
<1>5. Goes(s, w) /\ Tabled(w)
  BY <1>2, <1>4, GoesTwice
<1>6. w.r \in VN /\ w.v \in Tab
  BY <1>5 DEF Tabled
<1> HIDE DEF w
<1>7. Goes(s, Fail(w, "index"))
  <2>1. "index" \in Faults
    BY DEF Faults
  <2>2. Goes(w, Fail(w, "index"))
    BY <1>5, <2>1, FailGoes
  <2> QED
    BY <1>5, <2>2, GoesTwice
<1>8. i.r # None /\ w.r # None => Ends(t)
  <2> SUFFICES ASSUME i.r # None, w.r # None PROVE Ends(t)
    OBVIOUS
  <2> DEFINE m == w.v[i.r].linkcnt
             v1 == [w.v EXCEPT ![m].mode = @ \cup {"MNT_ABLE"}]
  <2>1. w.r \in Vinodes /\ i.r \in Vinodes
    BY <1>3, <1>6 DEF VN
  <2>2. m \in Vinodes
    BY <1>6, <2>1, RecFields DEF Tab
  <2>3. u = [w EXCEPT !.v = v1]
    OBVIOUS
  <2> HIDE DEF m
  <2>4. Grows(w.v, v1) /\ None \in VN
    BY <1>6, <2>2, ModeTab DEF VN
  <2> HIDE DEF v1, u
  <2>5. Goes(w, u)
    BY <1>5, <2>3, <2>4, GoesTable
  <2>6. Goes(s, u)
    BY <1>5, <2>5, GoesTwice
  <2>7. Tabled(u)
    BY <2>6 DEF Goes
  <2> QED
    BY <1>3, <2>1, <2>7, EndsRemove
<1> HIDE DEF u, t, r
<1>9. Ends(i) /\ Ends(w) /\ Ends(Fail(w, "index"))
  BY <1>2, <1>5, <1>7, EndsGoes
<1>10. Ends(r)
  BY <1>1, <1>8, <1>9
<1> QED
  BY <1>10 DEF r

\* The table that build_root makes is one (vfs.c:266-285).
LEMMA RootTab == build_root \in Tab
<1> DEFINE a == Vinode(0, "/", {"DIR"}, None, None, None, 1, None, "VFS")
           b == Vinode(1, ".", {"LINK"}, None, 2, 2, VFS_ROOT, 0, "VFS")
           c == Vinode(2, "..", {"LINK"}, 1, None, None, VFS_ROOT, 0, "VFS")
           v == [i \in Vinodes |-> CASE i = 0 -> a [] i = 1 -> b [] i = 2 -> c
                                     [] OTHER -> Unused]
           w == add_link(v, 0, 1)
<1>1. 0 \in Vinodes /\ 1 \in Vinodes /\ 2 \in Vinodes /\ VFS_ROOT = 0
  BY NamesAre DEF VFS_ROOT
<1>2. None \in VN /\ 0 \in VN /\ 1 \in VN /\ 2 \in VN
  BY <1>1 DEF VN
<1>3. "/" \in Names /\ "." \in Names /\ ".." \in Names /\ "" \in Names
  BY DEF Names, Str
<1>4. {"DIR"} \in SUBSET VModes /\ {"LINK"} \in SUBSET VModes
      /\ {"DIR"} \cap {"RD", "WR"} = {} /\ {"LINK"} \cap {"RD", "WR"} = {}
  BY DEF VModes
<1>5. a \in Rec
  BY <1>1, <1>2, <1>3, <1>4, VinodeIs
<1>6. b \in Rec
  BY <1>1, <1>2, <1>3, <1>4, VinodeIs
<1>7. c \in Rec
  BY <1>1, <1>2, <1>3, <1>4, VinodeIs
<1>8. Unused \in Rec
  <2>1. Unused = MkRec("", "VFS", {}, 0, 0, 0, 0, 0, 0, 0, 0)
    BY DEF Unused, MkRec
  <2> QED
    <3>1. {} \in SUBSET VModes /\ {} \cap {"RD", "WR"} = {}
      OBVIOUS
    <3>2. MkRec("", "VFS", {}, 0, 0, 0, 0, 0, 0, 0, 0) \in Rec
      BY <1>1, <1>2, <1>3, <3>1, RecMade
    <3> QED
      BY <2>1, <3>2
<1>9. build_root = add_link(w, 0, 2)
  BY DEF build_root
<1> HIDE DEF a, b, c
<1>10. v \in Tab
  BY <1>5, <1>6, <1>7, <1>8 DEF Tab
<1> HIDE DEF v
<1>11. w \in Tab
  BY <1>1, <1>10, AddAlike, AlikeTab
<1> HIDE DEF w
<1>12. add_link(w, 0, 2) \in Tab
  BY <1>1, <1>11, AddAlike, AlikeTab
<1> QED
  BY <1>9, <1>12

\* The table at the start is one (vfs.c:380-406).
LEMMA BootTable ==
  ASSUME NEW where \in MountPaths
  PROVE  vfs_init(where).v \in Tab
<1> DEFINE e == ext2_init(Hello, Label, Text)
           boot == St(build_root, e)
           d == append_dir(boot, VFS_ROOT, "dev", {"DIR"}, "VFS")
           p == prepare_dir(d, d.r, VFS_ROOT, "VFS")
           f == append_dir(p, d.r, Last(Device), {"FILE", "MNT_ABLE"}, "EXT2FS")
           m == vfs_mount(f, Device, where)
           r == vfs_init(where)
<1>1. r = IF Good(d) THEN IF Good(p) THEN IF Good(f) THEN m ELSE f ELSE p ELSE d
  BY Zenon DEF vfs_init, Then
<1>2. /\ "dev" \in Names /\ Last(Device) \in Names /\ VFS_ROOT \in Vinodes
      /\ {"DIR"} \in Given /\ {"FILE", "MNT_ABLE"} \in Given
  BY NamesAre DEF Names, VFS_ROOT, Given
<1>3. where \in AllPaths /\ Device \in Seq({"dev", "ramdisk0"})
  BY DEF AllPaths, Device
<1>4. Tabled(boot) /\ boot.e = e /\ e \in Disk
  <2>1. boot = MkSt(build_root, e, "none", None, {})
    BY DEF St, MkSt
  <2>2. e \in Disk
    BY InitDisk DEF DiskInv
  <2> HIDE DEF boot, e
  <2>3. /\ IsSt(boot) /\ boot.e = e /\ boot.v = build_root
        /\ boot.fault = "none" /\ boot.r = None
    BY <2>1, StFields
  <2> QED
    BY <2>2, <2>3, RootTab DEF Tabled, Faults, VN
<1> HIDE DEF boot, e
<1>5. Goes(boot, d) /\ Same(boot, d) /\ (Good(d) => d.r \in Vinodes)
  BY <1>2, <1>4, AppendGoes, AppendSame DEF Tabled
<1>6. Tabled(d) /\ d.e = e
  BY <1>4, <1>5 DEF Goes, Same
<1> HIDE DEF d
<1>7. ASSUME Good(d) PROVE Tabled(p) /\ p.e = e
  <2>1. Goes(d, p)
    BY <1>2, <1>5, <1>6, <1>7, PrepareGoes
  <2>2. Same(d, p)
    BY <1>6, PrepareSame DEF Tabled
  <2> QED
    BY <1>6, <2>1, <2>2 DEF Goes, Same
<1> HIDE DEF p
<1>8. ASSUME Good(d) PROVE Tabled(f) /\ f.e = e
  <2>1. Goes(p, f)
    BY <1>2, <1>5, <1>7, <1>8, AppendGoes
  <2>2. Same(p, f)
    BY <1>7, <1>8, AppendSame DEF Tabled
  <2> QED
    BY <1>7, <1>8, <2>1, <2>2 DEF Goes, Same
<1> HIDE DEF f
<1>9. ASSUME Good(d) PROVE Tabled(m)
  BY <1>3, <1>4, <1>8, <1>9, MountTabled
<1> HIDE DEF m, r
<1>10. Tabled(r)
  BY <1>1, <1>6, <1>7, <1>8, <1>9
<1> QED
  BY <1>10 DEF Tabled, r

\* What a read returns has a length.
LEMMA ReadLength ==
  ASSUME NEW e \in Disk, NEW ridx \in Inodes, NEW len \in Int
  PROVE  Len(ext2_read(e, ridx, 0, len)) \in Nat
<1> DEFINE ind == e.ind[ridx]
           skip == 0 \div BlkSize
           S == {len, ind.size - skip * BlkSize}
                  \cup (IF 0 <= ind.size THEN {ind.size - 0} ELSE {})
           n == Min(S)
           F(i) == IF (0 % BlkSize) + i > BlkSize THEN Stray
                   ELSE e.blk[ind.block[skip + 1]].data[(0 % BlkSize) + i]
           x == [i \in 1 .. n |-> F(i)]
<1>1. ext2_read(e, ridx, 0, len) = IF skip >= ind.blocks THEN <<>> ELSE x
  BY Zenon DEF ext2_read
<1>2. ind.size \in Int /\ BlkSize \in Nat /\ BlkSize > 0
  BY DiskFields, Sizes DEF Ind
<1>3. skip = 0
  BY <1>2
<1>4. n \in Int
  <2> DEFINE z == ind.size
             T == {len, z}
  <2>1. S = T
    BY <1>2, <1>3
  <2>2. z \in Int
    BY <1>2
  <2> HIDE DEF S, z
  <2>3. \E k \in T : \A y \in T : k <= y
    <3>1. CASE len <= z
      BY <2>2, <3>1
    <3>2. CASE z <= len
      BY <2>2, <3>2
    <3> QED
      BY <2>2, <3>1, <3>2
  <2>4. Min(T) \in T
    BY <2>3 DEF Min
  <2> QED
    BY <2>1, <2>2, <2>4
<1> HIDE DEF F, n
<1>5. Len(x) \in Nat
  <2>1. CASE n \in Nat
    BY <2>1
  <2>2. CASE n \notin Nat
    <3>1. 1 .. n = {}
      BY <1>4, <2>2
    <3>2. 1 .. 0 = {} /\ 0 \in Nat
      OBVIOUS
    <3>3. x \in [1 .. 0 -> {}]
      BY <3>1, <3>2
    <3> HIDE DEF x
    <3>4. x \in Seq({})
      BY <3>2, <3>3, SeqDef
    <3> QED
      BY <3>4
  <2> QED
    BY <2>1, <2>2
<1> HIDE DEF x, skip
<1> QED
  BY <1>1, <1>5

(***************************************************************************)
(* The invariant of the table and the open files.  The first part is what  *)
(* makes every index one of its array; the second says that the vinode of  *)
(* an open file is in use and still names the inode that was opened.       *)
(***************************************************************************)
FileType == [vinode : Vinodes, offset : Nat, inode : Inodes,
             mode : {{"FILE", "RD"}, {"FILE", "WR"}}]

TableInv ==
  Unless({"astray"}) =>
    /\ vinodes \in Tab /\ files \in Seq(FileType) /\ Len(files) <= MaxFile
    /\ fault \in Faults /\ ops \in 0 .. MaxOps

AllInv == Inv /\ TableInv

\* The system starts so.
LEMMA InitAll == Init => AllInv
<1> SUFFICES ASSUME Init PROVE AllInv
  OBVIOUS
<1>1. vinodes \in Tab
  BY BootTable, VfsConstants DEF Init
<1>2. files = <<>> /\ fault = "none" /\ ops = 0 /\ MaxOps \in Nat /\ MaxFile \in Nat
  BY VfsConstants DEF Init
<1>3. files \in Seq(FileType) /\ Len(files) = 0 /\ DOMAIN files = {}
  BY <1>2
<1>4. fault \in Faults /\ ops \in 0 .. MaxOps /\ Len(files) <= MaxFile
  BY <1>2, <1>3 DEF Faults
<1> QED
  BY <1>1, <1>3, <1>4, InitInv DEF AllInv, TableInv

\* A command keeps the invariant.
LEMMA CommandStays ==
  ASSUME AllInv, NEW s, Unless({"astray"}) => Ends(s), Command(s)
  PROVE  TableInv'
<1>1. /\ files' = files /\ fault' = s.fault /\ ops < MaxOps
      /\ ops' = ops \/ ops' = ops + 1
  BY DEF Command
<1>2. SUFFICES ASSUME Unless({"astray"})' PROVE TableInv'
  BY DEF TableInv
<1>3. harm \subseteq harm'
  BY DEF Command
<1>4. Unless({"astray"})
  BY <1>2, <1>3 DEF Unless
<1>5. /\ vinodes \in Tab /\ files \in Seq(FileType) /\ Len(files) <= MaxFile
      /\ fault \in Faults /\ ops \in 0 .. MaxOps
  BY <1>4 DEF AllInv, TableInv
<1>6. Ends(s)
  BY <1>4
<1>7. fault' \in Faults /\ ops' \in 0 .. MaxOps
  BY <1>1, <1>5, <1>6, VfsConstants DEF Ends
<1>8. CASE Good(s)
  <2>1. vinodes' = s.v /\ harm' = harm \cup s.harm \cup Pulled(s)
    BY <1>8 DEF Command
  <2>2. "astray" \notin s.harm
    BY <1>2, <2>1 DEF Unless
  <2>3. vinodes' \in Tab
    BY <1>6, <1>8, <2>1, <2>2 DEF Ends
  <2> QED
    BY <1>1, <1>5, <1>7, <2>3 DEF TableInv
<1>9. CASE ~ Good(s)
  <2>1. vinodes' = vinodes /\ harm' = harm
    BY <1>9 DEF Command
  <2> QED
    BY <1>1, <1>5, <1>7, <2>1 DEF TableInv
<1> QED
  BY <1>8, <1>9

\* Every command but those of files.
LEMMA CommandEnds ==
  ASSUME AllInv, Unless({"astray"}), NEW p \in AllPaths, NEW o \in AllPaths
  PROVE  /\ mkdir_do(p) => \E s : Ends(s) /\ Command(s)
         /\ rmdir_do(p) => \E s : Ends(s) /\ Command(s)
         /\ link_do(o, p) => \E s : Ends(s) /\ Command(s)
         /\ unlink_do(p) => \E s : Ends(s) /\ Command(s)
         /\ mount_do(p) => \E s : Ends(s) /\ Command(s)
         /\ unmount_do(p) => \E s : Ends(s) /\ Command(s)
         /\ ls_do(p) => \E s : Ends(s) /\ Command(s)
<1>1. Tabled(Now) /\ Now.e = disk /\ Now.v = vinodes
  <2>1. Now = MkSt(vinodes, disk, "none", None, {})
    BY DEF Now, St, MkSt
  <2>2. /\ IsSt(Now) /\ Now.v = vinodes /\ Now.e = disk /\ Now.fault = "none"
        /\ Now.r = None
    BY <2>1, StFields
  <2>3. vinodes \in Tab /\ "none" \in Faults /\ None \in VN
    BY DEF AllInv, TableInv, Faults, VN
  <2> QED
    BY <2>2, <2>3 DEF Tabled
<1>2. DiskInv(disk) /\ disk \in Disk
  BY DEF AllInv, Inv, BooksInv, DiskInv
<1>3. p \in Seq(STRING)
  BY PathNames
<1>4. mkdir_do(p) => \E s : Ends(s) /\ Command(s)
  <2> DEFINE a == Access(Now, p, {"DIR"})
             c == vfs_create(a, p)
             s == IF Good(a) THEN IF a.r # None THEN a ELSE c ELSE a
  <2>1. mkdir_do(p) => Command(s)
    BY Zenon DEF mkdir_do, Then
  <2>2. Goes(Now, a) /\ Same(Now, a)
    BY <1>1, <1>2, <1>3, AccessGoes
  <2> HIDE DEF a
  <2>3. Ends(a)
    BY <1>1, <2>2, EndsGoes
  <2>4. Tabled(a) /\ DiskInv(a.e)
    BY <1>1, <1>2, <2>2 DEF Goes, Same
  <2>6. Ends(c)
    BY <2>4, CreateEnds
  <2> HIDE DEF c
  <2>7. Ends(s)
    BY <2>3, <2>6
  <2> HIDE DEF s
  <2> QED
    BY <2>1, <2>7
<1>5. rmdir_do(p) => \E s : Ends(s) /\ Command(s)
  <2> DEFINE a == Access(Now, p, {"DIR"})
             r == vfs_remove(a, p)
  <2>1. rmdir_do(p) => Command(r)
    BY DEF rmdir_do
  <2>2. Goes(Now, a) /\ Same(Now, a)
    BY <1>1, <1>2, <1>3, AccessGoes
  <2> HIDE DEF a
  <2>3. Tabled(a) /\ a.e \in Disk
    BY <1>1, <1>2, <2>2 DEF Goes, Same
  <2>4. Ends(r)
    BY <2>3, RemoveEnds
  <2> HIDE DEF r
  <2> QED
    BY <2>1, <2>4
<1>6. link_do(o, p) => \E s : Ends(s) /\ Command(s)
  <2>1. Ends(vfs_link(Now, o, p))
    BY <1>1, <1>2, LinkEnds
  <2> QED
    BY <2>1 DEF link_do
<1>7. unlink_do(p) => \E s : Ends(s) /\ Command(s)
  <2>1. Ends(vfs_unlink(Now, p))
    BY <1>1, <1>2, UnlinkEnds
  <2> QED
    BY <2>1 DEF unlink_do
<1>8. mount_do(p) => \E s : Ends(s) /\ Command(s)
  <2> DEFINE m == vfs_mount(Now, Device, p)
  <2>1. Device \in Seq({"dev", "ramdisk0"})
    BY DEF Device
  <2>2. Tabled(m)
    BY <1>1, <1>2, <2>1, MountTabled
  <2>3. mount_do(p) => Command(m)
    BY DEF mount_do
  <2> HIDE DEF m
  <2>4. Ends(m)
    BY <2>2 DEF Ends, Tabled
  <2> QED
    BY <2>3, <2>4
<1>9. unmount_do(p) => \E s : Ends(s) /\ Command(s)
  <2>1. Ends(vfs_unmount(Now, p))
    BY <1>1, <1>2, UnmountEnds
  <2> QED
    BY <2>1 DEF unmount_do
<1>10. ls_do(p) => \E s : Ends(s) /\ Command(s)
  <2> DEFINE w == lookup_auto(Now, p \o <<".">>)
  <2>1. p \o <<".">> \in Seq(Str)
    BY PathNames
  <2>2. Goes(Now, w)
    BY <1>1, <1>2, <2>1, LookupGoes
  <2>3. ls_do(p) => Command(w)
    BY DEF ls_do
  <2> HIDE DEF w
  <2>4. Ends(w)
    BY <1>1, <2>2, EndsGoes
  <2> QED
    BY <2>3, <2>4
<1> QED
  BY <1>4, <1>5, <1>6, <1>7, <1>8, <1>9, <1>10

\* cat and "cat >" keep the invariant (vfs.c:584-589).
LEMMA OpenStays ==
  ASSUME AllInv, NEW p \in AllPaths, NEW mode \in {{"FILE", "RD"}, {"FILE", "WR"}},
         Open(p, mode)
  PROVE  TableInv'
<1> DEFINE a == Access(Now, p, mode)
           vi == a.v[a.r]
           ok == Good(a) /\ a.r # None /\ Len(files) < MaxFile
           offset == IF "RD" \in mode
                     THEN Len(ext2_read(disk, vi.ridx, 0, NIndBlocks * BlkSize)) ELSE 0
           f == [vinode |-> a.r, mode |-> mode, offset |-> offset, inode |-> vi.ridx]
<1>1. /\ files' = IF ok THEN Append(files, f) ELSE files
      /\ vinodes' = IF Good(a) THEN a.v ELSE vinodes
      /\ fault' = a.fault /\ harm' = harm /\ ops < MaxOps
      /\ ops' = ops \/ ops' = ops + 1
  BY DEF Open, Opened
<1>2. SUFFICES ASSUME Unless({"astray"}) PROVE TableInv'
  <2>1. ~ Unless({"astray"}) => ~ Unless({"astray"})'
    BY <1>1 DEF Unless
  <2> QED
    BY <2>1 DEF TableInv
<1>3. /\ vinodes \in Tab /\ files \in Seq(FileType) /\ Len(files) <= MaxFile
      /\ fault \in Faults /\ ops \in 0 .. MaxOps
  BY <1>2 DEF AllInv, TableInv
<1>4. disk \in Disk
  BY <1>2 DEF AllInv, Inv, BooksInv, DiskInv
<1>5. Tabled(Now) /\ Now.e = disk /\ Now.v = vinodes
  <2>1. Now = MkSt(vinodes, disk, "none", None, {})
    BY DEF Now, St, MkSt
  <2>2. /\ IsSt(Now) /\ Now.v = vinodes /\ Now.e = disk /\ Now.fault = "none"
        /\ Now.r = None
    BY <2>1, StFields
  <2>3. "none" \in Faults /\ None \in VN
    BY DEF Faults, VN
  <2> QED
    BY <1>3, <2>2, <2>3 DEF Tabled
<1>6. /\ Goes(Now, a)
      /\ Good(a) /\ a.r # None => a.r \in Vinodes /\ mode \subseteq a.v[a.r].mode
  BY <1>4, <1>5, AccessGoes, PathNames
<1> HIDE DEF a
<1>7. a.v \in Tab /\ a.fault \in Faults
  BY <1>5, <1>6 DEF Goes, Tabled
<1>8. ASSUME ok PROVE f \in FileType
  <2>1. a.r \in Vinodes /\ mode \subseteq vi.mode /\ vi \in Rec
    BY <1>6, <1>7, <1>8 DEF Tab
  <2>2. vi.mode \cap {"RD", "WR"} # {} /\ vi.mode # {}
    BY <2>1
  <2>3. vi.fs = "EXT2FS" /\ vi.ridx \in Inodes
    BY <2>1, <2>2, RecFields
  <2>4. NIndBlocks * BlkSize \in Int
    BY Sizes
  <2>5. offset \in Nat
    BY <1>4, <2>3, <2>4, ReadLength
  <2> HIDE DEF offset
  <2> QED
    BY <2>1, <2>3, <2>5 DEF FileType
<1> HIDE DEF f
<1>9. files' \in Seq(FileType) /\ Len(files') <= MaxFile
  BY <1>1, <1>3, <1>8, VfsConstants
<1>10. ops' \in 0 .. MaxOps
  BY <1>1, <1>3, VfsConstants
<1> QED
  BY <1>1, <1>3, <1>7, <1>9, <1>10 DEF TableInv

\* An open file whose offset moves.
LEMMA FileMoves ==
  ASSUME NEW fs \in Seq(FileType), NEW f \in DOMAIN fs, NEW n \in Nat
  PROVE  LET gs == [fs EXCEPT ![f].offset = n] IN
         /\ gs \in Seq(FileType) /\ Len(gs) = Len(fs) /\ DOMAIN gs = DOMAIN fs
         /\ \A i \in DOMAIN fs : gs[i].vinode = fs[i].vinode /\ gs[i].inode = fs[i].inode
<1> DEFINE x == [fs[f] EXCEPT !.offset = n]
           gs == [fs EXCEPT ![f].offset = n]
<1>1. gs = [fs EXCEPT ![f] = x]
  OBVIOUS
<1>2. fs \in [1 .. Len(fs) -> FileType] /\ Len(fs) \in Nat /\ DOMAIN fs = 1 .. Len(fs)
  OBVIOUS
<1>3. fs[f] \in FileType
  OBVIOUS
<1>4. x \in FileType /\ x.vinode = fs[f].vinode /\ x.inode = fs[f].inode
  BY <1>3 DEF FileType
<1> HIDE DEF x, gs
<1>5. gs \in [1 .. Len(fs) -> FileType] /\ DOMAIN gs = DOMAIN fs
  BY <1>1, <1>2, <1>4
<1>6. gs \in Seq(FileType)
  BY <1>2, <1>5, SeqDef
<1>7. Len(gs) = Len(fs)
  BY <1>2, <1>5, <1>6
<1>8. \A i \in DOMAIN fs : gs[i] = IF i = f THEN x ELSE fs[i]
  BY <1>1, <1>2
<1>9. \A i \in DOMAIN fs : gs[i].vinode = fs[i].vinode /\ gs[i].inode = fs[i].inode
  BY <1>4, <1>8
<1> QED
  BY <1>5, <1>6, <1>7, <1>9 DEF gs

\* A write keeps the invariant (vfs.c:619-638).
LEMMA WriteStays ==
  ASSUME AllInv, NEW f \in DOMAIN files, NEW text \in Texts, vfs_write(f, text)
  PROVE  TableInv'
<1> DEFINE ridx == vinodes[files[f].vinode].ridx
           off == files[f].offset
           w  == ext2_write(disk, ridx, off, text)
           bad == ridx \notin Inodes \/ w.e.wild
<1>1. /\ ops < MaxOps /\ ops' = ops + 1 /\ vinodes' = vinodes /\ harm \subseteq harm'
      /\ bad => files' = files /\ fault' = "wild"
      /\ ~ bad => files' = [files EXCEPT ![f].offset = @ + w.ret] /\ fault' = fault
  BY DEF vfs_write
<1>2. SUFFICES ASSUME Unless({"astray"}) PROVE TableInv'
  <2>1. ~ Unless({"astray"}) => ~ Unless({"astray"})'
    BY <1>1 DEF Unless
  <2> QED
    BY <2>1 DEF TableInv
<1>3. /\ vinodes \in Tab /\ files \in Seq(FileType) /\ Len(files) <= MaxFile
      /\ fault \in Faults /\ ops \in 0 .. MaxOps
  BY <1>2 DEF AllInv, TableInv
<1>4. off \in Nat
  <2>1. files[f] \in FileType
    BY <1>3
  <2> QED
    BY <2>1 DEF FileType
<1>5. w.ret \in Nat
  BY <1>4, TextsAre, WriteReturns
<1> DEFINE n == off + w.ret
           gs == [files EXCEPT ![f].offset = n]
<1>6. n \in Nat
  BY <1>4, <1>5
<1>7. files' = files \/ files' = gs
  BY <1>1
<1> HIDE DEF n, w, off
<1>8. /\ gs \in Seq(FileType) /\ Len(gs) = Len(files) /\ DOMAIN gs = DOMAIN files
      /\ \A i \in DOMAIN files :
           gs[i].vinode = files[i].vinode /\ gs[i].inode = files[i].inode
  BY <1>3, <1>6, FileMoves
<1> HIDE DEF gs, bad
<1>9. /\ files' \in Seq(FileType) /\ Len(files') <= MaxFile /\ DOMAIN files' = DOMAIN files
      /\ \A i \in DOMAIN files :
           files'[i].vinode = files[i].vinode /\ files'[i].inode = files[i].inode
  BY <1>3, <1>7, <1>8
<1>10. fault' \in Faults /\ ops' \in 0 .. MaxOps
  BY <1>1, <1>3, VfsConstants DEF Faults
<1> QED
  BY <1>1, <1>3, <1>9, <1>10 DEF TableInv

\* Every step keeps it.
LEMMA NextAll == AllInv /\ [Next]_vars => AllInv'
<1> SUFFICES ASSUME AllInv, [Next]_vars PROVE TableInv'
  BY NextInv DEF AllInv
<1>1. /\ DirPaths \subseteq AllPaths /\ LinkPaths \subseteq AllPaths
      /\ MountPaths \subseteq AllPaths /\ HelloPaths \subseteq AllPaths
  BY DEF AllPaths
<1>2. CASE UNCHANGED vars
  BY <1>2 DEF vars, AllInv, TableInv, Unless
<1>3. ASSUME NEW s, Unless({"astray"}) => Ends(s), Command(s)
      PROVE  TableInv'
  BY <1>3, CommandStays
<1>4. ASSUME ~ Unless({"astray"}), \E s : Command(s) PROVE TableInv'
  BY <1>3, <1>4
<1>5. ASSUME NEW p \in AllPaths, NEW o \in AllPaths,
             \/ mkdir_do(p) \/ rmdir_do(p) \/ link_do(o, p) \/ unlink_do(p)
             \/ mount_do(p) \/ unmount_do(p) \/ ls_do(p)
      PROVE  TableInv'
  <2>1. \E s : Command(s)
    BY <1>5 DEF mkdir_do, rmdir_do, link_do, unlink_do, mount_do, unmount_do, ls_do
  <2>2. ASSUME Unless({"astray"}) PROVE \E s : Ends(s) /\ Command(s)
    BY <1>5, <2>2, CommandEnds
  <2> QED
    BY <1>3, <1>4, <2>1, <2>2
<1>6. ASSUME NEW p \in AllPaths, cat_do(p) \/ catto_do(p) PROVE TableInv'
  <2>1. CASE cat_do(p)
    BY <2>1, OpenStays DEF cat_do
  <2>2. CASE catto_do(p)
    BY <2>2, OpenStays DEF catto_do
  <2> QED
    BY <1>6, <2>1, <2>2
<1>7. ASSUME NEW f \in DOMAIN files, NEW t \in Texts, vfs_write(f, t)
      PROVE  TableInv'
  BY <1>7, WriteStays
<1> QED
  BY <1>1, <1>2, <1>5, <1>6, <1>7 DEF Next

\* What the invariant says of the types.
LEMMA AllTypes == AllInv => (Unless({"astray"}) => TypeOK)
<1> SUFFICES ASSUME AllInv, Unless({"astray"}) PROVE TypeOK
  OBVIOUS
<1>1. /\ vinodes \in Tab /\ files \in Seq(FileType) /\ Len(files) <= MaxFile
      /\ fault \in Faults /\ ops \in 0 .. MaxOps
  BY DEF AllInv, TableInv
<1>2. DiskInv(disk)
  BY DEF AllInv, Inv, BooksInv
<1>3. /\ disk.blockmap \in SUBSET Blocks /\ disk.inodemap \in SUBSET Inodes
      /\ disk.ind \in [Inodes -> Ind]
  BY <1>2, DiskFields DEF DiskInv
<1>4. Cardinality(disk.blockmap) \in 0 .. NBlocks
  <2>1. /\ IsFiniteSet(disk.blockmap) /\ Cardinality(disk.blockmap) <= Cardinality(Blocks)
    BY <1>3, Sizes, FS_Subset
  <2>2. Cardinality(disk.blockmap) \in Nat
    BY <2>1, FS_CardinalityType
  <2> QED
    BY <2>1, <2>2, Sizes
<1>5. Cardinality(disk.inodemap) \in 0 .. NInodes
  <2>1. /\ IsFiniteSet(disk.inodemap) /\ Cardinality(disk.inodemap) <= Cardinality(Inodes)
    BY <1>3, Sizes, FS_Subset
  <2>2. Cardinality(disk.inodemap) \in Nat
    BY <2>1, FS_CardinalityType
  <2> QED
    BY <2>1, <2>2, Sizes
<1>6. disk.free_blocks \in 0 .. NBlocks /\ disk.free_inodes \in 0 .. NInodes
  BY <1>2, <1>4, <1>5, Sizes DEF DiskInv, Counted
<1>7. \A i \in Inodes : disk.ind[i].blocks \in 0 .. NIndBlocks
  BY <1>3 DEF Ind
<1>8. vinodes \in [Vinodes -> VinodeType] /\ ~ disk.wild
  BY <1>1, <1>2 DEF Tab, Rec, DiskInv
<1>9. files \in Seq([vinode : Vinodes, offset : Nat, inode : Inodes,
                   mode : {{"FILE", "RD"}, {"FILE", "WR"}}])
  BY <1>1 DEF FileType
<1> QED
  BY <1>1, <1>3, <1>6, <1>7, <1>8, <1>9 DEF TypeOK, Faults

\* Every index in the table, on the disk and in the open files stays inside its array
\* whatever the users do, however large the table is, as long as no call went astray
\* (vfs.c:170-206, 287-364, 410-638).
THEOREM VfsTypes == Spec => [](Unless({"astray"}) => TypeOK)
<1>1. Spec => []AllInv
  BY InitAll, NextAll, PTL DEF Spec
<1> QED
  BY <1>1, AllTypes, PTL

=============================================================================
