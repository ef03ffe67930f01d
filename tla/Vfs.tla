-------------------------------- MODULE Vfs ---------------------------------
(***************************************************************************)
(* The virtual file system kernel/src/fs/vfs.c over the ramdisk's ext2     *)
(* (module Ext2), under the shell's commands (devices/tty/shell.c).        *)
(*                                                                         *)
(* Grain.  A command is one step, and a file opened by "cat >" is written  *)
(* line by line between commands of other terminals.  Two commands at the  *)
(* same moment, which share tmppath without a lock, are not modelled.  A   *)
(* path is the sequence of its names; the texts of paths and listings are  *)
(* left out.  Of the tree that vfs_init builds there are /dev, ramdisk0    *)
(* and the mount of it; /mnt, /proc, ramdisk1 and the ttys are more of the *)
(* same or read nothing from a disk.                                       *)
(*                                                                         *)
(* Faults.  An assert that fails halts; a lookup that goes round a ring    *)
(* for ever hangs; an index of -1 (a lookup that found nothing, a walk off *)
(* a list, a full table) or a wild disk access is undefined.  Each ends    *)
(* the behaviour with its name in fault.  Definitions named Bug... are     *)
(* mutations of the one that follows.                                      *)
(***************************************************************************)
EXTENDS Ext2

CONSTANTS
  MaxVinode, MaxFile,    \* MAX_VINODE, MAX_FILE
  Hello, Label, Text,    \* the files that ext2_init makes, and what is in them
  Dotted,                \* the names with a '.' in them
  DirPaths, LinkPaths, MountPaths,   \* what the users type
  Texts,                 \* lines they write
  MaxOps                 \* bound: commands that change something

VFS_ROOT == 0
Vinodes  == 0 .. MaxVinode - 1
Device   == <<"dev", "ramdisk0">>
BootMount == <<"R0">>     \* where vfs_init mounts it
HelloPaths == {p \o <<Hello>> : p \in MountPaths}
AllPaths == DirPaths \cup LinkPaths \cup MountPaths \cup HelloPaths

ASSUME VfsConstants ==
  /\ MaxVinode \in Nat /\ MaxVinode > 2 /\ MaxFile \in Nat /\ MaxOps \in Nat
  /\ BootMount \in MountPaths
  /\ AllPaths \subseteq Seq(STRING) \ {<<>>} /\ Hello \in STRING /\ Label \in STRING
  /\ Text \in Seq(STRING) /\ Texts \subseteq Seq(STRING)

\* The disk has room for what ext2_init puts on it: two short files.
ASSUME DiskRoom ==
  /\ DirAmut >= 4 /\ MaxDirSize >= 4 /\ NInodes >= 3 /\ NBlocks >= 3
  /\ Len(Text) <= BlkSize

VARIABLES
  vinodes,  \* the table; a slot is free when its mode is empty
  disk,     \* the ramdisk and the ext2_t
  files,    \* the open files, never closed
  fault,    \* "none", or how the system failed
  ops,      \* bound: commands that have changed something
  want,     \* history: what has been written to each inode's file
  harm      \* history: what has been done that the rest does not survive

vars == <<vinodes, disk, files, fault, ops, want, harm>>

Unused ==
  [name |-> "", mode |-> {}, dot |-> 0, ddot |-> 0, next |-> 0, child |-> 0,
   prev_link |-> 0, next_link |-> 0, linkcnt |-> 0, ridx |-> 0, fs |-> "VFS"]

\* Slot n as the calls fill it: a ring of its own.
Vinode(n, name, mode, dot, ddot, next, child, ridx, fs) ==
  [name |-> name, mode |-> mode, dot |-> dot, ddot |-> ddot, next |-> next,
   child |-> child, prev_link |-> n, next_link |-> n, linkcnt |-> 1, ridx |-> ridx,
   fs |-> fs]

\* A command's working state, and its result where it has one.
St(v, e) == [v |-> v, e |-> e, fault |-> "none", r |-> None, harm |-> {}]
Fail(s, why) == [s EXCEPT !.fault = why]
Ret(s, r) == [s EXCEPT !.r = r]
Good(s) == s.fault = "none"

\* What comes after s, if anything does.
Then(s, F(_)) == IF Good(s) THEN F(s) ELSE s

vinodes_alloc(v) ==
  LET free == {i \in Vinodes : v[i].mode = {}} IN
  IF free = {} THEN None ELSE Min(free)

(***************************************************************************)
(* Lists.  Brothers from k on, along next.                                 *)
(***************************************************************************)
Longer(v, walk, n) ==
  [i \in Vinodes \cup {None} |-> IF i = None THEN <<>> ELSE <<i>> \o walk[v[i].next]]

Brothers(v, k) ==
  LET walk[n \in 0 .. MaxVinode] ==
        IF n = 0 THEN [i \in Vinodes \cup {None} |-> <<>>] ELSE Longer(v, walk[n - 1], n)
  IN walk[MaxVinode][k]

Children(v, d) == Brothers(v, v[d].child)

NamedChild(v, d, name) ==
  LET c  == Children(v, d)
      at == SelectInSeq(c, LAMBDA k : v[k].name = name)
  IN IF at = 0 THEN None ELSE c[at]

add_link(v, o, n) ==
  LET nl == v[o].next_link IN
  [v EXCEPT ![n].next_link = nl, ![n].prev_link = o,
            ![o].next_link = n, ![nl].prev_link = n]

BugRemoveLink(v, i) ==
  [v EXCEPT ![v[i].prev_link].next_link = v[i].next_link]

remove_link(v, i) ==
  [v EXCEPT ![v[i].prev_link].next_link = v[i].next_link,
            ![v[i].next_link].prev_link = v[i].prev_link]

\* Along next_link to the first vinode that is no link.
Farther(v, walk, n) ==
  [i \in Vinodes |-> IF "LINK" \in v[i].mode THEN walk[v[i].next_link] ELSE i]

RealOf(v, k) ==
  LET walk[n \in 0 .. MaxVinode] ==
        IF n = 0 THEN [i \in Vinodes |-> i] ELSE Farther(v, walk[n - 1], n)
  IN walk[MaxVinode][k]

(***************************************************************************)
(* lookup_cur: as far down the path as the table goes.                     *)
(***************************************************************************)
LookupStep(v, w, k) ==
  IF k = None THEN [w EXCEPT !.stop = TRUE]
  ELSE LET real == RealOf(v, k) IN
       IF "LINK" \in v[real].mode THEN [w EXCEPT !.stop = TRUE, !.spin = TRUE]
       ELSE [w EXCEPT !.cur = real, !.depth = @ + 1]

LookupName(v, w, name) ==
  IF w.stop THEN w ELSE LookupStep(v, w, NamedChild(v, w.cur, name))

lookup_cur(v, path) ==
  FoldLeft(LAMBDA w, name : LookupName(v, w, name),
           [cur |-> VFS_ROOT, depth |-> 0, stop |-> FALSE, spin |-> FALSE], path)

(***************************************************************************)
(* Reading directory d into the table, an entry at a time: prev is the     *)
(* entry before, dot and ddot are those of the directory.                  *)
(***************************************************************************)
ReadEntry(d, w, ent) ==
  LET v == w.v
      n == vinodes_alloc(v)
      new(mode, dot, ddot, child) ==
        Vinode(n, ent.name, mode, dot, ddot, None, child, ent.inode, v[d].fs)
      up == v[d].dot
  IN CASE w.fault # "none" -> w
       [] w.fault = "none" /\ (n = None \/ (ent.name = ".") # (w.prev = None)) ->
            [w EXCEPT !.fault = "assert"]
       [] w.fault = "none" /\ n # None /\ ent.name = "." /\ w.prev = None ->
            [w EXCEPT !.prev = n, !.dot = n,
               !.v = add_link([v EXCEPT ![d].child = n,
                                 ![n] = new({"LINK"}, None, None, d)], d, n)]
       [] w.fault = "none" /\ n # None /\ ent.name = ".." /\ w.prev # None ->
            IF None \in {up, v[d].ddot} \/ v[up].child = None
            THEN [w EXCEPT !.fault = "index"]
            ELSE [w EXCEPT !.prev = n, !.ddot = n,
                    !.v = add_link([v EXCEPT ![w.prev].next = n, ![w.prev].ddot = n,
                                      ![n] = new({"LINK"}, w.prev, None,
                                                 v[v[d].ddot].child)],
                                   v[up].child, n)]
       [] w.fault = "none" /\ n # None /\ ent.name \notin {".", ".."} /\ w.prev # None ->
            IF w.ddot = None THEN [w EXCEPT !.fault = "assert"]
            ELSE [w EXCEPT !.prev = n,
                    !.v = [v EXCEPT ![w.prev].next = n,
                             ![n] = new(ent.mode, w.dot, w.ddot, None)]]

ReadDirectory(s, d, name) ==
  LET ents == ext2_readdir(s.e, s.v[d].ridx)
      w == FoldLeft(LAMBDA x, ent : ReadEntry(d, x, ent),
                    [v |-> s.v, prev |-> None, dot |-> None, ddot |-> None,
                     fault |-> "none"],
                    ents)
      hits == Cardinality({i \in 1 .. Len(ents) : ents[i].name = name})
  IN IF w.fault # "none" THEN Fail(s, w.fault)
     ELSE IF hits > 1 THEN Fail(s, "assert")
     ELSE [s EXCEPT !.v = w.v, !.r = IF hits = 0 THEN None ELSE d]

(***************************************************************************)
(* lookup_auto reads the directory at which the table ends, once, and      *)
(* tries again.                                                            *)
(***************************************************************************)
\* One round: at is where the table ends; more asks for another.
LookupRound(s, at, name) ==
  CASE at.spin -> [s |-> Fail(s, "spin"), more |-> FALSE]
    [] ~ at.stop -> [s |-> Ret(s, at.cur), more |-> FALSE]
    [] at.stop /\ ~ at.spin ->
         IF s.v[at.cur].fs = "VFS" \/ s.v[at.cur].child # None
         THEN [s |-> Ret(s, None), more |-> FALSE]
         ELSE [s |-> ReadDirectory(s, at.cur, name), more |-> TRUE]

Round(path, w, i) ==
  LET at == lookup_cur(w.s.v, path) IN
  IF w.more /\ Good(w.s) /\ w.s.r # None
  THEN LookupRound(w.s, at, path[at.depth + 1]) ELSE w

lookup_auto(s, path) ==
  Then(s, LAMBDA t :
    FoldLeft(LAMBDA w, i : Round(path, w, i),
             [s |-> Ret(t, VFS_ROOT), more |-> TRUE],
             [i \in 1 .. Len(path) + 1 |-> i]).s)

\* vfs_access, positively: its result is the vinode if it has the mode.
Access(s, path, mode) ==
  Then(lookup_auto(s, path), LAMBDA w :
    IF w.r # None /\ ~ (mode \subseteq w.v[w.r].mode) THEN Ret(w, None) ELSE w)

\* The directory in which a call works: that there is one is not checked.
InDir(s, dir, F(_)) ==
  Then(lookup_auto(s, dir), LAMBDA w : IF w.r = None THEN Fail(w, "index") ELSE F(w))

(***************************************************************************)
(* Vinodes come and go.  The ridx of a new one is what the slot last held. *)
(***************************************************************************)
append_dir(s, par, name, mode, fs) ==
  LET v == s.v
      n == vinodes_alloc(v)
      c == Children(v, par)
      dots == {i \in 1 .. Len(c) - 1 : v[c[i]].name = "."}
      dot  == c[Max(dots)]
  IN IF c = <<>> \/ dots = {} THEN Fail(s, "assert")
     ELSE IF n = None THEN Fail(s, "index")
     ELSE [s EXCEPT !.r = n,
             !.v = [v EXCEPT ![Last(c)].next = n,
                      ![n] = Vinode(n, name, mode, dot, v[dot].next, None, None,
                                    v[n].ridx, fs)]]

prepare_dir(s, idx, par, fs) ==
  LET v == s.v
      dot  == vinodes_alloc(v)
      ddot == vinodes_alloc([v EXCEPT ![dot].mode = {"LINK"}])
      v1 == [v EXCEPT
               ![idx].child = dot,
               ![dot]  = Vinode(dot, ".", {"LINK"}, None, ddot, ddot, idx, v[dot].ridx, fs),
               ![ddot] = Vinode(ddot, "..", {"LINK"}, dot, None, None, par,
                                v[ddot].ridx, fs)]
  IN IF dot = None \/ ddot = None THEN Fail(s, "index")
     ELSE IF v[idx].child # None THEN Fail(s, "assert")
     ELSE [s EXCEPT !.v = add_link(add_link(v1, idx, dot), par, ddot)]

BugDelete(v, i) ==
  remove_link([v EXCEPT ![i].mode = {}, ![i].next_link = None], i)

BugDeleteRidx(v, i) == remove_link([v EXCEPT ![i].ridx = 0], i)

delete_vinode(v, i) == remove_link([v EXCEPT ![i].mode = {}], i)

\* A vinode outside gone is a link to one inside.
CutsLink(v, gone) ==
  \E k \in Vinodes \ gone : "LINK" \in v[k].mode /\ RealOf(v, k) \in gone

\* A directory inside gone, not the first, has been read or made.
Nested(v, gone, idx) ==
  \E k \in gone \ {idx} : "DIR" \in v[k].mode /\ v[k].child # None

BugRemoveDir(s, idx, par) ==
  LET pre == {k \in Range(Children(s.v, par)) : s.v[k].next = idx} IN
  IF ~ Good(s) THEN s
  ELSE IF idx = None \/ pre = {} THEN Fail(s, "index")
  ELSE [s EXCEPT !.v = delete_vinode([s.v EXCEPT ![CHOOSE k \in pre : TRUE].next
                                                   = s.v[idx].next], idx)]

\* One level of children goes with it.
remove_dir(s, idx, par) ==
  LET v == s.v
      pre == {k \in Range(Children(v, par)) : v[k].next = idx}
      v1 == [v EXCEPT ![CHOOSE k \in pre : TRUE].next = v[idx].next]
      order == Append(Children(v, idx), idx)
  IN IF ~ Good(s) THEN s
     ELSE IF idx = None \/ pre = {} THEN Fail(s, "index")
     ELSE [s EXCEPT !.v = FoldLeft(delete_vinode, v1, order),
             !.harm = @ \cup (IF CutsLink(v, Range(order)) THEN {"cut"} ELSE {})
                        \cup (IF Nested(v, Range(order), idx) THEN {"nested"} ELSE {})]

(***************************************************************************)
(* The calls.  Their codes for "cannot" leave the table as it is, apart    *)
(* from what the lookups have read.                                        *)
(***************************************************************************)
OnDisk(s, e) == IF e.wild THEN Fail(s, "wild") ELSE [s EXCEPT !.e = e]

\* A call takes inode i for a directory or a file, and it is free or the other.
Astray(e, i, kind) ==
  IF i \in e.inodemap /\ kind \in e.ind[i].mode THEN {} ELSE {"astray"}

vfs_create(s, path) ==
  InDir(s, Front(path), LAMBDA w :
    LET d == w.v[w.r]
        c == ext2_create(w.e, d.ridx, Last(path), DirMode)
    IN IF d.fs # "EXT2FS" THEN w
       ELSE Then(OnDisk(w, c.e), LAMBDA u :
              Then(append_dir(u, w.r, Last(path), DirMode, d.fs), LAMBDA a :
                Then(prepare_dir(a, a.r, w.r, d.fs), LAMBDA p :
                  [p EXCEPT !.v[a.r].ridx = c.n,
                            !.harm = @ \cup Astray(w.e, d.ridx, "DIR")]))))

\* The inode removed was free already; the entry stays in its block; the change
\* went over another block in use.
RemoveHarm(e, e2, ridx, name) ==
  LET p  == FirstPlace(Named(e, e.ind[ridx], name))
      at == e.ind[ridx].block[p[1]]
  IN Astray(e, ridx, "DIR")
       \cup (IF EntryAt(e, e.ind[ridx], p).inode \in e.inodemap THEN {} ELSE {"astray"})
       \cup (IF e2.blk[at].dir[p[2]].inode # 0 THEN {"stays"} ELSE {})
       \cup (IF \E b \in e2.blockmap \ {at} : e2.blk[b] # e.blk[b]
             THEN {"smash"} ELSE {})

BugRemoved(w, idx, name, x) == remove_dir(OnDisk(w, x.e), idx, w.r)

Removed(w, idx, name, x) ==
  IF x.ret # 0 THEN OnDisk(w, x.e)
  ELSE remove_dir([OnDisk(w, x.e) EXCEPT
                     !.harm = @ \cup RemoveHarm(w.e, x.e, w.v[w.r].ridx, name)],
                  idx, w.r)

vfs_remove(s, path) ==
  LET name == Last(path)
      mode == IF name \in Dotted THEN FileMode ELSE DirMode
  IN Then(lookup_auto(s, path), LAMBDA n :
       InDir(n, Front(path), LAMBDA w :
         IF w.v[w.r].fs # "EXT2FS" THEN w
         ELSE Removed(w, n.r, name, ext2_remove(w.e, w.v[w.r].ridx, name, mode))))

vfs_link(s, oldpath, newpath) ==
  Then(lookup_auto(s, oldpath), LAMBDA o :
    IF o.r = None THEN o
    ELSE Then(lookup_auto(o, newpath), LAMBDA n :
           IF n.r # None THEN n
           ELSE InDir(n, Front(newpath), LAMBDA w :
                  Then(append_dir(w, w.r, Last(newpath), {"LINK"}, "VFS"), LAMBDA a :
                    [a EXCEPT !.v = add_link(a.v, o.r, a.r)]))))

\* A real vinode with links is moved to the link before it.
UnlinkChild(w, k, path) ==
  LET v == w.v
      l == v[k].prev_link
      moved == [v EXCEPT ![l].mode = v[k].mode, ![l].ridx = v[k].ridx,
                         ![l].fs = v[k].fs]
      how   == {"moved"} \cup (IF Children(v, k) = <<>> THEN {} ELSE {"hollow"})
  IN IF k = None THEN w
     ELSE IF v[k].name \in {".", ".."} THEN Fail(w, "assert")
     ELSE IF "LINK" \in v[k].mode
          THEN remove_dir([w EXCEPT !.v = remove_link(v, k)], k, w.r)
     ELSE IF l # k
          THEN remove_dir([w EXCEPT !.v = remove_link(moved, k), !.harm = @ \cup how],
                          k, w.r)
     ELSE vfs_remove(w, path)

vfs_unlink(s, path) ==
  InDir(s, Front(path), LAMBDA w :
    UnlinkChild(w, NamedChild(w.v, w.r, Last(path)), path))

BugMount(s, filename, dirname) ==
  Then(Access(s, filename, {"FILE"}), LAMBDA f :
    IF f.r = None THEN f
    ELSE Then(Access(f, dirname, {"DIR"}), LAMBDA x :
           IF x.r # None THEN x
           ELSE InDir(x, Front(dirname), LAMBDA w :
                  Then(append_dir(w, w.r, Last(dirname), {"DIR", "UNMNT_ABLE"},
                                  w.v[f.r].fs), LAMBDA a :
                    [a EXCEPT !.v[f.r].mode = @ \ {"MNT_ABLE"},
                              !.v[a.r].linkcnt = f.r, !.v[a.r].ridx = EXT2_ROOT]))))

vfs_mount(s, filename, dirname) ==
  Then(Access(s, filename, {"FILE", "MNT_ABLE"}), LAMBDA f :
    IF f.r = None THEN f
    ELSE Then(Access(f, dirname, {"DIR"}), LAMBDA x :
           IF x.r # None THEN x
           ELSE InDir(x, Front(dirname), LAMBDA w :
                  Then(append_dir(w, w.r, Last(dirname), {"DIR", "UNMNT_ABLE"},
                                  w.v[f.r].fs), LAMBDA a :
                    [a EXCEPT !.v[f.r].mode = @ \ {"MNT_ABLE"},
                              !.v[a.r].linkcnt = f.r, !.v[a.r].ridx = EXT2_ROOT]))))

BugUnmount(s, path) ==
  Then(Access(s, path, {"DIR", "UNMNT_ABLE"}), LAMBDA i :
    IF i.r = None THEN i
    ELSE InDir(i, Front(path), LAMBDA w : remove_dir(w, i.r, w.r)))

vfs_unmount(s, path) ==
  Then(Access(s, path, {"DIR", "UNMNT_ABLE"}), LAMBDA i :
    IF i.r = None THEN i
    ELSE InDir(i, Front(path), LAMBDA w :
           remove_dir([w EXCEPT !.v[w.v[i.r].linkcnt].mode = @ \cup {"MNT_ABLE"}],
                      i.r, w.r)))

(***************************************************************************)
(* The tree at the start, with the ramdisk mounted.                        *)
(***************************************************************************)
build_root ==
  LET v == [i \in Vinodes |->
              CASE i = 0 -> Vinode(0, "/", {"DIR"}, None, None, None, 1, None, "VFS")
                [] i = 1 -> Vinode(1, ".", {"LINK"}, None, 2, 2, VFS_ROOT, 0, "VFS")
                [] i = 2 -> Vinode(2, "..", {"LINK"}, 1, None, None, VFS_ROOT, 0, "VFS")
                [] OTHER -> Unused]
  IN add_link(add_link(v, 0, 1), 0, 2)

vfs_init(where) ==
  LET boot == St(build_root, ext2_init(Hello, Label, Text)) IN
  Then(append_dir(boot, VFS_ROOT, "dev", {"DIR"}, "VFS"), LAMBDA d :
    Then(prepare_dir(d, d.r, VFS_ROOT, "VFS"), LAMBDA p :
      Then(append_dir(p, d.r, Last(Device), {"FILE", "MNT_ABLE"}, "EXT2FS"), LAMBDA f :
        vfs_mount(f, Device, where))))

(***************************************************************************)
(* The commands.  cat and "cat >" take an entry of files for good:         *)
(* vfs_close does nothing.                                                 *)
(***************************************************************************)
Init ==
  /\ LET s == vfs_init(BootMount) IN vinodes = s.v /\ disk = s.e
  /\ want = [i \in Inodes |-> IF "FILE" \in disk.ind[i].mode THEN Text ELSE <<>>]
  /\ files = <<>> /\ fault = "none" /\ ops = 0 /\ harm = {}

Now == St(vinodes, disk)

Pulled(s) ==
  IF \E f \in DOMAIN files : LET k == files[f].vinode IN
       s.v[k].mode = {} /\ vinodes[k].mode # {}
  THEN {"pulled"} ELSE {}

Command(s) ==
  /\ fault = "none" /\ ops < MaxOps
  /\ fault' = s.fault
  /\ IF Good(s)
     THEN vinodes' = s.v /\ disk' = s.e /\ harm' = harm \cup s.harm \cup Pulled(s)
     ELSE UNCHANGED <<vinodes, disk, harm>>
  /\ ops' = IF Good(s) /\ s.v = vinodes /\ s.e = disk THEN ops ELSE ops + 1
  /\ UNCHANGED <<files, want>>

mkdir_do(p) ==
  Command(Then(Access(Now, p, {"DIR"}), LAMBDA a :
            IF a.r # None THEN a ELSE vfs_create(a, p)))

rmdir_do(p) == Command(vfs_remove(Access(Now, p, {"DIR"}), p))
link_do(o, n) == Command(vfs_link(Now, o, n))
unlink_do(p) == Command(vfs_unlink(Now, p))
mount_do(p) == Command(vfs_mount(Now, Device, p))
unmount_do(p) == Command(vfs_unmount(Now, p))
ls_do(p) == Command(lookup_auto(Now, p \o <<".">>))

\* cat reads at once as far as it gets; "cat >" writes later.
Opened(a, mode) ==
  LET vi == a.v[a.r]
      ok == Good(a) /\ a.r # None /\ Len(files) < MaxFile
      offset == IF "RD" \in mode
                THEN Len(ext2_read(disk, vi.ridx, 0, NIndBlocks * BlkSize)) ELSE 0
  IN
  /\ fault = "none" /\ ops < MaxOps
  /\ fault' = a.fault
  /\ vinodes' = IF Good(a) THEN a.v ELSE vinodes
  /\ files' = IF ok THEN Append(files, [vinode |-> a.r, mode |-> mode,
                                        offset |-> offset, inode |-> vi.ridx])
                    ELSE files
  /\ ops' = IF Good(a) /\ vinodes' = vinodes /\ files' = files THEN ops ELSE ops + 1
  /\ UNCHANGED <<disk, want, harm>>

Open(p, mode) == Opened(Access(Now, p, mode), mode)

cat_do(p)   == Open(p, {"FILE", "RD"})
catto_do(p) == Open(p, {"FILE", "WR"})

vfs_write(f, text) ==
  LET vi == vinodes[files[f].vinode]
      off == files[f].offset
      w  == ext2_write(disk, vi.ridx, off, text)
  IN
  /\ fault = "none" /\ ops < MaxOps
  /\ "WR" \in files[f].mode /\ vi.fs = "EXT2FS"
  /\ IF vi.ridx \notin Inodes \/ w.e.wild
     THEN fault' = "wild" /\ UNCHANGED <<disk, files, want, harm>>
     ELSE /\ disk' = w.e /\ files' = [files EXCEPT ![f].offset = @ + w.ret]
          /\ want' = [want EXCEPT ![vi.ridx] =
                        [k \in 1 .. off + Len(text) |->
                           IF k > off THEN text[k - off]
                           ELSE IF k <= Len(@) THEN @[k] ELSE Stray]]
          /\ harm' = harm \cup Astray(disk, vi.ridx, "FILE")
                          \cup (IF w.ret < Len(text) THEN {"half"} ELSE {})
          /\ UNCHANGED fault
  /\ ops' = ops + 1
  /\ UNCHANGED vinodes

Next ==
  \/ \E p \in DirPaths : mkdir_do(p) \/ rmdir_do(p)
  \/ \E o \in AllPaths \ LinkPaths, n \in LinkPaths : link_do(o, n)
  \/ \E p \in AllPaths : unlink_do(p)
  \/ \E p \in DirPaths \cup LinkPaths : ls_do(p)
  \/ \E p \in MountPaths : mount_do(p)
  \/ \E p \in MountPaths \cup LinkPaths : unmount_do(p)
  \/ \E p \in HelloPaths \cup LinkPaths : cat_do(p) \/ catto_do(p)
  \/ \E f \in DOMAIN files, t \in Texts : vfs_write(f, t)

Spec == Init /\ [][Next]_vars

-----------------------------------------------------------------------------
(***************************************************************************)
(* Properties.  What several commands have to keep between them.  Where    *)
(* the code does not keep it, the property says what has been done first.  *)
(***************************************************************************)
Used == {i \in Vinodes : vinodes[i].mode # {}}
Unless(S) == harm \cap S = {}
IsDir(i) == "DIR" \in vinodes[i].mode
IsLink(i) == "LINK" \in vinodes[i].mode

Names == Str \cup {"/", "dev", Last(Device)}

VinodeType ==
  [name : Names, fs : {"VFS", "EXT2FS"},
   mode : SUBSET {"DIR", "FILE", "LINK", "RD", "WR", "MNT_ABLE", "UNMNT_ABLE"},
   dot : Vinodes \cup {None}, ddot : Vinodes \cup {None},
   next : Vinodes \cup {None}, child : Vinodes \cup {None},
   prev_link : Vinodes, next_link : Vinodes, linkcnt : Vinodes,
   ridx : Inodes \cup {0, None}]

(***************************************************************************)
(* Types.  Every index in the table and in the open files stays inside its *)
(* array, as long as no call went astray: a block that is freed twice      *)
(* makes the counters exceed the disk.                                     *)
(***************************************************************************)
TypeOK ==
  /\ vinodes \in [Vinodes -> VinodeType]
  /\ Unless({"astray"}) =>
       disk.free_blocks \in 0 .. NBlocks /\ disk.free_inodes \in 0 .. NInodes
  /\ disk.blockmap \subseteq Blocks /\ disk.inodemap \subseteq Inodes
  /\ \A i \in Inodes : disk.ind[i].blocks \in 0 .. NIndBlocks
  /\ ~ disk.wild
  /\ files \in Seq([vinode : Vinodes, offset : Nat, inode : Inodes,
                   mode : {{"FILE", "RD"}, {"FILE", "WR"}}])
  /\ Len(files) <= MaxFile
  /\ fault \in {"none", "assert", "spin", "index", "wild"} /\ ops \in 0 .. MaxOps

(***************************************************************************)
(* The counters, the bitmaps and the inodes' lists, kept by four calls and *)
(* a write, agree: no block has two owners or is owned and free, and none  *)
(* is taken for good, unless a call went astray: a file was written whose  *)
(* inode had been freed, or a directory removed by an entry that an        *)
(* earlier removal had left behind.                                        *)
(***************************************************************************)
BitmapsExact ==
  LET owned(i) == Range(BlocksOf(disk.ind[i])) IN
  Unless({"astray"}) =>
    /\ disk.free_blocks = NBlocks - Cardinality(disk.blockmap)
    /\ disk.free_inodes = NInodes - Cardinality(disk.inodemap)
    /\ \A i, j \in disk.inodemap : i # j => owned(i) \cap owned(j) = {}
    /\ disk.blockmap = UNION {owned(i) : i \in disk.inodemap}

(***************************************************************************)
(* The rings of links.  They close in both directions, unless a directory  *)
(* whose entries were in the table has been unlinked while it had links,   *)
(* or one went that had a directory in the table below it; each has a      *)
(* member that is no link, so that a lookup does not go round for ever,    *)
(* unless a directory went while something outside it was linked to it.    *)
(***************************************************************************)
LinkRings ==
  /\ Unless({"hollow", "nested"}) =>
       \A k \in Used : LET v == vinodes[k] IN
         /\ {v.next_link, v.prev_link} \subseteq Used
         /\ vinodes[v.next_link].prev_link = k /\ vinodes[v.prev_link].next_link = k
  /\ Unless({"hollow", "cut"}) =>
       fault # "spin" /\ \A k \in Used : ~ IsLink(RealOf(vinodes, k))

Tree ==
  LET grow[n \in 0 .. MaxVinode] ==
        IF n = 0 THEN {VFS_ROOT}
        ELSE LET g == grow[n - 1] IN
             g \cup UNION {Range(Children(vinodes, d)) : d \in {x \in g : ~ IsLink(x)}}
  IN grow[MaxVinode]

(***************************************************************************)
(* Every slot in use is in the tree: the table does not fill with what     *)
(* nobody can reach, unless a directory went that had a directory in the   *)
(* table below it (remove_dir frees one level).                            *)
(***************************************************************************)
TableIsTree == Unless({"nested"}) => Used = Tree

\* The directories of the disk that have been read into the table, and the
\* names that the table and the disk have in one of them.
ReadDirs ==
  {d \in Tree : IsDir(d) /\ vinodes[d].fs = "EXT2FS" /\ vinodes[d].child # None}

TableNames(d) ==
  {vinodes[k].name :
     k \in {x \in Range(Children(vinodes, d)) : ~ IsLink(x)}}

DiskNames(d) ==
  {e.name : e \in Range(ext2_readdir(disk, vinodes[d].ridx))} \ {".", ".."}

(***************************************************************************)
(* A directory is read into the table once and from then on changed in     *)
(* both places: they have the same names.  Unless the table has a move     *)
(* that the disk has not, ext2_remove has left the entry or written over   *)
(* another block, or a call went astray.                                   *)
(***************************************************************************)
TreeIsDisk ==
  /\ Unless({"moved", "smash", "astray"}) =>
       \A d \in ReadDirs : TableNames(d) \subseteq DiskNames(d)
  /\ Unless({"moved", "stays", "astray"}) =>
       \A d \in ReadDirs : DiskNames(d) \subseteq TableNames(d)

(***************************************************************************)
(* An open file stays the file that was opened, unless its vinode has been *)
(* freed.                                                                  *)
(***************************************************************************)
OpenFilesStay ==
  Unless({"pulled"}) =>
    \A f \in DOMAIN files : LET v == vinodes[files[f].vinode] IN
      v.ridx = files[f].inode /\ v.fs = "EXT2FS"

\* Cell k of the file of inode ind, counted from 1.
Cell(e, ind, k) ==
  e.blk[ind.block[1 + ((k - 1) \div BlkSize)]].data[1 + ((k - 1) % BlkSize)]

(***************************************************************************)
(* What was written to a file, at the offsets the writes moved to, is what *)
(* its blocks hold, and what a read of its first block returns from any    *)
(* offset.  In the later blocks, unless a write has lost the half of its   *)
(* tail; in all, unless a call took the file for something else or         *)
(* ext2_remove wrote a directory over a block in use.                      *)
(***************************************************************************)
FilesKeepText ==
  Unless({"astray", "smash"}) =>
    \A i \in {x \in disk.inodemap : "FILE" \in disk.ind[x].mode} :
      LET ind == disk.ind[i]
          first == Min({ind.size, BlkSize})
      IN /\ Len(want[i]) = ind.size
         /\ \A k \in 1 .. ind.size :
              k <= BlkSize \/ Unless({"half"})
                => want[i][k] \in {Cell(disk, ind, k), Stray}
         /\ \A off \in 0 .. first - 1 :
              ext2_read(disk, i, off, first - off)
                = [k \in 1 .. first - off |-> Cell(disk, ind, off + k)]

(***************************************************************************)
(* The device can be mounted exactly when it is not mounted, so that no    *)
(* two mounts write to one disk.  Unless a mount point was unlinked.       *)
(***************************************************************************)
MountExclusive ==
  LET mounts == {i \in Used : "UNMNT_ABLE" \in vinodes[i].mode}
      device == vinodes[lookup_cur(vinodes, Device).cur]
  IN Unless({"moved"}) =>
       /\ "MNT_ABLE" \in device.mode <=> mounts = {}
       /\ Cardinality(mounts) <= 1
=============================================================================
