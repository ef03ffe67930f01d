-------------------------------- MODULE Ext2 --------------------------------
(***************************************************************************)
(* The file system of one ramdisk, kernel/src/fs/ext2fs.c: what each call  *)
(* makes of the disk, as operators on a record.  Nothing in it runs        *)
(* concurrently with itself here; module Vfs makes the calls.              *)
(*                                                                         *)
(* Data.  A directory is measured in entries and a file in cells, DirAmut  *)
(* or BlkSize to a block; a block is what was last written to it, entries  *)
(* or cells; a text read as a directory begins with an entry in use whose  *)
(* name nobody types.  Entries "." and ".." are known by their names.  A   *)
(* call that would leave the arrays or the disk, or that fails an assert,  *)
(* sets wild and nothing else: what comes after it is not modelled.        *)
(* Definitions named Bug... are mutations of the one that follows.         *)
(***************************************************************************)
EXTENDS Integers, Sequences, FiniteSets, FiniteSetsExt, SequencesExt

CONSTANTS
  NBlocks, NInodes,  \* DATA_BLOCK_COUNT, INODE_TABLE_COUNT
  ByteBits,          \* bits in a byte of the bitmaps
  DirAmut, BlkSize,  \* entries and cells in a block
  MaxDirSize,        \* entries in 4096 bytes
  NIndBlocks         \* EXT2_N_BLOCKS

ASSUME Ext2Constants ==
  /\ NBlocks \in Nat /\ NInodes \in Nat /\ ByteBits \in Nat \ {0}
  /\ NBlocks % ByteBits = 0 /\ NInodes % ByteBits = 0
  /\ DirAmut \in Nat /\ DirAmut > 1 /\ BlkSize \in Nat \ {0}
  /\ MaxDirSize \in Nat /\ NIndBlocks \in Nat \ {0}

EXT2_ROOT == 1
None      == -1            \* what the calls return as -1
Stray     == "stray"       \* a cell outside datablockbuf, or never written
DirMode   == {"DIR"}
FileMode  == {"FILE", "RD", "WR"}

Blocks == 0 .. NBlocks - 1
Inodes == 1 .. NInodes

NoEntry == [name |-> "", inode |-> 0, mode |-> {}]
NoDir   == [j \in 1 .. DirAmut |-> NoEntry]
TextDir == [NoDir EXCEPT ![1].inode = 1]   \* a text, read as a directory
NoData  == [k \in 1 .. BlkSize |-> Stray]
NoInd   == [mode |-> {}, size |-> 0, blocks |-> 0,
            block |-> [i \in 1 .. NIndBlocks |-> 0]]

\* What a name or a cell holds; to the provers a literal is not in STRING.
Str == STRING \cup {"", ".", "..", Stray}

\* The blocks of an inode, in order.
BlocksOf(ind) == [i \in 1 .. ind.blocks |-> ind.block[i]]

wr_dir(e, b, dir)   == [e EXCEPT !.blk[b] = [dir |-> dir, data |-> NoData]]
wr_data(e, b, data) == [e EXCEPT !.blk[b] = [dir |-> TextDir, data |-> data]]

(***************************************************************************)
(* The bitmaps.  A search starts at the byte of the last allocation, goes  *)
(* round, and takes the first free bit of the first byte that has one.     *)
(***************************************************************************)
FirstFree(used, last, n) ==
  LET bytes == n \div ByteBits
      rank(b) == (((b \div ByteBits) - (last \div ByteBits)) % bytes) * ByteBits
                   + (b % ByteBits)
      free == (0 .. n - 1) \ used
  IN CHOOSE b \in free : \A c \in free : rank(b) <= rank(c)

ext2_alloc_block(e) ==
  IF e.free_blocks = 0 THEN [e |-> e, n |-> None]
  ELSE LET b == FirstFree(e.blockmap, e.last_block, NBlocks) IN
       [e |-> [e EXCEPT !.blockmap = @ \cup {b}, !.last_block = b,
                        !.free_blocks = @ - 1],
        n |-> b]

ext2_alloc_inode(e) ==
  IF e.free_inodes = 0 THEN [e |-> e, n |-> None]
  ELSE LET i == 1 + FirstFree({k - 1 : k \in e.inodemap}, e.last_inode - 1, NInodes)
       IN [e |-> [e EXCEPT !.inodemap = @ \cup {i}, !.last_inode = i,
                           !.free_inodes = @ - 1],
           n |-> i]

BugRemoveBlock(e, b) == [e EXCEPT !.blockmap = @ \ {b}]

ext2_remove_block(e, b) ==
  [e EXCEPT !.blockmap = @ \ {b}, !.free_blocks = @ + 1]

ext2_remove_inode(e, i) ==
  [e EXCEPT !.inodemap = @ \ {i}, !.free_inodes = @ + 1]

Wild(e) == [e EXCEPT !.wild = TRUE]

(***************************************************************************)
(* Directories.  A search goes through the blocks in order; a removed      *)
(* entry has inode 0 and keeps its name.                                   *)
(***************************************************************************)
Places(ind) == (1 .. ind.blocks) \X (1 .. DirAmut)
EntryAt(e, ind, p) == e.blk[ind.block[p[1]]].dir[p[2]]

FirstPlace(S) ==
  CHOOSE p \in S : \A q \in S : p[1] < q[1] \/ (p[1] = q[1] /\ p[2] <= q[2])

\* The entries that the calls for kth = 1, 2, ... return: those in use among the first n.
\* Inode 0 is the tail of the inode bitmap, zeroes.
Listed(d, list, n) ==
  LET p == <<1 + ((n - 1) \div DirAmut), 1 + ((n - 1) % DirAmut)>>
      x == EntryAt(d.e, d.ind, p)
  IN IF x.inode = 0 THEN list ELSE Append(list, x)

ext2_readdir(e, ridx) ==
  LET ind == IF ridx \in Inodes THEN e.ind[ridx] ELSE NoInd
      d   == [e |-> e, ind |-> ind]
      list[n \in 0 .. ind.blocks * DirAmut] ==
        IF n = 0 THEN <<>> ELSE Listed(d, list[n - 1], n)
  IN list[ind.blocks * DirAmut]

\* dir is the directory buffer, as the caller leaves it: with its names.
ext2_ind_prepare(e, idx, par, mode, dir) ==
  IF "DIR" \in mode THEN
    LET a == ext2_alloc_block(e)
        new == [j \in 1 .. DirAmut |->
                  IF j = 1 THEN [name |-> ".", inode |-> idx, mode |-> DirMode]
                  ELSE IF j = 2 THEN [name |-> "..", inode |-> par, mode |-> DirMode]
                  ELSE [dir[j] EXCEPT !.inode = 0]]
    IN IF a.n = None THEN Wild(e)
       ELSE [wr_dir(a.e, a.n, new) EXCEPT
               !.ind[idx].size = 2, !.ind[idx].blocks = 1,
               !.ind[idx].block[1] = a.n, !.ind[idx].mode = mode]
  ELSE [e EXCEPT !.ind[idx].size = 0, !.ind[idx].blocks = 0, !.ind[idx].mode = mode]

(***************************************************************************)
(* ext2_create.  A directory whose size is a whole number of blocks gets a *)
(* new block; otherwise it is taken to have a free entry somewhere.        *)
(***************************************************************************)
MustGrow(ind) == ind.size = ind.blocks * DirAmut
FreePlaces(e, ind) == {p \in Places(ind) : EntryAt(e, ind, p).inode = 0}

\* ent goes into a new block b, whose other entries keep their names.
PutInNew(e, ridx, b, ent) ==
  LET n   == e.ind[ridx].blocks + 1
      dir == [j \in 1 .. DirAmut |->
                IF j = 1 THEN ent ELSE [e.blk[b].dir[j] EXCEPT !.inode = 0]]
      put == [wr_dir(e, b, dir) EXCEPT !.ind[ridx].block[n] = b,
                !.ind[ridx].blocks = n, !.ind[ridx].size = @ + 1]
  IN ext2_ind_prepare(put, ent.inode, ridx, ent.mode, dir)

\* ent goes to place p.
PutAt(e, ridx, p, ent) ==
  LET at  == e.ind[ridx].block[p[1]]
      dir == [e.blk[at].dir EXCEPT ![p[2]] = ent]
      put == [wr_dir(e, at, dir) EXCEPT !.ind[ridx].size = @ + 1]
  IN ext2_ind_prepare(put, ent.inode, ridx, ent.mode, dir)

ext2_create(e, ridx, name, mode) ==
  LET ind  == e.ind[ridx]
      free == FreePlaces(e, ind)
      b    == IF MustGrow(ind) THEN ext2_alloc_block(e) ELSE [e |-> e, n |-> 0]
      a    == ext2_alloc_inode(b.e)
      ent  == [name |-> name, inode |-> a.n, mode |-> mode]
  IN CASE \/ ind.size >= MaxDirSize \/ a.n = None \/ b.n = None
          \/ MustGrow(ind) /\ ind.blocks = NIndBlocks
          \/ ~ MustGrow(ind) /\ free = {} -> [e |-> Wild(e), n |-> None]
       [] OTHER ->
            [e |-> IF MustGrow(ind) THEN PutInNew(a.e, ridx, b.n, ent)
                   ELSE PutAt(a.e, ridx, FirstPlace(free), ent),
             n |-> a.n]

(***************************************************************************)
(* ext2_remove.  The buffer ind is the parent's until the child's is read  *)
(* into it: the block that receives the parent's changed entries is taken  *)
(* from the child's list.  An entry with inode 0 matches too; inode 0 is   *)
(* the tail of the inode bitmap, zeroes.                                   *)
(***************************************************************************)
Cleared(e, par, p) == [e.blk[par.block[p[1]]].dir EXCEPT ![p[2]].inode = 0]

RemoveDir(e, ridx, p, k) ==
  LET par == e.ind[ridx]
      ind == e.ind[k]
      e1  == ext2_remove_inode(ext2_remove_block(e, ind.block[1]), k)
      e2  == [wr_dir(e1, ind.block[p[1]], Cleared(e, par, p)) EXCEPT
                !.ind[k].size = 0, !.ind[k].blocks = 0]
  IN IF ind.size # 2 THEN [e |-> e, ret |-> 1]
     ELSE IF ind.blocks # 1 THEN [e |-> Wild(e), ret |-> 1]
     ELSE [e |-> [e2 EXCEPT !.ind[ridx].size = @ - 1], ret |-> 0]

RemoveFile(e, ridx, p, k) ==
  LET par  == e.ind[ridx]
      ind  == e.ind[k]
      zero == [i \in 1 .. NIndBlocks |-> IF i <= ind.blocks THEN 0 ELSE ind.block[i]]
      e1   == FoldLeft(ext2_remove_block, e, BlocksOf(ind))
      e2   == ext2_remove_inode([e1 EXCEPT !.ind[k].block = zero], k)
  IN [e |-> [wr_dir(e2, zero[p[1]], Cleared(e, par, p)) EXCEPT
               !.ind[ridx].size = @ - 1],
      ret |-> 0]

Named(e, ind, name) == {p \in Places(ind) : EntryAt(e, ind, p).name = name}

ext2_remove(e, ridx, name, mode) ==
  LET ind == e.ind[ridx]
      S   == Named(e, ind, name)
      p   == FirstPlace(S)
      k   == EntryAt(e, ind, p).inode
  IN CASE S = {} -> [e |-> e, ret |-> 1]
       [] S # {} /\ k = 0 /\ "DIR" \in mode -> [e |-> e, ret |-> 1]
       [] S # {} /\ k = 0 /\ "DIR" \notin mode -> [e |-> Wild(e), ret |-> 1]
       [] S # {} /\ k # 0 /\ "DIR" \in mode -> RemoveDir(e, ridx, p, k)
       [] S # {} /\ k # 0 /\ "DIR" \notin mode -> RemoveFile(e, ridx, p, k)

(***************************************************************************)
(* Contents.  A read does not stop at the end of its first block, so that  *)
(* block's buffer is all it ever reads.  A write copies only half of what  *)
(* is left into a last block that is not the first: its loop counts k up   *)
(* while len - ret goes down.                                              *)
(***************************************************************************)
BugRead(e, ridx, offset, len) ==
  LET ind == e.ind[ridx] IN
  IF offset \div BlkSize >= ind.blocks THEN <<>>
  ELSE SubSeq(e.blk[ind.block[1 + (offset \div BlkSize)]].data,
              1, Min({len, ind.size - offset}))

ext2_read(e, ridx, offset, len) ==
  LET ind  == e.ind[ridx]
      skip == offset \div BlkSize
      n    == Min({len, ind.size - skip * BlkSize}
                    \cup (IF offset <= ind.size THEN {ind.size - offset} ELSE {}))
      k(i) == (offset % BlkSize) + i
  IN IF skip >= ind.blocks THEN <<>>
     ELSE [i \in 1 .. n |-> IF k(i) > BlkSize THEN Stray
                            ELSE e.blk[ind.block[skip + 1]].data[k(i)]]

\* Blocks are added or taken away at the end of the list until there are need.
Grow(ridx, f, i) ==
  LET a == ext2_alloc_block(f) IN
  IF f.wild \/ a.n = None \/ i > NIndBlocks THEN Wild(f)
  ELSE [a.e EXCEPT !.ind[ridx].block[i] = a.n, !.ind[ridx].blocks = i]

Shrink(ridx, f, i) ==
  [ext2_remove_block(f, f.ind[ridx].block[i]) EXCEPT !.ind[ridx].blocks = i - 1]

Resize(e, ridx, need) ==
  LET now == e.ind[ridx].blocks IN
  IF now <= need
  THEN FoldLeft(LAMBDA f, i : Grow(ridx, f, i), e, [i \in 1 .. need - now |-> now + i])
  ELSE FoldLeft(LAMBDA f, i : Shrink(ridx, f, i), e,
                [i \in 1 .. now - need |-> now + 1 - i])

\* The blocks that n cells take.
Need(n) == (n + BlkSize - 1) \div BlkSize

Half(n) == (n + 1) \div 2

\* The cells that a write of len copies.
CopiedOf(offset, len) ==
  LET need == Need(offset + len)
      done == (need - 1) * BlkSize - offset    \* copied before the last block
  IN IF need > (offset \div BlkSize) + 1 THEN done + Half(len - done) ELSE len

\* Block n of the inode that w writes gets its part of the ret cells copied.
Copy(w, f, n) ==
  LET b == f.ind[w.ridx].block[n]
      at(k) == (n - 1) * BlkSize + k - w.offset
  IN wr_data(f, b, [k \in 1 .. BlkSize |->
                      IF at(k) \in 1 .. w.ret THEN w.buf[at(k)] ELSE f.blk[b].data[k]])

\* The blocks after skip, up to need.
CopyAll(w, e, skip, need) ==
  FoldLeft(LAMBDA f, n : Copy(w, f, n), e, [n \in 1 .. need - skip |-> skip + n])

ext2_write(e, ridx, offset, buf) ==
  LET size == offset + Len(buf)
      ret  == CopiedOf(offset, Len(buf))
      e1   == Resize(e, ridx, Need(size))
      w    == [ridx |-> ridx, offset |-> offset, buf |-> buf, ret |-> ret]
  IN IF "WR" \notin e.ind[ridx].mode THEN [e |-> e, ret |-> 0]
     ELSE IF e1.wild THEN [e |-> e1, ret |-> 0]
     ELSE [e |-> [CopyAll(w, e1, offset \div BlkSize, Need(size)) EXCEPT
                    !.ind[ridx].size = size],
           ret |-> ret]

(***************************************************************************)
(* A new file system: the root directory and the two files.                *)
(***************************************************************************)
Zeroed ==
  [blockmap |-> {}, inodemap |-> {}, free_blocks |-> NBlocks,
   free_inodes |-> NInodes, last_block |-> 0, last_inode |-> 1,
   ind |-> [i \in Inodes |-> NoInd],
   blk |-> [b \in Blocks |-> [dir |-> NoDir, data |-> NoData]],
   wild |-> FALSE]

Root ==
  LET b == ext2_alloc_block(Zeroed)
      i == ext2_alloc_inode(b.e)
      dot(name) == [name |-> name, inode |-> i.n, mode |-> {}]
  IN [wr_dir(i.e, b.n, [NoDir EXCEPT ![1] = dot("."), ![2] = dot("..")]) EXCEPT
        !.ind[i.n] = [mode |-> {"DIR", "RD", "WR"}, size |-> 2, blocks |-> 1,
                      block |-> [NoInd.block EXCEPT ![1] = b.n]]]

ext2_init(hello, label, text) ==
  LET h == ext2_create(Root, EXT2_ROOT, hello, FileMode)
      w == ext2_write(h.e, h.n, 0, text)
      l == ext2_create(w.e, EXT2_ROOT, label, FileMode)
  IN ext2_write(l.e, l.n, 0, text).e
=============================================================================
