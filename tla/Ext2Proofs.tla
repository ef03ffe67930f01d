----------------------------- MODULE Ext2Proofs -----------------------------
(***************************************************************************)
(* What each call of ext2fs.c makes of the disk, for every size of it.     *)
(* The constants are those of Vfs, whose texts the disk holds.             *)
(***************************************************************************)
EXTENDS Vfs, Lemmas, SequenceTheorems

(***************************************************************************)
(* The disk.  What an ext2 record is made of.                              *)
(***************************************************************************)
Modes   == {"DIR", "FILE", "RD", "WR"}
Entry   == [name : Str, inode : Inodes \cup {0}, mode : SUBSET Modes]
DirBuf  == [1 .. DirAmut -> Entry]
DataBuf == [1 .. BlkSize -> Str]
Kinds   == {{}, DirMode, FileMode, {"DIR", "RD", "WR"}}
Ind     == [mode : Kinds, size : Int, blocks : 0 .. NIndBlocks,
            block : [1 .. NIndBlocks -> Blocks]]
Blk     == [dir : DirBuf, data : DataBuf]
Disk    ==
  [blockmap : SUBSET Blocks, inodemap : SUBSET Inodes, free_blocks : Int,
   free_inodes : Int, last_block : Blocks, last_inode : Inodes,
   ind : [Inodes -> Ind], blk : [Blocks -> Blk], wild : BOOLEAN]

\* The blocks an inode's list names.
Own(ind) == {ind.block[n] : n \in 1 .. ind.blocks}

\* The counters of e.
Counted(e) ==
  /\ e.free_blocks = NBlocks - Cardinality(e.blockmap)
  /\ e.free_inodes = NInodes - Cardinality(e.inodemap)

\* No list names a block twice.
Distinct(ind) ==
  \A m, n \in 1 .. ind.blocks : ind.block[m] = ind.block[n] => m = n

\* Every block in use has one owner among the inodes in use.
Books(bm, im, ind) ==
  /\ \A i \in im : Own(ind[i]) \subseteq bm /\ Distinct(ind[i])
  /\ \A b \in bm : \E i \in im : b \in Own(ind[i])
  /\ \A i, j \in im : \A b \in Own(ind[i]) : b \in Own(ind[j]) => i = j

Owned(e) == Books(e.blockmap, e.inodemap, e.ind)

DiskInv(e) == e \in Disk /\ Counted(e) /\ Owned(e) /\ ~ e.wild

\* The fields of a disk.
LEMMA DiskFields ==
  ASSUME NEW e \in Disk
  PROVE  /\ e.blockmap \in SUBSET Blocks /\ e.inodemap \in SUBSET Inodes
         /\ e.free_blocks \in Int /\ e.free_inodes \in Int
         /\ e.last_block \in Blocks /\ e.last_inode \in Inodes
         /\ e.ind \in [Inodes -> Ind] /\ e.blk \in [Blocks -> Blk] /\ e.wild \in BOOLEAN
BY DEF Disk

\* A disk with other bitmaps.
WithBlocks(e, bm, lb, fb) ==
  [e EXCEPT !.blockmap = bm, !.last_block = lb, !.free_blocks = fb]
WithInodes(e, im, li, fi) ==
  [e EXCEPT !.inodemap = im, !.last_inode = li, !.free_inodes = fi]

\* The rest of it is the same.
LEMMA DiskWith ==
  ASSUME NEW e \in Disk, NEW bm \in SUBSET Blocks, NEW fb \in Int, NEW lb \in Blocks
  PROVE  LET f == WithBlocks(e, bm, lb, fb) IN
         /\ f \in Disk /\ f.blockmap = bm /\ f.free_blocks = fb /\ f.last_block = lb
         /\ f.inodemap = e.inodemap /\ f.free_inodes = e.free_inodes
         /\ f.last_inode = e.last_inode /\ f.ind = e.ind /\ f.blk = e.blk
         /\ f.wild = e.wild
BY DEF Disk, WithBlocks, WithInodes

\* The same for the inodes.
LEMMA DiskWithInodes ==
  ASSUME NEW e \in Disk, NEW im \in SUBSET Inodes, NEW fi \in Int, NEW li \in Inodes
  PROVE  LET f == WithInodes(e, im, li, fi) IN
         /\ f \in Disk /\ f.inodemap = im /\ f.free_inodes = fi /\ f.last_inode = li
         /\ f.blockmap = e.blockmap /\ f.free_blocks = e.free_blocks
         /\ f.last_block = e.last_block /\ f.ind = e.ind /\ f.blk = e.blk
         /\ f.wild = e.wild
BY DEF Disk, WithBlocks, WithInodes

\* The sets of blocks and of inodes are finite.
LEMMA Sizes ==
  /\ IsFiniteSet(Blocks) /\ Cardinality(Blocks) = NBlocks
  /\ IsFiniteSet(Inodes) /\ Cardinality(Inodes) = NInodes
  /\ NBlocks \in Nat \ {0} /\ NInodes \in Nat \ {0}
  /\ ByteBits \in Nat \ {0} /\ BlkSize \in Nat \ {0} /\ NIndBlocks \in Nat \ {0}
  /\ DirAmut \in Nat /\ DirAmut >= 4 /\ MaxDirSize \in Nat
<1>1. /\ NBlocks \in Nat \ {0} /\ NInodes \in Nat \ {0}
      /\ ByteBits \in Nat \ {0} /\ BlkSize \in Nat \ {0} /\ NIndBlocks \in Nat \ {0}
      /\ DirAmut \in Nat /\ DirAmut >= 4 /\ MaxDirSize \in Nat
  BY Ext2Constants, DiskRoom
<1>3. 0 \in Int /\ NBlocks - 1 \in Int /\ IsFiniteSet(Blocks) /\ Cardinality(Blocks) = NBlocks
  BY <1>1, FS_Interval DEF Blocks
<1>4. IsFiniteSet(Inodes) /\ Cardinality(Inodes) = NInodes
  BY <1>1, FS_Interval DEF Inodes
<1> QED
  BY <1>1, <1>3, <1>4

\* The search of a bitmap finds a free bit if there is one (ext2fs.c:112-128).
LEMMA FirstFreeIsFree ==
  ASSUME NEW n \in Nat \ {0}, n % ByteBits = 0, NEW used, NEW last \in Int,
         (0 .. n - 1) \ used # {}
  PROVE  FirstFree(used, last, n) \in (0 .. n - 1) \ used
<1> DEFINE bytes == n \div ByteBits
           rank(b) == (((b \div ByteBits) - (last \div ByteBits)) % bytes) * ByteBits
                        + (b % ByteBits)
           free == (0 .. n - 1) \ used
<1>0. ByteBits \in Nat \ {0}
  BY Sizes
<1>1. bytes \in Nat \ {0}
  <2>1. bytes \in Int /\ n = (ByteBits * bytes) + (n % ByteBits)
    BY <1>0, DivMod
  <2> HIDE DEF bytes
  <2>2. n = ByteBits * bytes
    BY <1>0, <2>1
  <2>3. CASE bytes <= 0
    <3>1. ByteBits * bytes <= 0
      BY <1>0, <2>1, <2>3
    <3> QED
      BY <2>2, <3>1
  <2> QED
    BY <2>1, <2>3
<1>2. \A b \in free : rank(b) \in Nat
  <2> TAKE b \in free
  <2>1. b \in Int /\ b % ByteBits \in 0 .. ByteBits - 1 /\ b \div ByteBits \in Int
    BY <1>0, DivMod
  <2>2. last \div ByteBits \in Int
    BY <1>0, DivMod
  <2> DEFINE x == (b \div ByteBits) - (last \div ByteBits)
  <2>3. x \in Int
    BY <2>1, <2>2
  <2> HIDE DEF x, bytes
  <2>4. x % bytes \in Nat
    BY <1>1, <2>3, DivMod
  <2>5. \A a \in Nat : a * ByteBits \in Nat
    BY <1>0
  <2>6. (x % bytes) * ByteBits \in Nat
    BY <2>4, <2>5
  <2> QED
    BY <2>1, <2>6 DEF x
<1> HIDE DEF bytes
<1>3. \E b \in free : \A c \in free : rank(b) <= rank(c)
  <2> DEFINE T == {rank(b) : b \in free}
  <2>1. T \in SUBSET Nat /\ T # {}
    BY <1>2
  <2> HIDE DEF rank
  <2>2. PICK m \in T : \A k \in T : m <= k
    <3> HIDE DEF T
    <3> QED
      BY <2>1, LeastNatural
  <2> QED
    BY <2>2
<1>4. FirstFree(used, last, n) = CHOOSE b \in free : \A c \in free : rank(b) <= rank(c)
  BY DEF FirstFree, bytes
<1> HIDE DEF rank, free
<1>5. FirstFree(used, last, n) \in free
  BY <1>3, <1>4
<1> QED
  BY <1>5 DEF free

\* A counted disk with a free block or inode left has one.
LEMMA RoomLeft ==
  ASSUME NEW e \in Disk, Counted(e)
  PROVE  /\ e.free_blocks \in Nat /\ e.free_inodes \in Nat
         /\ e.free_blocks # 0 => Blocks \ e.blockmap # {}
         /\ e.free_inodes # 0 => Inodes \ e.inodemap # {}
         /\ IsFiniteSet(e.blockmap) /\ IsFiniteSet(e.inodemap)
         /\ Cardinality(e.blockmap) \in Nat /\ Cardinality(e.inodemap) \in Nat
<1>1. e.blockmap \in SUBSET Blocks /\ e.inodemap \in SUBSET Inodes
  BY DEF Disk
<1>2. /\ IsFiniteSet(e.blockmap) /\ Cardinality(e.blockmap) <= NBlocks
      /\ Cardinality(e.blockmap) = NBlocks => e.blockmap = Blocks
  BY <1>1, Sizes, FS_Subset
<1>3. /\ IsFiniteSet(e.inodemap) /\ Cardinality(e.inodemap) <= NInodes
      /\ Cardinality(e.inodemap) = NInodes => e.inodemap = Inodes
  BY <1>1, Sizes, FS_Subset
<1>4. Cardinality(e.blockmap) \in Nat /\ Cardinality(e.inodemap) \in Nat
  BY <1>2, <1>3, FS_CardinalityType
<1>5. NBlocks \in Nat /\ NInodes \in Nat
  BY Sizes
<1>6. e.blockmap = Blocks => e.free_blocks = 0
  BY <1>5, Sizes DEF Counted
<1>7. e.inodemap = Inodes => e.free_inodes = 0
  BY <1>5, Sizes DEF Counted
<1>8. e.free_blocks \in Nat /\ e.free_inodes \in Nat
  BY <1>2, <1>3, <1>4, <1>5 DEF Counted
<1>9. e.free_blocks # 0 => Blocks \ e.blockmap # {}
  BY <1>1, <1>6
<1>10. e.free_inodes # 0 => Inodes \ e.inodemap # {}
  BY <1>1, <1>7
<1> QED
  BY <1>2, <1>3, <1>4, <1>8, <1>9, <1>10

\* ext2_alloc_block takes a free block (ext2fs.c:109-133).
LEMMA AllocBlock ==
  ASSUME NEW e \in Disk, Counted(e), ext2_alloc_block(e).n # None
  PROVE  LET a == ext2_alloc_block(e) IN
         /\ a.n \in Blocks \ e.blockmap /\ e.free_blocks # 0
         /\ a.e = [e EXCEPT !.blockmap = @ \cup {a.n}, !.last_block = a.n,
                            !.free_blocks = @ - 1]
         /\ a.e \in Disk /\ Counted(a.e)
<1> DEFINE b == FirstFree(e.blockmap, e.last_block, NBlocks)
           f == [e EXCEPT !.blockmap = @ \cup {b}, !.last_block = b,
                            !.free_blocks = @ - 1]
<1>1. e.free_blocks # 0 /\ ext2_alloc_block(e) = [e |-> f, n |-> b]
  BY DEF ext2_alloc_block
<1>2. b \in Blocks \ e.blockmap
  <2>1. Blocks \ e.blockmap # {} /\ e.last_block \in Int
    <3>1. Blocks \ e.blockmap # {}
      BY <1>1, RoomLeft
    <3>2. e.last_block \in Blocks
      BY DiskFields
    <3>3. e.last_block \in Int
      BY <3>2, Sizes DEF Blocks
    <3> QED
      BY <3>1, <3>3
  <2> QED
    BY <2>1, FirstFreeIsFree, Sizes, Ext2Constants DEF Blocks
<1> HIDE DEF b
<1>3. f \in Disk
  <2>1. e.blockmap \cup {b} \in SUBSET Blocks /\ e.free_blocks - 1 \in Int /\ b \in Blocks
    BY <1>2, DiskFields
  <2>2. f = WithBlocks(e, e.blockmap \cup {b}, b, e.free_blocks - 1)
    BY DEF WithBlocks
  <2> QED
    BY <2>1, <2>2, DiskWith
<1>4. Cardinality(e.blockmap \cup {b}) = Cardinality(e.blockmap) + 1
  BY <1>2, RoomLeft, FS_AddElement
<1>5. f.blockmap = e.blockmap \cup {b} /\ f.inodemap = e.inodemap
      /\ f.free_blocks = e.free_blocks - 1 /\ f.free_inodes = e.free_inodes
  BY DEF Disk
<1>6. Counted(f)
  BY <1>4, <1>5, RoomLeft, Sizes DEF Counted
<1> HIDE DEF f
<1> QED
  BY <1>1, <1>2, <1>3, <1>6 DEF f

\* There is a block if the counter says so.
LEMMA AllocBlockFinds ==
  ASSUME NEW e \in Disk, Counted(e), e.free_blocks # 0
  PROVE  ext2_alloc_block(e).n # None
<1> DEFINE b == FirstFree(e.blockmap, e.last_block, NBlocks)
<1>1. ext2_alloc_block(e).n = b
  BY DEF ext2_alloc_block
<1>2. b \in Blocks
  <2>1. Blocks \ e.blockmap # {} /\ e.last_block \in Int
    BY RoomLeft, Sizes DEF Disk, Blocks
  <2> QED
    BY <2>1, FirstFreeIsFree, Sizes, Ext2Constants DEF Blocks
<1> QED
  BY <1>1, <1>2, Sizes DEF Blocks, None

\* ext2_alloc_inode takes a free inode if there is one (ext2fs.c:135-159).
LEMMA AllocInode ==
  ASSUME NEW e \in Disk, Counted(e)
  PROVE  LET a == ext2_alloc_inode(e) IN
         /\ a.n # None <=> e.free_inodes # 0
         /\ a.n # None =>
              /\ a.n \in Inodes \ e.inodemap
              /\ a.e = [e EXCEPT !.inodemap = @ \cup {a.n}, !.last_inode = a.n,
                                 !.free_inodes = @ - 1]
              /\ a.e \in Disk /\ Counted(a.e)
<1>0. CASE e.free_inodes = 0
  BY <1>0 DEF ext2_alloc_inode
<1>9. CASE e.free_inodes # 0
  <2> DEFINE x == FirstFree({k - 1 : k \in e.inodemap}, e.last_inode - 1, NInodes)
             i == 1 + x
             f == [e EXCEPT !.inodemap = @ \cup {i}, !.last_inode = i,
                            !.free_inodes = @ - 1]
  <2>1. ext2_alloc_inode(e) = [e |-> f, n |-> i]
    BY <1>9 DEF ext2_alloc_inode
  <2>2. i \in Inodes \ e.inodemap
    <3> DEFINE used == {k - 1 : k \in e.inodemap}
    <3>1. PICK j \in Inodes \ e.inodemap : TRUE
      BY <1>9, RoomLeft
    <3>2. j - 1 \in (0 .. NInodes - 1) \ used
      BY Sizes DEF Inodes, Disk
    <3>3. e.last_inode - 1 \in Int
      BY Sizes DEF Disk, Inodes
    <3>4. x \in (0 .. NInodes - 1) \ used
      BY <3>2, <3>3, FirstFreeIsFree, Sizes, Ext2Constants
    <3> HIDE DEF x
    <3>5. i \in e.inodemap => x \in used
      BY <3>4
    <3> QED
      BY <3>4, <3>5, Sizes DEF Inodes
  <2> HIDE DEF i
  <2>3. f \in Disk
    <3>1. e.inodemap \cup {i} \in SUBSET Inodes /\ e.free_inodes - 1 \in Int /\ i \in Inodes
      BY <2>2, DiskFields
    <3>2. f = WithInodes(e, e.inodemap \cup {i}, i, e.free_inodes - 1)
      BY DEF WithInodes
    <3> QED
      BY <3>1, <3>2, DiskWithInodes
  <2>4. Cardinality(e.inodemap \cup {i}) = Cardinality(e.inodemap) + 1
    BY <2>2, RoomLeft, FS_AddElement
  <2>5. f.blockmap = e.blockmap /\ f.inodemap = e.inodemap \cup {i}
        /\ f.free_blocks = e.free_blocks /\ f.free_inodes = e.free_inodes - 1
    BY DEF Disk
  <2>6. Counted(f)
    BY <2>4, <2>5, RoomLeft, Sizes DEF Counted
  <2>7. i # None
    BY <2>2, Sizes DEF Inodes, None
  <2> HIDE DEF f
  <2> QED
    BY <1>9, <2>1, <2>2, <2>3, <2>6, <2>7 DEF f
<1> QED
  BY <1>0, <1>9

(***************************************************************************)
(* The books: who owns which block.                                        *)
(***************************************************************************)
\* Two inodes with the same list of blocks.
SameList(x, y) ==
  x.blocks = y.blocks /\ \A n \in 1 .. x.blocks : x.block[n] = y.block[n]

\* They own the same blocks.
LEMMA SameOwn ==
  ASSUME NEW x, NEW y, SameList(x, y)
  PROVE  Own(x) = Own(y) /\ (Distinct(x) <=> Distinct(y))
BY DEF SameList, Own, Distinct

\* Books in which only a list is written anew.
LEMMA BooksSame ==
  ASSUME NEW bm, NEW im, NEW x, NEW y, Books(bm, im, x),
         \A i \in im : SameList(x[i], y[i])
  PROVE  Books(bm, im, y)
<1>1. \A i \in im : Own(x[i]) = Own(y[i]) /\ (Distinct(x[i]) <=> Distinct(y[i]))
  BY SameOwn
<1> QED
  BY <1>1 DEF Books

\* A list with one block more.
LEMMA OwnMore ==
  ASSUME NEW x \in Ind, NEW y \in Ind, NEW b, x.blocks < NIndBlocks,
         y.blocks = x.blocks + 1, y.block[x.blocks + 1] = b,
         \A n \in 1 .. x.blocks : y.block[n] = x.block[n]
  PROVE  Own(y) = Own(x) \cup {b} /\ (Distinct(x) /\ b \notin Own(x) => Distinct(y))
<1>1. x.blocks \in Nat /\ x.blocks + 1 \in 1 .. NIndBlocks /\ DOMAIN x.block = 1 .. NIndBlocks
  BY Sizes DEF Ind
<1>2. /\ \A n \in 1 .. x.blocks : y.block[n] = x.block[n]
      /\ y.block[x.blocks + 1] = b
      /\ \A n : n \in 1 .. y.blocks <=> n \in 1 .. x.blocks \/ n = x.blocks + 1
  BY <1>1, Sizes
<1> QED
  BY <1>1, <1>2 DEF Own, Distinct

\* An inode in use takes a free block.
LEMMA BooksTake ==
  ASSUME NEW bm, NEW im, NEW x, NEW y, NEW i \in im, NEW b, b \notin bm,
         Books(bm, im, x), \A j \in im \ {i} : SameList(x[j], y[j]),
         Own(y[i]) = Own(x[i]) \cup {b}, Distinct(y[i])
  PROVE  Books(bm \cup {b}, im, y)
<1>1. \A j \in im \ {i} : Own(x[j]) = Own(y[j]) /\ Distinct(y[j])
  BY SameOwn DEF Books
<1>2. \A j \in im : b \notin Own(x[j])
  BY DEF Books
<1> QED
  BY <1>1, <1>2 DEF Books

\* A free inode is taken, with nothing.
LEMMA BooksNew ==
  ASSUME NEW bm, NEW im, NEW x, NEW y, NEW k, k \notin im,
         Books(bm, im, x), \A j \in im : SameList(x[j], y[j]), y[k].blocks = 0
  PROVE  Books(bm, im \cup {k}, y)
<1>1. \A j \in im : Own(x[j]) = Own(y[j]) /\ Distinct(y[j])
  BY SameOwn DEF Books
<1>2. Own(y[k]) = {} /\ Distinct(y[k])
  BY DEF Own, Distinct
<1> QED
  BY <1>1, <1>2 DEF Books

\* An inode and its blocks are freed.
LEMMA BooksDrop ==
  ASSUME NEW bm, NEW im, NEW x, NEW y, NEW k \in im,
         Books(bm, im, x), \A j \in im \ {k} : SameList(x[j], y[j])
  PROVE  Books(bm \ Own(x[k]), im \ {k}, y)
<1>1. \A j \in im \ {k} : Own(x[j]) = Own(y[j]) /\ Distinct(y[j])
  BY SameOwn DEF Books
<1> QED
  BY <1>1 DEF Books

\* A list without its last block.
LEMMA OwnLess ==
  ASSUME NEW x \in Ind, NEW y \in Ind, x.blocks > 0, Distinct(x),
         y.blocks = x.blocks - 1, y.block = x.block
  PROVE  /\ Own(y) = Own(x) \ {x.block[x.blocks]} /\ Distinct(y)
         /\ x.block[x.blocks] \in Own(x)
<1>1. x.blocks \in Nat /\ x.blocks \in 1 .. x.blocks
  BY Sizes DEF Ind
<1>2. \A n : n \in 1 .. y.blocks <=> n \in 1 .. x.blocks /\ n # x.blocks
  BY <1>1
<1> QED
  BY <1>1, <1>2 DEF Own, Distinct

\* An inode gives a block back.
LEMMA BooksGive ==
  ASSUME NEW bm, NEW im, NEW x, NEW y, NEW i \in im, NEW b \in Own(x[i]),
         Books(bm, im, x), \A j \in im \ {i} : SameList(x[j], y[j]),
         Own(y[i]) = Own(x[i]) \ {b}, Distinct(y[i])
  PROVE  Books(bm \ {b}, im, y)
<1>1. \A j \in im \ {i} : Own(x[j]) = Own(y[j]) /\ Distinct(y[j])
  BY SameOwn DEF Books
<1>2. \A j \in im \ {i} : b \notin Own(x[j])
  BY DEF Books
<1> QED
  BY <1>1, <1>2 DEF Books

(***************************************************************************)
(* The calls.                                                              *)
(***************************************************************************)
\* e with the inodes x and the blocks' contents c.
With(e, x, c) ==
  [blockmap |-> e.blockmap, inodemap |-> e.inodemap, free_blocks |-> e.free_blocks,
   free_inodes |-> e.free_inodes, last_block |-> e.last_block,
   last_inode |-> e.last_inode, ind |-> x, blk |-> c, wild |-> e.wild]

\* It is a disk, and the rest of it is that of e.
LEMMA DiskWithInd ==
  ASSUME NEW e \in Disk, NEW x \in [Inodes -> Ind], NEW c \in [Blocks -> Blk]
  PROVE  LET f == With(e, x, c) IN
         /\ f \in Disk /\ f.ind = x /\ f.blk = c
         /\ f.blockmap = e.blockmap /\ f.free_blocks = e.free_blocks
         /\ f.last_block = e.last_block /\ f.inodemap = e.inodemap
         /\ f.free_inodes = e.free_inodes /\ f.last_inode = e.last_inode
         /\ f.wild = e.wild
BY DEF Disk, With

\* What a block of entries is to a reader of texts, and the reverse.
LEMMA EmptyBuffers == NoDir \in DirBuf /\ TextDir \in DirBuf /\ NoData \in DataBuf
<1>1. NoEntry \in Entry
  BY DEF NoEntry, Entry, Str
<1>2. Stray \in Str
  BY DEF Str
<1>3. NoDir \in DirBuf /\ NoData \in DataBuf
  BY <1>1, <1>2 DEF NoDir, DirBuf, NoData, DataBuf
<1>4. [NoEntry EXCEPT !.inode = 1] \in Entry
  BY <1>1, DiskRoom, Sizes DEF Entry, Inodes
<1>5. \A j \in 1 .. DirAmut : NoDir[j] = NoEntry
  BY DEF NoDir
<1>6. TextDir \in DirBuf
  BY <1>3, <1>4, <1>5 DEF TextDir, DirBuf
<1> QED
  BY <1>3, <1>6

\* A directory's entries are written to a block.
LEMMA WrDir ==
  ASSUME NEW e \in Disk, NEW b \in Blocks, NEW dir \in DirBuf
  PROVE  LET f == wr_dir(e, b, dir) IN
         /\ f \in Disk /\ f.ind = e.ind
         /\ f.blk = [e.blk EXCEPT ![b] = [dir |-> dir, data |-> NoData]]
         /\ f.blockmap = e.blockmap /\ f.free_blocks = e.free_blocks
         /\ f.inodemap = e.inodemap /\ f.free_inodes = e.free_inodes
         /\ f.wild = e.wild
<1> DEFINE c == [e.blk EXCEPT ![b] = [dir |-> dir, data |-> NoData]]
<1>1. [dir |-> dir, data |-> NoData] \in Blk
  BY EmptyBuffers DEF Blk
<1>2. e.ind \in [Inodes -> Ind] /\ c \in [Blocks -> Blk]
  BY <1>1, DiskFields
<1> DEFINE f == wr_dir(e, b, dir)
<1>3. f = With(e, e.ind, c)
  BY DEF wr_dir, Disk, With
<1> HIDE DEF c, f
<1>4. /\ f \in Disk /\ f.ind = e.ind /\ f.blk = c
      /\ f.blockmap = e.blockmap /\ f.free_blocks = e.free_blocks
      /\ f.inodemap = e.inodemap /\ f.free_inodes = e.free_inodes
      /\ f.wild = e.wild
  BY <1>2, <1>3, DiskWithInd
<1> QED
  BY <1>3, <1>4 DEF c, f

\* A file's cells are written to a block.
LEMMA WrData ==
  ASSUME NEW e \in Disk, NEW b \in Blocks, NEW data \in DataBuf
  PROVE  LET f == wr_data(e, b, data) IN
         /\ f \in Disk /\ f.ind = e.ind
         /\ f.blk = [e.blk EXCEPT ![b] = [dir |-> TextDir, data |-> data]]
         /\ f.blockmap = e.blockmap /\ f.free_blocks = e.free_blocks
         /\ f.inodemap = e.inodemap /\ f.free_inodes = e.free_inodes
         /\ f.wild = e.wild
<1> DEFINE c == [e.blk EXCEPT ![b] = [dir |-> TextDir, data |-> data]]
<1>1. [dir |-> TextDir, data |-> data] \in Blk
  BY EmptyBuffers DEF Blk
<1>2. e.ind \in [Inodes -> Ind] /\ c \in [Blocks -> Blk]
  BY <1>1, DiskFields
<1> DEFINE f == wr_data(e, b, data)
<1>3. f = With(e, e.ind, c)
  BY DEF wr_data, Disk, With
<1> HIDE DEF c, f
<1>4. /\ f \in Disk /\ f.ind = e.ind /\ f.blk = c
      /\ f.blockmap = e.blockmap /\ f.free_blocks = e.free_blocks
      /\ f.inodemap = e.inodemap /\ f.free_inodes = e.free_inodes
      /\ f.wild = e.wild
  BY <1>2, <1>3, DiskWithInd
<1> QED
  BY <1>3, <1>4 DEF c, f

\* f is e but for inode k.
SameBut(e, f, k) ==
  /\ f.blockmap = e.blockmap /\ f.free_blocks = e.free_blocks
  /\ f.inodemap = e.inodemap /\ f.free_inodes = e.free_inodes
  /\ f.blk = e.blk /\ f.wild = e.wild
  /\ \A i \in Inodes \ {k} : f.ind[i] = e.ind[i]

\* Two changes of one inode are one.
LEMMA SameButTwice ==
  ASSUME NEW e, NEW f, NEW g, NEW k, SameBut(e, f, k), SameBut(f, g, k)
  PROVE  SameBut(e, g, k)
BY DEF SameBut

\* An inode written anew.
LEMMA SetInd ==
  ASSUME NEW e \in Disk, NEW k \in Inodes, NEW x \in Ind
  PROVE  LET f == [e EXCEPT !.ind[k] = x] IN
         f \in Disk /\ f.ind[k] = x /\ SameBut(e, f, k)
<1> DEFINE y == [e.ind EXCEPT ![k] = x]
           f == [e EXCEPT !.ind[k] = x]
<1>1. y \in [Inodes -> Ind] /\ e.blk \in [Blocks -> Blk] /\ y[k] = x
      /\ \A i \in Inodes \ {k} : y[i] = e.ind[i]
  BY DiskFields
<1>2. f = With(e, y, e.blk)
  BY DEF Disk, With
<1> HIDE DEF y, f
<1>3. /\ f \in Disk /\ f.ind = y /\ f.blk = e.blk
      /\ f.blockmap = e.blockmap /\ f.free_blocks = e.free_blocks
      /\ f.inodemap = e.inodemap /\ f.free_inodes = e.free_inodes
      /\ f.wild = e.wild
  BY <1>1, <1>2, DiskWithInd
<1>4. SameBut(e, f, k)
  BY <1>1, <1>3 DEF SameBut
<1> QED
  BY <1>1, <1>3, <1>4 DEF f

\* An inode's size.
LEMMA SetSize ==
  ASSUME NEW e \in Disk, NEW k \in Inodes, NEW s \in Int
  PROVE  LET f == [e EXCEPT !.ind[k].size = s] IN
         /\ f \in Disk /\ SameBut(e, f, k)
         /\ f.ind[k].size = s /\ f.ind[k].mode = e.ind[k].mode
         /\ f.ind[k].blocks = e.ind[k].blocks /\ f.ind[k].block = e.ind[k].block
<1> DEFINE f == [e EXCEPT !.ind[k].size = s]
           x == [e.ind[k] EXCEPT !.size = s]
<1>1. e.ind[k] \in Ind
  BY DiskFields
<1>2. /\ x \in Ind
      /\ x.size = s /\ x.mode = e.ind[k].mode
      /\ x.blocks = e.ind[k].blocks /\ x.block = e.ind[k].block
  BY <1>1 DEF Ind
<1>3. f = [e EXCEPT !.ind[k] = x]
  BY DEF Disk
<1> HIDE DEF x, f
<1>4. f \in Disk /\ f.ind[k] = x /\ SameBut(e, f, k)
  BY <1>2, <1>3, SetInd
<1> QED
  BY <1>2, <1>4 DEF f

\* The length of its list.
LEMMA SetBlocks ==
  ASSUME NEW e \in Disk, NEW k \in Inodes, NEW n \in 0 .. NIndBlocks
  PROVE  LET f == [e EXCEPT !.ind[k].blocks = n] IN
         /\ f \in Disk /\ SameBut(e, f, k)
         /\ f.ind[k].blocks = n /\ f.ind[k].mode = e.ind[k].mode
         /\ f.ind[k].size = e.ind[k].size /\ f.ind[k].block = e.ind[k].block
<1> DEFINE f == [e EXCEPT !.ind[k].blocks = n]
           x == [e.ind[k] EXCEPT !.blocks = n]
<1>1. e.ind[k] \in Ind
  BY DiskFields
<1>2. /\ x \in Ind
      /\ x.blocks = n /\ x.mode = e.ind[k].mode
      /\ x.size = e.ind[k].size /\ x.block = e.ind[k].block
  BY <1>1 DEF Ind
<1>3. f = [e EXCEPT !.ind[k] = x]
  BY DEF Disk
<1> HIDE DEF x, f
<1>4. f \in Disk /\ f.ind[k] = x /\ SameBut(e, f, k)
  BY <1>2, <1>3, SetInd
<1> QED
  BY <1>2, <1>4 DEF f

\* Its mode.
LEMMA SetMode ==
  ASSUME NEW e \in Disk, NEW k \in Inodes, NEW m \in Kinds
  PROVE  LET f == [e EXCEPT !.ind[k].mode = m] IN
         /\ f \in Disk /\ SameBut(e, f, k)
         /\ f.ind[k].mode = m /\ f.ind[k].size = e.ind[k].size
         /\ f.ind[k].blocks = e.ind[k].blocks /\ f.ind[k].block = e.ind[k].block
<1> DEFINE f == [e EXCEPT !.ind[k].mode = m]
           x == [e.ind[k] EXCEPT !.mode = m]
<1>1. e.ind[k] \in Ind
  BY DiskFields
<1>2. /\ x \in Ind
      /\ x.mode = m /\ x.size = e.ind[k].size
      /\ x.blocks = e.ind[k].blocks /\ x.block = e.ind[k].block
  BY <1>1 DEF Ind
<1>3. f = [e EXCEPT !.ind[k] = x]
  BY DEF Disk
<1> HIDE DEF x, f
<1>4. f \in Disk /\ f.ind[k] = x /\ SameBut(e, f, k)
  BY <1>2, <1>3, SetInd
<1> QED
  BY <1>2, <1>4 DEF f

\* A block of its list.
PutBlock(e, k, n, b) == [e EXCEPT !.ind[k].block[n] = b]

\* Only that changes.
LEMMA SetBlock ==
  ASSUME NEW e \in Disk, NEW k \in Inodes, NEW n \in 1 .. NIndBlocks, NEW b \in Blocks
  PROVE  LET f == PutBlock(e, k, n, b)
             new == f.ind[k]
             old == e.ind[k]
         IN /\ f \in Disk /\ SameBut(e, f, k)
            /\ new.mode = old.mode /\ new.size = old.size /\ new.blocks = old.blocks
            /\ new.block[n] = b
            /\ \A i \in 1 .. NIndBlocks : i # n => new.block[i] = old.block[i]
<1> DEFINE f == PutBlock(e, k, n, b)
           x == [e.ind[k] EXCEPT !.block[n] = b]
<1>1. e.ind[k] \in Ind
  BY DiskFields
<1>2. /\ x \in Ind /\ x.mode = e.ind[k].mode /\ x.size = e.ind[k].size
      /\ x.blocks = e.ind[k].blocks
      /\ x.block[n] = b
      /\ \A i \in 1 .. NIndBlocks : i # n => x.block[i] = e.ind[k].block[i]
  BY <1>1 DEF Ind
<1>3. f = [e EXCEPT !.ind[k] = x]
  BY DEF Disk, PutBlock
<1> HIDE DEF x, f
<1>4. f \in Disk /\ f.ind[k] = x /\ SameBut(e, f, k)
  BY <1>2, <1>3, SetInd
<1> QED
  BY <1>2, <1>4 DEF f

\* What ext2_ind_prepare makes of an inode k.
Prepared(g, f, k, mode) ==
  /\ DiskInv(f) /\ f.inodemap = g.inodemap /\ f.ind[k].mode = mode
  /\ \A i \in Inodes \ {k} : f.ind[i] = g.ind[i]
  /\ \A b \in g.blockmap : f.blk[b] = g.blk[b]
  /\ mode = FileMode => f.ind[k].size = 0 /\ f.ind[k].blocks = 0 /\ SameBut(g, f, k)

\* ext2_ind_prepare of an inode k that is in use and has nothing yet: its list in
\* the inode table is that of its last owner, x is what the books have of it
\* (ext2fs.c:186-209).
LEMMA Prepare ==
  ASSUME NEW g \in Disk, Counted(g), ~ g.wild, NEW k \in g.inodemap, NEW par \in Inodes,
         NEW mode \in {DirMode, FileMode}, NEW dir \in DirBuf,
         NEW x, Books(g.blockmap, g.inodemap, x),
         x[k].blocks = 0, \A i \in g.inodemap \ {k} : SameList(x[i], g.ind[i]),
         ~ ext2_ind_prepare(g, k, par, mode, dir).wild
  PROVE  Prepared(g, ext2_ind_prepare(g, k, par, mode, dir), k, mode)
<1> DEFINE f == ext2_ind_prepare(g, k, par, mode, dir)
<1>0. /\ g.ind \in [Inodes -> Ind] /\ g.inodemap \in SUBSET Inodes /\ k \in Inodes
      /\ g.blk \in [Blocks -> Blk]
  BY DiskFields
<1>1. 0 \in Int /\ 2 \in Int /\ 0 \in 0 .. NIndBlocks /\ 1 \in 0 .. NIndBlocks
      /\ 1 \in 1 .. NIndBlocks /\ DirMode \in Kinds /\ FileMode \in Kinds
      /\ DirMode # FileMode
  BY Sizes DEF Kinds, DirMode, FileMode
<1>2. CASE mode = FileMode
  <2> DEFINE e1 == [g EXCEPT !.ind[k].size = 0]
             e2 == [e1 EXCEPT !.ind[k].blocks = 0]
             e3 == [e2 EXCEPT !.ind[k].mode = mode]
  <2>1. f = e3
    BY <1>2 DEF ext2_ind_prepare, FileMode
  <2>2. e1 \in Disk /\ SameBut(g, e1, k) /\ e1.ind[k].size = 0
    BY <1>0, <1>1, SetSize
  <2> HIDE DEF e1
  <2>3. e2 \in Disk /\ SameBut(e1, e2, k) /\ e2.ind[k].blocks = 0 /\ e2.ind[k].size = 0
    <3>1. e1 \in Disk /\ k \in Inodes /\ 0 \in 0 .. NIndBlocks
      BY <1>0, <1>1, <2>2
    <3>2. e2 \in Disk /\ SameBut(e1, e2, k) /\ e2.ind[k].blocks = 0
          /\ e2.ind[k].size = e1.ind[k].size
      BY <3>1, SetBlocks
    <3> HIDE DEF e2
    <3> QED
      BY <2>2, <3>2
  <2> HIDE DEF e2
  <2>4. /\ e3 \in Disk /\ SameBut(e2, e3, k) /\ e3.ind[k].mode = mode
        /\ e3.ind[k].size = 0 /\ e3.ind[k].blocks = 0
    <3>1. mode \in Kinds
      BY <1>1, <1>2
    <3>2. /\ e3 \in Disk /\ SameBut(e2, e3, k) /\ e3.ind[k].mode = mode
          /\ e3.ind[k].size = e2.ind[k].size /\ e3.ind[k].blocks = e2.ind[k].blocks
      BY <1>0, <2>3, <3>1, SetMode
    <3> QED
      BY <2>3, <3>2
  <2> HIDE DEF e3, f
  <2>5. SameBut(g, f, k)
    BY <2>1, <2>2, <2>3, <2>4, SameButTwice
  <2>6. Books(g.blockmap, g.inodemap, f.ind)
    <3>1. \A i \in g.inodemap : SameList(x[i], f.ind[i])
      BY <1>0, <2>1, <2>4, <2>5 DEF SameList, SameBut
    <3> QED
      BY <3>1, BooksSame
  <2>7. DiskInv(f)
    BY <2>1, <2>4, <2>5, <2>6 DEF DiskInv, Counted, Owned, SameBut
  <2>8. /\ f.inodemap = g.inodemap /\ f.ind[k].mode = mode /\ f.blk = g.blk
        /\ \A i \in Inodes \ {k} : f.ind[i] = g.ind[i]
        /\ f.ind[k].size = 0 /\ f.ind[k].blocks = 0
    BY <2>1, <2>4, <2>5 DEF SameBut
  <2> QED
    BY <2>5, <2>7, <2>8 DEF f, Prepared
<1>3. CASE mode = DirMode
  <2> DEFINE a == ext2_alloc_block(g)
             new == [j \in 1 .. DirAmut |->
                      IF j = 1 THEN [name |-> ".", inode |-> k, mode |-> DirMode]
                      ELSE IF j = 2 THEN [name |-> "..", inode |-> par, mode |-> DirMode]
                      ELSE [dir[j] EXCEPT !.inode = 0]]
             h == wr_dir(a.e, a.n, new)
             e1 == [h EXCEPT !.ind[k].size = 2]
             e2 == [e1 EXCEPT !.ind[k].blocks = 1]
             e3 == PutBlock(e2, k, 1, a.n)
             e4 == [e3 EXCEPT !.ind[k].mode = mode]
  <2>1. f = IF a.n = None THEN Wild(g) ELSE e4
    BY <1>3 DEF ext2_ind_prepare, DirMode, PutBlock
  <2>2. a.n # None
    <3>1. Wild(g).wild = TRUE
      BY DEF Wild, Disk
    <3> QED
      BY <2>1, <3>1
  <2>3. /\ a.n \in Blocks \ g.blockmap /\ a.e \in Disk /\ Counted(a.e)
        /\ a.e.blockmap = g.blockmap \cup {a.n} /\ a.e.inodemap = g.inodemap
        /\ a.e.ind = g.ind /\ a.e.blk = g.blk /\ a.e.wild = g.wild
    <3>1. /\ a.n \in Blocks \ g.blockmap /\ a.e \in Disk /\ Counted(a.e)
          /\ a.e = [g EXCEPT !.blockmap = @ \cup {a.n}, !.last_block = a.n,
                            !.free_blocks = @ - 1]
      BY <2>2, AllocBlock
    <3> HIDE DEF a
    <3> QED
      BY <3>1 DEF Disk
  <2>4. new \in DirBuf
    <3>1. \A j \in 1 .. DirAmut : dir[j] \in Entry /\ [dir[j] EXCEPT !.inode = 0] \in Entry
      BY DEF DirBuf, Entry
    <3>2. [name |-> ".", inode |-> k, mode |-> DirMode] \in Entry
          /\ [name |-> "..", inode |-> par, mode |-> DirMode] \in Entry
      BY <1>0 DEF Entry, DirMode, Str, Modes
    <3> QED
      BY <3>1, <3>2 DEF DirBuf
  <2> HIDE DEF a, new
  <2>5. /\ h \in Disk /\ h.ind = g.ind
        /\ h.blk = [g.blk EXCEPT ![a.n] = [dir |-> new, data |-> NoData]]
        /\ h.blockmap = g.blockmap \cup {a.n} /\ h.inodemap = g.inodemap
        /\ Counted(h) /\ h.wild = g.wild
    <3>1. /\ h \in Disk /\ h.ind = a.e.ind
          /\ h.blk = [a.e.blk EXCEPT ![a.n] = [dir |-> new, data |-> NoData]]
          /\ h.blockmap = a.e.blockmap /\ h.free_blocks = a.e.free_blocks
          /\ h.inodemap = a.e.inodemap /\ h.free_inodes = a.e.free_inodes
          /\ h.wild = a.e.wild
      BY <2>3, <2>4, WrDir
    <3> HIDE DEF h
    <3> QED
      BY <2>3, <3>1 DEF Counted
  <2> HIDE DEF h
  <2>6. e1 \in Disk /\ SameBut(h, e1, k)
    BY <1>0, <1>1, <2>5, SetSize
  <2> HIDE DEF e1
  <2>7. e2 \in Disk /\ SameBut(e1, e2, k) /\ e2.ind[k].blocks = 1
    BY <1>0, <1>1, <2>6, SetBlocks
  <2> HIDE DEF e2
  <2>8. e3 \in Disk /\ SameBut(e2, e3, k) /\ e3.ind[k].blocks = 1 /\ e3.ind[k].block[1] = a.n
    <3>1. a.n \in Blocks
      BY <2>3
    <3> QED
      BY <1>0, <1>1, <2>7, <3>1, SetBlock
  <2> HIDE DEF e3
  <2>9. /\ e4 \in Disk /\ SameBut(e3, e4, k) /\ e4.ind[k].mode = mode
        /\ e4.ind[k].blocks = 1 /\ e4.ind[k].block[1] = a.n
    BY <1>0, <1>1, <1>3, <2>8, SetMode
  <2> HIDE DEF e4, f
  <2>10. f = e4 /\ SameBut(h, f, k)
    BY <2>1, <2>2, <2>6, <2>7, <2>8, <2>9, SameButTwice
  <2>11. Books(g.blockmap \cup {a.n}, g.inodemap, f.ind)
    <3>1. \A i \in g.inodemap \ {k} : SameList(x[i], f.ind[i])
      BY <1>0, <2>5, <2>10 DEF SameList, SameBut
    <3>2. Own(x[k]) = {}
      BY DEF Own
    <3>3. Own(f.ind[k]) = {a.n} /\ Distinct(f.ind[k])
      BY <2>9, <2>10 DEF Own, Distinct
    <3>4. Own(f.ind[k]) = Own(x[k]) \cup {a.n}
      BY <3>2, <3>3
    <3> QED
      BY <2>3, <3>1, <3>3, <3>4, BooksTake
  <2>12. DiskInv(f)
    BY <2>5, <2>9, <2>10, <2>11 DEF DiskInv, Counted, Owned, SameBut
  <2>13. \A b \in g.blockmap : f.blk[b] = g.blk[b]
    BY <1>0, <2>3, <2>5, <2>10 DEF SameBut
  <2>14. /\ f.inodemap = g.inodemap /\ f.ind[k].mode = mode
         /\ \A i \in Inodes \ {k} : f.ind[i] = g.ind[i]
    BY <2>5, <2>9, <2>10 DEF SameBut
  <2> QED
    BY <1>1, <1>3, <2>12, <2>13, <2>14 DEF f, Prepared
<1> QED
  BY <1>2, <1>3

\* The first of some places is one of them.
LEMMA FirstPlaceIn ==
  ASSUME NEW S, S \subseteq Nat \X Nat, S # {}
  PROVE  FirstPlace(S) \in S
<1> DEFINE T == {p[1] : p \in S}
<1>1. T \in SUBSET Nat /\ T # {}
  OBVIOUS
<1>2. PICK x \in T : \A k \in T : x <= k
  <2> HIDE DEF T
  <2> QED
    BY <1>1, LeastNatural
<1> DEFINE U == {p[2] : p \in {q \in S : q[1] = x}}
<1>3. U \in SUBSET Nat /\ U # {}
  BY <1>2
<1>4. PICK y \in U : \A k \in U : y <= k
  <2> HIDE DEF U
  <2> QED
    BY <1>3, LeastNatural
<1>5. PICK p \in S : p[1] = x /\ p[2] = y
  BY <1>4
<1>6. \A q \in S : p[1] < q[1] \/ (p[1] = q[1] /\ p[2] <= q[2])
  <2> SUFFICES ASSUME NEW q \in S
               PROVE  p[1] < q[1] \/ (p[1] = q[1] /\ p[2] <= q[2])
    OBVIOUS
  <2>1. q[1] \in T /\ x <= q[1] /\ q[1] \in Nat /\ q[2] \in Nat
    BY <1>2
  <2>2. q[1] = x => q[2] \in U /\ y <= q[2]
    BY <1>4
  <2> QED
    BY <1>1, <1>2, <1>5, <2>1, <2>2
<1> QED
  BY <1>5, <1>6 DEF FirstPlace

\* The places of a directory.
LEMMA PlacesOf ==
  ASSUME NEW e \in Disk, NEW i \in Inodes
  PROVE  /\ Places(e.ind[i]) \subseteq Nat \X Nat
         /\ \A p \in Places(e.ind[i]) :
              /\ p[1] \in 1 .. e.ind[i].blocks /\ p[2] \in 1 .. DirAmut
              /\ e.ind[i].block[p[1]] \in Own(e.ind[i]) \cap Blocks
              /\ EntryAt(e, e.ind[i], p) \in Entry
<1>1. e.ind[i] \in Ind /\ e.blk \in [Blocks -> Blk]
  BY DiskFields
<1>2. e.ind[i].blocks \in 0 .. NIndBlocks /\ NIndBlocks \in Nat /\ DirAmut \in Nat
      /\ e.ind[i].block \in [1 .. NIndBlocks -> Blocks]
  BY <1>1, Sizes DEF Ind
<1>3. Places(e.ind[i]) \subseteq Nat \X Nat
  BY <1>2 DEF Places
<1> SUFFICES ASSUME NEW p \in Places(e.ind[i])
             PROVE  /\ p[1] \in 1 .. e.ind[i].blocks /\ p[2] \in 1 .. DirAmut
                    /\ e.ind[i].block[p[1]] \in Own(e.ind[i]) \cap Blocks
                    /\ EntryAt(e, e.ind[i], p) \in Entry
  BY <1>3
<1>4. p[1] \in 1 .. e.ind[i].blocks /\ p[2] \in 1 .. DirAmut
  BY DEF Places
<1>5. p[1] \in 1 .. NIndBlocks
  BY <1>2, <1>4
<1>6. e.ind[i].block[p[1]] \in Own(e.ind[i]) \cap Blocks
  BY <1>2, <1>4, <1>5 DEF Own
<1>7. e.blk[e.ind[i].block[p[1]]].dir \in DirBuf
  BY <1>1, <1>6 DEF Blk
<1> QED
  BY <1>4, <1>6, <1>7 DEF EntryAt, DirBuf

\* What ext2_create leaves of the rest of the disk.
Created(e, f, ridx, k, mode) ==
  /\ k \in Inodes \ e.inodemap /\ f.inodemap = e.inodemap \cup {k}
  /\ f.ind[k].mode = mode /\ f.ind[ridx].mode = e.ind[ridx].mode
  /\ \A i \in Inodes \ {k, ridx} : f.ind[i] = e.ind[i]
  /\ \A b \in e.blockmap \ Own(e.ind[ridx]) : f.blk[b] = e.blk[b]
  /\ mode = FileMode => f.ind[k].size = 0 /\ f.ind[k].blocks = 0

\* The disk g before the new inode k is prepared: only the directory ridx of e has
\* changed, and the books do not have k yet.
Readied(e, g, ridx, k) ==
  /\ g \in Disk /\ Counted(g) /\ ~ g.wild
  /\ k \in Inodes \ e.inodemap /\ g.inodemap = e.inodemap \cup {k}
  /\ Books(g.blockmap, e.inodemap, g.ind) /\ e.blockmap \subseteq g.blockmap
  /\ g.ind[ridx].mode = e.ind[ridx].mode
  /\ \A i \in Inodes \ {ridx} : g.ind[i] = e.ind[i]
  /\ \A b \in e.blockmap \ Own(e.ind[ridx]) : g.blk[b] = e.blk[b]

\* Preparing it completes the call.
LEMMA CreatePrepare ==
  ASSUME NEW e, DiskInv(e), NEW ridx \in e.inodemap, NEW k, NEW g, Readied(e, g, ridx, k),
         NEW mode \in {DirMode, FileMode}, NEW dir \in DirBuf,
         ~ ext2_ind_prepare(g, k, ridx, mode, dir).wild
  PROVE  LET f == ext2_ind_prepare(g, k, ridx, mode, dir) IN
         DiskInv(f) /\ Created(e, f, ridx, k, mode) /\ Prepared(g, f, k, mode)
<1> DEFINE f == ext2_ind_prepare(g, k, ridx, mode, dir)
           x == [i \in Inodes |-> IF i = k THEN NoInd ELSE g.ind[i]]
<1>0. /\ g \in Disk /\ Counted(g) /\ ~ g.wild
      /\ k \in Inodes \ e.inodemap /\ g.inodemap = e.inodemap \cup {k}
      /\ Books(g.blockmap, e.inodemap, g.ind) /\ e.blockmap \subseteq g.blockmap
      /\ g.ind[ridx].mode = e.ind[ridx].mode
      /\ \A i \in Inodes \ {ridx} : g.ind[i] = e.ind[i]
      /\ \A b \in e.blockmap \ Own(e.ind[ridx]) : g.blk[b] = e.blk[b]
  BY DEF Readied
<1>1. e.inodemap \in SUBSET Inodes /\ k \in Inodes /\ ridx \in Inodes /\ k # ridx
      /\ k \in g.inodemap
  BY <1>0, DiskFields DEF DiskInv
<1>2. x[k].blocks = 0 /\ \A i \in Inodes \ {k} : x[i] = g.ind[i]
  BY <1>1 DEF NoInd
<1> HIDE DEF x
<1>3. \A i \in e.inodemap : SameList(g.ind[i], x[i])
  BY <1>0, <1>1, <1>2 DEF SameList
<1>4. Books(g.blockmap, g.inodemap, x)
  <2>1. Books(g.blockmap, e.inodemap \cup {k}, x)
    BY <1>0, <1>2, <1>3, BooksNew
  <2> QED
    BY <1>0, <2>1
<1>5. \A i \in g.inodemap \ {k} : SameList(x[i], g.ind[i])
  BY <1>0, <1>1, <1>2 DEF SameList
<1>6. Prepared(g, f, k, mode)
  BY <1>0, <1>1, <1>2, <1>4, <1>5, Prepare
<1> HIDE DEF f
<1>7. Created(e, f, ridx, k, mode)
  BY <1>0, <1>1, <1>6 DEF Created, Prepared
<1> QED
  BY <1>6, <1>7 DEF f, Prepared

\* The inode that ext2_create takes, from a disk h in which the directory may have
\* a new block.
LEMMA CreateInode ==
  ASSUME NEW h \in Disk, Counted(h), ext2_alloc_inode(h).n # None
  PROVE  LET a == ext2_alloc_inode(h) IN
         /\ a.n \in Inodes \ h.inodemap /\ a.e \in Disk /\ Counted(a.e)
         /\ a.e.inodemap = h.inodemap \cup {a.n} /\ a.e.free_inodes = h.free_inodes - 1
         /\ a.e.blockmap = h.blockmap /\ a.e.free_blocks = h.free_blocks
         /\ a.e.ind = h.ind /\ a.e.blk = h.blk /\ a.e.wild = h.wild
<1> DEFINE a == ext2_alloc_inode(h)
<1>1. /\ a.n \in Inodes \ h.inodemap /\ a.e \in Disk /\ Counted(a.e)
      /\ a.e = [h EXCEPT !.inodemap = @ \cup {a.n}, !.last_inode = a.n,
                         !.free_inodes = @ - 1]
  BY AllocInode
<1> HIDE DEF a
<1>2. /\ a.e.inodemap = h.inodemap \cup {a.n} /\ a.e.free_inodes = h.free_inodes - 1
      /\ a.e.blockmap = h.blockmap /\ a.e.free_blocks = h.free_blocks
      /\ a.e.ind = h.ind /\ a.e.blk = h.blk /\ a.e.wild = h.wild
  BY <1>1 DEF Disk
<1> QED
  BY <1>1, <1>2 DEF a

\* The same for a block.
LEMMA TakeBlock ==
  ASSUME NEW h \in Disk, Counted(h), ext2_alloc_block(h).n # None
  PROVE  LET a == ext2_alloc_block(h) IN
         /\ a.n \in Blocks \ h.blockmap /\ a.e \in Disk /\ Counted(a.e)
         /\ a.e.blockmap = h.blockmap \cup {a.n} /\ a.e.free_blocks = h.free_blocks - 1
         /\ a.e.inodemap = h.inodemap /\ a.e.free_inodes = h.free_inodes
         /\ a.e.ind = h.ind /\ a.e.blk = h.blk /\ a.e.wild = h.wild
<1> DEFINE a == ext2_alloc_block(h)
<1>1. /\ a.n \in Blocks \ h.blockmap /\ a.e \in Disk /\ Counted(a.e)
      /\ a.e = [h EXCEPT !.blockmap = @ \cup {a.n}, !.last_block = a.n,
                         !.free_blocks = @ - 1]
  BY AllocBlock
<1> HIDE DEF a
<1>2. /\ a.e.blockmap = h.blockmap \cup {a.n} /\ a.e.free_blocks = h.free_blocks - 1
      /\ a.e.inodemap = h.inodemap /\ a.e.free_inodes = h.free_inodes
      /\ a.e.ind = h.ind /\ a.e.blk = h.blk /\ a.e.wild = h.wild
  BY <1>1 DEF Disk
<1> QED
  BY <1>1, <1>2 DEF a

\* A call that fails sets wild.
LEMMA WildIs == ASSUME NEW e \in Disk PROVE Wild(e).wild
BY DEF Wild, Disk

\* The entry that ext2_create makes.
Ent(k, name, mode) == [name |-> name, inode |-> k, mode |-> mode]

\* ext2_create puts it somewhere or fails (ext2fs.c:369-403).
LEMMA CreateCases ==
  ASSUME NEW e \in Disk, NEW ridx \in Inodes, NEW name, NEW mode,
         ~ ext2_create(e, ridx, name, mode).e.wild
  PROVE  LET ind == e.ind[ridx]
             c == ext2_create(e, ridx, name, mode)
             b == ext2_alloc_block(e)
             g == ext2_alloc_inode(b.e)
             a == ext2_alloc_inode(e)
             free == FreePlaces(e, ind)
         IN /\ MustGrow(ind) =>
                 /\ b.n # None /\ g.n # None /\ ind.blocks # NIndBlocks /\ c.n = g.n
                 /\ c.e = PutInNew(g.e, ridx, b.n, Ent(g.n, name, mode))
            /\ ~ MustGrow(ind) =>
                 /\ a.n # None /\ free # {} /\ c.n = a.n
                 /\ c.e = PutAt(a.e, ridx, FirstPlace(free), Ent(a.n, name, mode))
<1>1. Wild(e).wild
  BY WildIs
<1> QED
  BY <1>1 DEF ext2_create, Ent

\* The new block of a directory.
LEMMA CreateGrow ==
  ASSUME NEW e, DiskInv(e), NEW ridx \in e.inodemap, NEW name \in Str,
         NEW mode \in {DirMode, FileMode}, MustGrow(e.ind[ridx]),
         ~ ext2_create(e, ridx, name, mode).e.wild
  PROVE  LET c == ext2_create(e, ridx, name, mode) IN
         DiskInv(c.e) /\ Created(e, c.e, ridx, c.n, mode)
<1> DEFINE c == ext2_create(e, ridx, name, mode)
           b == ext2_alloc_block(e)
           a == ext2_alloc_inode(b.e)
           ent == Ent(a.n, name, mode)
           n == a.e.ind[ridx].blocks + 1
           dir == [j \in 1 .. DirAmut |->
                     IF j = 1 THEN ent ELSE [a.e.blk[b.n].dir[j] EXCEPT !.inode = 0]]
           h == wr_dir(a.e, b.n, dir)
           h1 == PutBlock(h, ridx, n, b.n)
           h2 == [h1 EXCEPT !.ind[ridx].blocks = n]
           s == h2.ind[ridx].size + 1
           g == [h2 EXCEPT !.ind[ridx].size = s]
<1>1. /\ e \in Disk /\ Counted(e) /\ e.inodemap \in SUBSET Inodes /\ ridx \in Inodes
      /\ Books(e.blockmap, e.inodemap, e.ind) /\ ~ e.wild
      /\ e.ind \in [Inodes -> Ind] /\ e.ind[ridx] \in Ind
  BY DiskFields DEF DiskInv, Owned
<1>2. /\ b.n # None /\ a.n # None /\ e.ind[ridx].blocks # NIndBlocks /\ c.n = a.n
      /\ c.e = PutInNew(a.e, ridx, b.n, ent)
  BY <1>1, CreateCases
<1>3. /\ b.n \in Blocks \ e.blockmap /\ b.e \in Disk /\ Counted(b.e)
      /\ b.e.blockmap = e.blockmap \cup {b.n} /\ b.e.inodemap = e.inodemap
      /\ b.e.ind = e.ind /\ b.e.blk = e.blk /\ b.e.wild = e.wild
  BY <1>1, <1>2, TakeBlock
<1> HIDE DEF b
<1>4. /\ a.n \in Inodes \ e.inodemap /\ a.e \in Disk /\ Counted(a.e)
      /\ a.e.inodemap = e.inodemap \cup {a.n} /\ a.e.blockmap = e.blockmap \cup {b.n}
      /\ a.e.ind = e.ind /\ a.e.blk = e.blk /\ a.e.wild = e.wild
  BY <1>2, <1>3, CreateInode
<1> HIDE DEF a, c
<1>5. ent \in Entry /\ ent.inode = a.n /\ ent.mode = mode
  BY <1>4 DEF Ent, Entry, DirMode, FileMode, Modes
<1> HIDE DEF ent
<1>6. dir \in DirBuf
  <2>1. a.e.blk[b.n].dir \in DirBuf
    BY <1>3, <1>4, DiskFields DEF Blk
  <2>2. \A j \in 1 .. DirAmut : [a.e.blk[b.n].dir[j] EXCEPT !.inode = 0] \in Entry
    BY <2>1 DEF DirBuf, Entry
  <2> QED
    BY <1>5, <2>2 DEF DirBuf
<1>7. n \in 1 .. NIndBlocks /\ n \in 0 .. NIndBlocks /\ e.ind[ridx].blocks \in Nat
  BY <1>1, <1>2, <1>4, Sizes DEF Ind
<1>20. n = e.ind[ridx].blocks + 1
  BY <1>4
<1>8. c.e = ext2_ind_prepare(g, a.n, ridx, mode, dir)
  <2> DEFINE put == [h EXCEPT !.ind[ridx].block[n] = b.n,
                !.ind[ridx].blocks = n, !.ind[ridx].size = @ + 1]
  <2>1. c.e = ext2_ind_prepare(put, ent.inode, ridx, ent.mode, dir)
    BY <1>2 DEF PutInNew
  <2>2. put = g
    <3> HIDE DEF h, n
    <3> DEFINE k1 == [h EXCEPT !.ind[ridx].block[n] = b.n]
               k2 == [k1 EXCEPT !.ind[ridx].blocks = n]
    <3>1. put = [k2 EXCEPT !.ind[ridx].size = @ + 1]
      BY ZenonT(60)
    <3> HIDE DEF put
    <3>2. h1 = k1
      BY Zenon DEF PutBlock
    <3> HIDE DEF h1, k1
    <3>3. h2 = k2
      BY <3>2, Zenon
    <3> HIDE DEF h2, k2
    <3> QED
      BY <3>1, <3>3, Zenon
  <2> QED
    BY <1>5, <2>1, <2>2
<1> HIDE DEF dir, n
<1>9. /\ h \in Disk /\ h.ind = e.ind /\ h.wild = e.wild
      /\ h.blk = [e.blk EXCEPT ![b.n] = [dir |-> dir, data |-> NoData]]
      /\ h.inodemap = e.inodemap \cup {a.n} /\ h.blockmap = e.blockmap \cup {b.n}
      /\ Counted(h)
  <2>1. /\ h \in Disk /\ h.ind = a.e.ind
        /\ h.blk = [a.e.blk EXCEPT ![b.n] = [dir |-> dir, data |-> NoData]]
        /\ h.blockmap = a.e.blockmap /\ h.free_blocks = a.e.free_blocks
        /\ h.inodemap = a.e.inodemap /\ h.free_inodes = a.e.free_inodes
        /\ h.wild = a.e.wild
    <3>1. a.e \in Disk /\ b.n \in Blocks /\ dir \in DirBuf
      BY <1>3, <1>4, <1>6
    <3> QED
      BY <3>1, WrDir
  <2> HIDE DEF h
  <2> QED
    BY <1>4, <2>1 DEF Counted
<1> HIDE DEF h
<1>10. /\ h1 \in Disk /\ SameBut(h, h1, ridx) /\ h1.ind[ridx].mode = h.ind[ridx].mode
       /\ h1.ind[ridx].block[n] = b.n
       /\ \A i \in 1 .. NIndBlocks : i # n => h1.ind[ridx].block[i] = h.ind[ridx].block[i]
  <2>1. b.n \in Blocks
    BY <1>3
  <2> QED
    BY <1>1, <1>7, <1>9, <2>1, SetBlock
<1> HIDE DEF h1
<1>11. /\ h2 \in Disk /\ SameBut(h1, h2, ridx) /\ h2.ind[ridx].mode = h1.ind[ridx].mode
       /\ h2.ind[ridx].block = h1.ind[ridx].block /\ h2.ind[ridx].blocks = n
  <2> QED
    BY <1>1, <1>7, <1>10, SetBlocks
<1> HIDE DEF h2
<1>12. s \in Int
  BY <1>1, <1>11, DiskFields DEF Ind
<1> HIDE DEF s
<1>13. /\ g \in Disk /\ SameBut(h2, g, ridx) /\ g.ind[ridx].mode = h2.ind[ridx].mode
       /\ g.ind[ridx].block = h2.ind[ridx].block
       /\ g.ind[ridx].blocks = h2.ind[ridx].blocks
  BY <1>1, <1>11, <1>12, SetSize
<1> HIDE DEF g
<1>14. SameBut(h, g, ridx)
  BY <1>10, <1>11, <1>13, SameButTwice
<1>15. Books(e.blockmap \cup {b.n}, e.inodemap, g.ind)
  <2>1. \A i \in e.inodemap \ {ridx} : SameList(e.ind[i], g.ind[i])
    BY <1>1, <1>9, <1>14 DEF SameList, SameBut
  <2>2. /\ g.ind[ridx] \in Ind /\ g.ind[ridx].blocks = n /\ g.ind[ridx].block[n] = b.n
        /\ \A i \in 1 .. e.ind[ridx].blocks : g.ind[ridx].block[i] = e.ind[ridx].block[i]
    <3>1. \A i \in 1 .. e.ind[ridx].blocks : i \in 1 .. NIndBlocks /\ i # n
      BY <1>7, <1>20, Sizes
    <3>2. g.ind[ridx] \in Ind
      BY <1>1, <1>13, DiskFields
    <3> QED
      BY <1>9, <1>10, <1>11, <1>13, <3>1, <3>2
  <2>3. e.ind[ridx].blocks < NIndBlocks
    BY <1>7, <1>20, Sizes
  <2>4. Own(e.ind[ridx]) \subseteq e.blockmap /\ Distinct(e.ind[ridx])
    BY <1>1 DEF Books
  <2>5. Own(g.ind[ridx]) = Own(e.ind[ridx]) \cup {b.n} /\ Distinct(g.ind[ridx])
    BY <1>1, <1>3, <1>20, <2>2, <2>3, <2>4, OwnMore
  <2> QED
    BY <1>1, <1>3, <2>1, <2>5, BooksTake
<1>16. /\ Counted(g) /\ ~ g.wild /\ g.inodemap = e.inodemap \cup {a.n}
       /\ g.blockmap = e.blockmap \cup {b.n} /\ e.blockmap \subseteq g.blockmap
       /\ g.ind[ridx].mode = e.ind[ridx].mode
       /\ \A i \in Inodes \ {ridx} : g.ind[i] = e.ind[i]
  BY <1>1, <1>9, <1>10, <1>11, <1>13, <1>14 DEF SameBut, Counted
<1>17. \A i \in e.blockmap \ Own(e.ind[ridx]) : g.blk[i] = e.blk[i]
  <2>1. e.blockmap \in SUBSET Blocks /\ e.blk \in [Blocks -> Blk]
    BY <1>1, DiskFields
  <2> QED
    BY <1>3, <1>9, <1>14, <2>1 DEF SameBut
<1>18. Readied(e, g, ridx, a.n)
  BY <1>4, <1>13, <1>15, <1>16, <1>17 DEF Readied
<1>19. ~ ext2_ind_prepare(g, a.n, ridx, mode, dir).wild
  BY <1>8 DEF c
<1> QED
  <2> DEFINE f == ext2_ind_prepare(g, a.n, ridx, mode, dir)
  <2>1. DiskInv(f) /\ Created(e, f, ridx, a.n, mode)
    BY <1>6, <1>18, <1>19, CreatePrepare
  <2> QED
    BY <1>2, <1>8, <2>1 DEF c

\* The directory buffer with an entry at place p, and what else has changed.
PutBuf(e, ridx, p, ent) ==
  [e.blk[e.ind[ridx].block[p[1]]].dir EXCEPT ![p[2]] = ent]
PutMade(e, g, ridx, p, ent) ==
  /\ g.blk = [e.blk EXCEPT ![e.ind[ridx].block[p[1]]] =
                 [dir |-> PutBuf(e, ridx, p, ent), data |-> NoData]]
  /\ g.blockmap = e.blockmap /\ g.free_blocks = e.free_blocks
  /\ g.free_inodes = e.free_inodes - 1
  /\ g.ind[ridx].size = e.ind[ridx].size + 1
  /\ g.ind[ridx].blocks = e.ind[ridx].blocks
  /\ g.ind[ridx].block = e.ind[ridx].block

\* The disk with the entry at a free place, before the inode is prepared.
LEMMA CreateAt ==
  ASSUME NEW e, DiskInv(e), NEW ridx \in e.inodemap, NEW name \in Str,
         NEW mode \in {DirMode, FileMode}, ext2_alloc_inode(e).n # None,
         NEW p \in FreePlaces(e, e.ind[ridx])
  PROVE  LET a == ext2_alloc_inode(e)
             ent == Ent(a.n, name, mode)
             dir == PutBuf(e, ridx, p, ent)
         IN \E g :
              /\ Readied(e, g, ridx, a.n) /\ dir \in DirBuf /\ PutMade(e, g, ridx, p, ent)
              /\ PutAt(a.e, ridx, p, ent) = ext2_ind_prepare(g, a.n, ridx, mode, dir)
<1> DEFINE a == ext2_alloc_inode(e)
           ent == Ent(a.n, name, mode)
           at == e.ind[ridx].block[p[1]]
           dir == [e.blk[at].dir EXCEPT ![p[2]] = ent]
           h == wr_dir(a.e, at, dir)
           s == h.ind[ridx].size + 1
           g == [h EXCEPT !.ind[ridx].size = s]
<1>1. /\ e \in Disk /\ Counted(e) /\ e.inodemap \in SUBSET Inodes /\ ridx \in Inodes
      /\ Books(e.blockmap, e.inodemap, e.ind) /\ ~ e.wild
      /\ e.ind \in [Inodes -> Ind] /\ e.ind[ridx] \in Ind
      /\ e.blk \in [Blocks -> Blk] /\ e.blockmap \in SUBSET Blocks
  BY DiskFields DEF DiskInv, Owned
<1>2. /\ a.n \in Inodes \ e.inodemap /\ a.e \in Disk /\ Counted(a.e)
      /\ a.e.inodemap = e.inodemap \cup {a.n} /\ a.e.free_inodes = e.free_inodes - 1
      /\ a.e.blockmap = e.blockmap /\ a.e.free_blocks = e.free_blocks
      /\ a.e.ind = e.ind /\ a.e.blk = e.blk /\ a.e.wild = e.wild
  BY <1>1, CreateInode
<1> HIDE DEF a
<1>3. ent \in Entry /\ ent.inode = a.n /\ ent.mode = mode
  BY <1>2 DEF Ent, Entry, DirMode, FileMode, Modes
<1>4. p[2] \in 1 .. DirAmut /\ at \in Own(e.ind[ridx]) /\ at \in Blocks
  BY <1>1, PlacesOf DEF FreePlaces
<1> HIDE DEF ent, at
<1>5. dir \in DirBuf
  <2>1. e.blk[at].dir \in DirBuf
    BY <1>1, <1>4 DEF Blk
  <2> QED
    BY <1>3, <1>4, <2>1 DEF DirBuf
<1>6. PutAt(a.e, ridx, p, ent) = ext2_ind_prepare(g, a.n, ridx, mode, dir)
  <2> DEFINE at2 == a.e.ind[ridx].block[p[1]]
             dir2 == [a.e.blk[at2].dir EXCEPT ![p[2]] = ent]
             h2 == wr_dir(a.e, at2, dir2)
             put == [h2 EXCEPT !.ind[ridx].size = @ + 1]
  <2>1. PutAt(a.e, ridx, p, ent) = ext2_ind_prepare(put, ent.inode, ridx, ent.mode, dir2)
    BY DEF PutAt
  <2>2. at2 = at /\ dir2 = dir
    BY <1>2 DEF at
  <2> QED
    BY <1>3, <2>1, <2>2
<1> HIDE DEF dir
<1>7. /\ h \in Disk /\ h.ind = e.ind /\ h.wild = e.wild
      /\ h.blk = [e.blk EXCEPT ![at] = [dir |-> dir, data |-> NoData]]
      /\ h.inodemap = e.inodemap \cup {a.n} /\ h.blockmap = e.blockmap
      /\ h.free_blocks = e.free_blocks /\ h.free_inodes = e.free_inodes - 1
      /\ Counted(h)
  <2>1. /\ h \in Disk /\ h.ind = a.e.ind
        /\ h.blk = [a.e.blk EXCEPT ![at] = [dir |-> dir, data |-> NoData]]
        /\ h.blockmap = a.e.blockmap /\ h.free_blocks = a.e.free_blocks
        /\ h.inodemap = a.e.inodemap /\ h.free_inodes = a.e.free_inodes
        /\ h.wild = a.e.wild
    BY <1>2, <1>4, <1>5, WrDir
  <2> HIDE DEF h
  <2> QED
    BY <1>2, <2>1 DEF Counted
<1> HIDE DEF h
<1>8. s \in Int /\ s = e.ind[ridx].size + 1
  BY <1>1, <1>7 DEF Ind
<1> HIDE DEF s
<1>9. /\ g \in Disk /\ SameBut(h, g, ridx) /\ g.ind[ridx].mode = h.ind[ridx].mode
      /\ g.ind[ridx].block = h.ind[ridx].block /\ g.ind[ridx].size = s
      /\ g.ind[ridx].blocks = h.ind[ridx].blocks
  <2>1. h \in Disk /\ ridx \in Inodes /\ s \in Int
    BY <1>1, <1>7, <1>8
  <2> QED
    BY <2>1, SetSize
<1> HIDE DEF g
<1>10. /\ g.ind[ridx].mode = e.ind[ridx].mode /\ g.ind[ridx].block = e.ind[ridx].block
       /\ g.ind[ridx].blocks = e.ind[ridx].blocks
       /\ g.ind[ridx].size = e.ind[ridx].size + 1
  BY <1>7, <1>8, <1>9
<1>11. /\ g.blk = [e.blk EXCEPT ![at] = [dir |-> dir, data |-> NoData]]
       /\ g.inodemap = e.inodemap \cup {a.n} /\ g.blockmap = e.blockmap
       /\ g.free_blocks = e.free_blocks /\ g.free_inodes = e.free_inodes - 1
       /\ Counted(g) /\ ~ g.wild /\ \A i \in Inodes \ {ridx} : g.ind[i] = e.ind[i]
  BY <1>1, <1>7, <1>9 DEF SameBut, Counted
<1>12. Books(g.blockmap, e.inodemap, g.ind)
  <2>1. \A i \in e.inodemap : SameList(e.ind[i], g.ind[i])
    BY <1>1, <1>10, <1>11 DEF SameList
  <2> QED
    BY <1>1, <1>11, <2>1, BooksSame
<1>13. \A b \in e.blockmap \ Own(e.ind[ridx]) : g.blk[b] = e.blk[b]
  BY <1>1, <1>4, <1>11
<1>14. Readied(e, g, ridx, a.n)
  BY <1>2, <1>9, <1>10, <1>11, <1>12, <1>13 DEF Readied
<1>15. PutMade(e, g, ridx, p, ent) /\ dir = PutBuf(e, ridx, p, ent)
  BY <1>10, <1>11 DEF at, dir, PutBuf, PutMade
<1> QED
  BY <1>5, <1>6, <1>14, <1>15 DEF a, ent

\* ext2_create leaves the disk as it should be, if it does not fail.
LEMMA Create ==
  ASSUME NEW e, DiskInv(e), NEW ridx \in e.inodemap, NEW name \in Str,
         NEW mode \in {DirMode, FileMode}, ~ ext2_create(e, ridx, name, mode).e.wild
  PROVE  LET c == ext2_create(e, ridx, name, mode) IN
         DiskInv(c.e) /\ Created(e, c.e, ridx, c.n, mode)
<1> DEFINE c == ext2_create(e, ridx, name, mode)
           a == ext2_alloc_inode(e)
           free == FreePlaces(e, e.ind[ridx])
           p == FirstPlace(free)
           dir == PutBuf(e, ridx, p, Ent(a.n, name, mode))
<1>1. e \in Disk /\ ridx \in Inodes
  BY DiskFields DEF DiskInv
<1>2. CASE MustGrow(e.ind[ridx])
  BY <1>2, CreateGrow
<1>3. CASE ~ MustGrow(e.ind[ridx])
  <2>1. /\ a.n # None /\ free # {} /\ c.n = a.n
        /\ c.e = PutAt(a.e, ridx, p, Ent(a.n, name, mode))
    BY <1>1, <1>3, CreateCases
  <2>2. p \in free
    <3>1. free \subseteq Nat \X Nat
      BY <1>1, PlacesOf DEF FreePlaces
    <3> QED
      BY <2>1, <3>1, FirstPlaceIn
  <2> HIDE DEF free, p
  <2>3. PICK g : /\ Readied(e, g, ridx, a.n) /\ dir \in DirBuf
                 /\ PutAt(a.e, ridx, p, Ent(a.n, name, mode))
                      = ext2_ind_prepare(g, a.n, ridx, mode, dir)
    BY <2>1, <2>2, CreateAt DEF free
  <2> HIDE DEF dir, a, c
  <2>4. ~ ext2_ind_prepare(g, a.n, ridx, mode, dir).wild
    BY <2>1, <2>3 DEF c
  <2> DEFINE f == ext2_ind_prepare(g, a.n, ridx, mode, dir)
  <2>5. DiskInv(f) /\ Created(e, f, ridx, a.n, mode)
    BY <2>3, <2>4, CreatePrepare
  <2> QED
    BY <2>1, <2>3, <2>5 DEF c
<1> QED
  BY <1>2, <1>3

(***************************************************************************)
(* ext2_remove.                                                            *)
(***************************************************************************)
\* f is e but for the block bitmap.
SameFiles(e, f) ==
  /\ f.inodemap = e.inodemap /\ f.free_inodes = e.free_inodes
  /\ f.ind = e.ind /\ f.blk = e.blk /\ f.wild = e.wild

\* A block in use is freed (ext2fs.c:211-243).
LEMMA FreeBlock ==
  ASSUME NEW e \in Disk, Counted(e), NEW b \in e.blockmap
  PROVE  LET f == ext2_remove_block(e, b) IN
         /\ f \in Disk /\ Counted(f) /\ SameFiles(e, f)
         /\ f.blockmap = e.blockmap \ {b}
<1> DEFINE bm == e.blockmap \ {b}
           fb == e.free_blocks + 1
           f == WithBlocks(e, bm, e.last_block, fb)
<1>1. bm \in SUBSET Blocks /\ fb \in Int /\ e.last_block \in Blocks
  BY DiskFields
<1>2. Cardinality(bm) = Cardinality(e.blockmap) - 1
  BY RoomLeft, FS_RemoveElement
<1>3. f = ext2_remove_block(e, b)
  BY DEF ext2_remove_block, Disk, WithBlocks
<1> HIDE DEF bm, fb
<1>4. /\ f \in Disk /\ f.blockmap = bm /\ f.free_blocks = fb
      /\ f.inodemap = e.inodemap /\ f.free_inodes = e.free_inodes
      /\ f.ind = e.ind /\ f.blk = e.blk /\ f.wild = e.wild
  BY <1>1, DiskWith
<1> HIDE DEF f
<1>5. Counted(f)
  BY <1>2, <1>4, RoomLeft, Sizes DEF Counted, fb
<1>6. f \in Disk /\ Counted(f) /\ SameFiles(e, f) /\ f.blockmap = e.blockmap \ {b}
  BY <1>4, <1>5 DEF bm, SameFiles
<1> QED
  BY <1>3, <1>6

\* An inode in use is freed (ext2fs.c:245-277).
LEMMA FreeInode ==
  ASSUME NEW e \in Disk, Counted(e), NEW i \in e.inodemap
  PROVE  LET f == ext2_remove_inode(e, i) IN
         /\ f \in Disk /\ Counted(f) /\ f.inodemap = e.inodemap \ {i}
         /\ f.blockmap = e.blockmap /\ f.ind = e.ind /\ f.blk = e.blk /\ f.wild = e.wild
<1> DEFINE im == e.inodemap \ {i}
           fi == e.free_inodes + 1
           f == WithInodes(e, im, e.last_inode, fi)
<1>1. im \in SUBSET Inodes /\ fi \in Int /\ e.last_inode \in Inodes
  BY DiskFields
<1>2. Cardinality(im) = Cardinality(e.inodemap) - 1
  BY RoomLeft, FS_RemoveElement
<1>3. f = ext2_remove_inode(e, i)
  BY DEF ext2_remove_inode, Disk, WithInodes
<1> HIDE DEF im, fi
<1>4. /\ f \in Disk /\ f.inodemap = im /\ f.free_inodes = fi
      /\ f.blockmap = e.blockmap /\ f.free_blocks = e.free_blocks
      /\ f.ind = e.ind /\ f.blk = e.blk /\ f.wild = e.wild
  BY <1>1, DiskWithInodes
<1> HIDE DEF f
<1>5. Counted(f)
  BY <1>2, <1>4, RoomLeft, Sizes DEF Counted, fi
<1>6. f.inodemap = e.inodemap \ {i}
  BY <1>4 DEF im
<1> QED
  BY <1>3, <1>4, <1>5, <1>6

\* From 0 to n, a step at a time.
LEMMA UpTo ==
  ASSUME NEW n \in Nat, NEW S, 0 \in S, \A i \in S \cap (0 .. n - 1) : i + 1 \in S
  PROVE  \A i \in 0 .. n : i \in S
<1> DEFINE T == {i \in Nat : i <= n => i \in S}
<1>1. T \in SUBSET Nat /\ 0 \in T
  OBVIOUS
<1>2. \A i \in T : i + 1 \in T
  <2> SUFFICES ASSUME NEW i \in T, i + 1 <= n PROVE i + 1 \in S
    OBVIOUS
  <2>1. i \in S \cap (0 .. n - 1)
    OBVIOUS
  <2> QED
    BY <2>1
<1> HIDE DEF T
<1>3. T = Nat
  BY <1>1, <1>2, SetInduction
<1> QED
  BY <1>3 DEF T

\* RemoveFile folds ext2_remove_block.
RemoveOn(p, f, b) == ext2_remove_block(f, b)
Rm == INSTANCE Lemmas WITH apply <- RemoveOn

\* The blocks of an inode are freed, one after the other (ext2fs.c:446-449).
LEMMA FreeBlocks ==
  ASSUME NEW e \in Disk, Counted(e), NEW ind \in Ind, Own(ind) \subseteq e.blockmap,
         Distinct(ind)
  PROVE  LET f == FoldLeft(ext2_remove_block, e, BlocksOf(ind)) IN
         /\ f \in Disk /\ Counted(f) /\ SameFiles(e, f)
         /\ f.blockmap = e.blockmap \ Own(ind)
<1> DEFINE s == BlocksOf(ind)
           n == ind.blocks
           f == FoldLeft(ext2_remove_block, e, s)
           First(i) == {ind.block[j] : j \in 1 .. i}
<1>1. n \in Nat /\ DOMAIN s = 1 .. n /\ \A i \in 1 .. n : s[i] = ind.block[i]
  BY Sizes DEF Ind, BlocksOf
<1>2. f = Rm!Fold(0, e, s)
  BY DEF RemoveOn, FoldLeft, MapThenFoldSet, Max,
         Rm!Fold, Rm!FoldLeft, Rm!MapThenFoldSet, Rm!Max
<1> HIDE DEF s, f
<1>3. PICK h : /\ h[0] = e /\ f = h[n]
               /\ \A i \in 1 .. n : h[i] = RemoveOn(0, h[i - 1], s[i])
  BY <1>1, <1>2, Rm!FoldTrace
<1> DEFINE Ok(g, i) == /\ g \in Disk /\ Counted(g) /\ SameFiles(e, g)
                       /\ g.blockmap = e.blockmap \ First(i)
           S == {i \in 0 .. n : Ok(h[i], i)}
<1>4. 0 \in S
  BY <1>1, <1>3 DEF SameFiles
<1>5. \A i \in S \cap (0 .. n - 1) : i + 1 \in S
  <2> SUFFICES ASSUME NEW i \in S, i \in 0 .. n - 1 PROVE Ok(h[i + 1], i + 1)
    BY <1>1
  <2>1. i + 1 \in 1 .. n /\ (i + 1) - 1 = i /\ i \in 0 .. n
    BY <1>1
  <2> DEFINE b == ind.block[i + 1]
             g == h[i]
  <2>2. h[i + 1] = ext2_remove_block(g, b)
    BY <1>1, <1>3, <2>1 DEF RemoveOn
  <2>3. Ok(g, i)
    OBVIOUS
  <2>4. b \in g.blockmap
    <3>1. b \in Own(ind)
      BY <2>1 DEF Own
    <3>2. b \notin First(i)
      <4> SUFFICES ASSUME NEW j \in 1 .. i, ind.block[j] = b PROVE FALSE
        OBVIOUS
      <4>1. j \in 1 .. n /\ j # i + 1
        BY <1>1, <2>1
      <4> QED
        BY <2>1, <4>1 DEF Distinct
    <3> QED
      BY <2>3, <3>1, <3>2
  <2>5. First(i + 1) = First(i) \cup {b}
    <3>1. 1 .. i + 1 = (1 .. i) \cup {i + 1}
      BY <2>1
    <3> QED
      BY <3>1
  <2> HIDE DEF g, b, First
  <2>6. LET r == ext2_remove_block(g, b) IN
        r \in Disk /\ Counted(r) /\ SameFiles(g, r) /\ r.blockmap = g.blockmap \ {b}
    BY <2>3, <2>4, FreeBlock
  <2> QED
    BY <2>2, <2>3, <2>5, <2>6 DEF SameFiles
<1>6. Ok(h[n], n)
  <2> HIDE DEF Ok
  <2>1. \A i \in 0 .. n : i \in S
    <3> HIDE DEF S
    <3> QED
      BY <1>1, <1>4, <1>5, UpTo
  <2> QED
    BY <1>1, <2>1
<1>7. First(n) = Own(ind)
  BY DEF Own
<1> QED
  BY <1>3, <1>6, <1>7 DEF f, s

\* The list of an inode is written anew.
PutList(e, k, l) == [e EXCEPT !.ind[k].block = l]

\* Only that changes.
LEMMA SetList ==
  ASSUME NEW e \in Disk, NEW k \in Inodes, NEW l \in [1 .. NIndBlocks -> Blocks]
  PROVE  LET f == PutList(e, k, l) IN
         /\ f \in Disk /\ SameBut(e, f, k)
         /\ f.ind[k].mode = e.ind[k].mode /\ f.ind[k].size = e.ind[k].size
         /\ f.ind[k].blocks = e.ind[k].blocks
<1> DEFINE f == PutList(e, k, l)
           x == [e.ind[k] EXCEPT !.block = l]
<1>1. e.ind[k] \in Ind
  BY DiskFields
<1>2. /\ x \in Ind /\ x.mode = e.ind[k].mode /\ x.size = e.ind[k].size
      /\ x.blocks = e.ind[k].blocks
  BY <1>1 DEF Ind
<1>3. f = [e EXCEPT !.ind[k] = x]
  BY DEF Disk, PutList
<1> HIDE DEF x, f
<1>4. f \in Disk /\ f.ind[k] = x /\ SameBut(e, f, k)
  BY <1>2, <1>3, SetInd
<1> QED
  BY <1>2, <1>4 DEF f

\* The parent's entries without the one removed.
LEMMA ClearedType ==
  ASSUME NEW e \in Disk, NEW ridx \in Inodes, NEW p \in Places(e.ind[ridx])
  PROVE  Cleared(e, e.ind[ridx], p) \in DirBuf
<1>1. p[2] \in 1 .. DirAmut /\ e.ind[ridx].block[p[1]] \in Blocks
  BY PlacesOf
<1>2. e.blk[e.ind[ridx].block[p[1]]].dir \in DirBuf
  BY <1>1, DiskFields DEF Blk
<1> DEFINE d == e.blk[e.ind[ridx].block[p[1]]].dir
<1> HIDE DEF d
<1>3. [d EXCEPT ![p[2]].inode = 0] \in DirBuf
  BY <1>1, <1>2 DEF d, DirBuf, Entry
<1> QED
  BY <1>3 DEF d, Cleared

\* What ext2_remove leaves of the rest of the disk.
Dropped(e, f, ridx, k) ==
  /\ f.inodemap = e.inodemap \ {k} /\ f.blockmap \subseteq e.blockmap
  /\ \A i \in Inodes \ {k, ridx} : f.ind[i] = e.ind[i]
  /\ \A i \in Inodes : f.ind[i].mode = e.ind[i].mode

\* The last part of ext2_remove: the parent is written back, to a block b.
LEMMA RemoveEnd ==
  ASSUME NEW e, DiskInv(e), NEW ridx \in Inodes, NEW k \in e.inodemap,
         NEW g \in Disk, Counted(g), ~ g.wild, g.inodemap = e.inodemap \ {k},
         g.blockmap = e.blockmap \ Own(e.ind[k]),
         \A i \in Inodes \ {k} : g.ind[i] = e.ind[i],
         \A i \in Inodes : g.ind[i].mode = e.ind[i].mode,
         NEW s \in Int
  PROVE  LET f == [g EXCEPT !.ind[ridx].size = s] IN
         DiskInv(f) /\ Dropped(e, f, ridx, k)
<1> DEFINE f == [g EXCEPT !.ind[ridx].size = s]
<1>1. /\ f \in Disk /\ SameBut(g, f, ridx) /\ f.ind[ridx].mode = g.ind[ridx].mode
      /\ f.ind[ridx].blocks = g.ind[ridx].blocks /\ f.ind[ridx].block = g.ind[ridx].block
  BY SetSize
<1> HIDE DEF f
<1>2. e.inodemap \in SUBSET Inodes /\ Books(e.blockmap, e.inodemap, e.ind)
  BY DiskFields DEF DiskInv, Owned
<1>3. \A i \in e.inodemap \ {k} : SameList(e.ind[i], f.ind[i])
  BY <1>1, <1>2 DEF SameList, SameBut
<1>4. Books(e.blockmap \ Own(e.ind[k]), e.inodemap \ {k}, f.ind)
  BY <1>2, <1>3, BooksDrop
<1>5. DiskInv(f)
  BY <1>1, <1>4 DEF DiskInv, Owned, SameBut, Counted
<1>6. Dropped(e, f, ridx, k)
  BY <1>1 DEF Dropped, SameBut
<1> QED
  BY <1>5, <1>6 DEF f

\* An empty directory is removed (ext2fs.c:425-438).
LEMMA RemovesDir ==
  ASSUME NEW e, DiskInv(e), NEW ridx \in Inodes, NEW p \in Places(e.ind[ridx]),
         NEW k \in e.inodemap, RemoveDir(e, ridx, p, k).ret = 0
  PROVE  LET f == RemoveDir(e, ridx, p, k).e IN DiskInv(f) /\ Dropped(e, f, ridx, k)
<1> DEFINE ind == e.ind[k]
           dir == Cleared(e, e.ind[ridx], p)
           f0 == ext2_remove_block(e, ind.block[1])
           f1 == ext2_remove_inode(f0, k)
           at == ind.block[p[1]]
           h == wr_dir(f1, at, dir)
           h1 == [h EXCEPT !.ind[k].size = 0]
           h2 == [h1 EXCEPT !.ind[k].blocks = 0]
           s == h2.ind[ridx].size - 1
           f == [h2 EXCEPT !.ind[ridx].size = s]
<1>1. ind.blocks = 1 /\ RemoveDir(e, ridx, p, k).e = f
  <2> DEFINE q == [h EXCEPT !.ind[k].size = 0, !.ind[k].blocks = 0]
             r == [q EXCEPT !.ind[ridx].size = @ - 1]
  <2>1. RemoveDir(e, ridx, p, k) = IF ind.size # 2 THEN [e |-> e, ret |-> 1]
                                   ELSE IF ind.blocks # 1 THEN [e |-> Wild(e), ret |-> 1]
                                   ELSE [e |-> r, ret |-> 0]
    BY DEF RemoveDir
  <2>2. r = f
    <3> HIDE DEF h
    <3> QED
      BY Zenon
  <2> HIDE DEF r, f
  <2> QED
    BY <2>1, <2>2
<1>2. /\ e \in Disk /\ Counted(e) /\ k \in Inodes /\ ind \in Ind /\ ~ e.wild
      /\ Books(e.blockmap, e.inodemap, e.ind) /\ e.ind[ridx] \in Ind
  BY DiskFields DEF DiskInv, Owned
<1>3. Own(ind) = {ind.block[1]} /\ ind.block[1] \in e.blockmap
  <2>1. 1 .. ind.blocks = {1} /\ Own(ind) \subseteq e.blockmap
    <3>1. 1 .. ind.blocks = {1}
      <4> HIDE DEF f
      <4> QED
        BY <1>1
    <3>2. Own(ind) \subseteq e.blockmap
      BY <1>2 DEF Books
    <3> QED
      BY <3>1, <3>2
  <2>2. Own(ind) = {ind.block[1]}
    BY <2>1 DEF Own
  <2> QED
    BY <2>1, <2>2
<1>4. f0 \in Disk /\ Counted(f0) /\ SameFiles(e, f0) /\ f0.blockmap = e.blockmap \ Own(ind)
  BY <1>2, <1>3, FreeBlock
<1> HIDE DEF f0
<1>5. /\ f1 \in Disk /\ Counted(f1) /\ f1.inodemap = e.inodemap \ {k}
      /\ f1.blockmap = e.blockmap \ Own(ind) /\ f1.ind = e.ind /\ f1.wild = e.wild
  <2>1. k \in f0.inodemap
    BY <1>4 DEF SameFiles
  <2>2. /\ f1 \in Disk /\ Counted(f1) /\ f1.inodemap = f0.inodemap \ {k}
        /\ f1.blockmap = f0.blockmap /\ f1.ind = f0.ind /\ f1.wild = f0.wild
    BY <1>4, <2>1, FreeInode
  <2> QED
    BY <1>4, <2>2 DEF SameFiles
<1> HIDE DEF f1
<1>6. dir \in DirBuf /\ at \in Blocks
  <2>1. p[1] \in 1 .. NIndBlocks
    <3>1. p[1] \in 1 .. e.ind[ridx].blocks
      BY <1>2, PlacesOf
    <3>2. e.ind[ridx].blocks \in 0 .. NIndBlocks
      BY <1>2 DEF Ind
    <3> QED
      BY <3>1, <3>2, Sizes
  <2>2. dir \in DirBuf
    BY <1>2, ClearedType
  <2>3. ind.block[p[1]] \in Blocks
    BY <1>2, <2>1 DEF Ind
  <2> QED
    BY <2>2, <2>3
<1> HIDE DEF dir, at
<1>7. /\ h \in Disk /\ h.ind = f1.ind /\ h.blockmap = f1.blockmap
      /\ h.free_blocks = f1.free_blocks
      /\ h.inodemap = f1.inodemap /\ h.free_inodes = f1.free_inodes /\ h.wild = f1.wild
  <2>1. f1 \in Disk /\ at \in Blocks /\ dir \in DirBuf
    BY <1>5, <1>6
  <2> QED
    BY <2>1, WrDir
<1> HIDE DEF h
<1>8. 0 \in Int /\ 0 \in 0 .. NIndBlocks
  BY Sizes
<1>9. h1 \in Disk /\ SameBut(h, h1, k) /\ h1.ind[k].mode = h.ind[k].mode
  BY <1>2, <1>7, <1>8, SetSize
<1> HIDE DEF h1
<1>10. h2 \in Disk /\ SameBut(h1, h2, k) /\ h2.ind[k].mode = h1.ind[k].mode
  BY <1>2, <1>8, <1>9, SetBlocks
<1> HIDE DEF h2
<1>11. s \in Int
  BY <1>10, DiskFields DEF Ind
<1> HIDE DEF s
<1>12. SameBut(h, h2, k)
  BY <1>9, <1>10, SameButTwice
<1>13. /\ Counted(h2) /\ ~ h2.wild /\ h2.inodemap = e.inodemap \ {k}
       /\ h2.blockmap = e.blockmap \ Own(e.ind[k])
       /\ \A i \in Inodes \ {k} : h2.ind[i] = e.ind[i]
  BY <1>2, <1>5, <1>7, <1>12 DEF SameBut, Counted
<1>14. \A i \in Inodes : h2.ind[i].mode = e.ind[i].mode
  BY <1>5, <1>7, <1>9, <1>10, <1>13
<1>15. DiskInv(f) /\ Dropped(e, f, ridx, k)
  BY <1>10, <1>11, <1>13, <1>14, RemoveEnd
<1> QED
  BY <1>1, <1>15

\* A file, or whatever is under a dotted name, is removed (ext2fs.c:443-460).
LEMMA RemovesFile ==
  ASSUME NEW e, DiskInv(e), NEW ridx \in Inodes, NEW p \in Places(e.ind[ridx]),
         NEW k \in e.inodemap
  PROVE  LET f == RemoveFile(e, ridx, p, k).e IN DiskInv(f) /\ Dropped(e, f, ridx, k)
<1> DEFINE ind == e.ind[k]
           dir == Cleared(e, e.ind[ridx], p)
           zero == [i \in 1 .. NIndBlocks |-> IF i <= ind.blocks THEN 0 ELSE ind.block[i]]
           f0 == FoldLeft(ext2_remove_block, e, BlocksOf(ind))
           f1 == PutList(f0, k, zero)
           f2 == ext2_remove_inode(f1, k)
           h == wr_dir(f2, zero[p[1]], dir)
           s == h.ind[ridx].size - 1
           f == [h EXCEPT !.ind[ridx].size = s]
<1>1. RemoveFile(e, ridx, p, k).e = f
  BY DEF RemoveFile, PutList
<1>2. /\ e \in Disk /\ Counted(e) /\ k \in Inodes /\ ind \in Ind /\ ~ e.wild
      /\ Books(e.blockmap, e.inodemap, e.ind) /\ e.ind[ridx] \in Ind
  BY DiskFields DEF DiskInv, Owned
<1>3. Own(ind) \subseteq e.blockmap /\ Distinct(ind)
  BY <1>2 DEF Books
<1>4. f0 \in Disk /\ Counted(f0) /\ SameFiles(e, f0) /\ f0.blockmap = e.blockmap \ Own(ind)
  BY <1>2, <1>3, FreeBlocks
<1> HIDE DEF f0
<1>5. zero \in [1 .. NIndBlocks -> Blocks] /\ zero[p[1]] \in Blocks
  <2>1. 0 \in Blocks
    BY Sizes DEF Blocks
  <2>2. ind.block \in [1 .. NIndBlocks -> Blocks]
    BY <1>2 DEF Ind
  <2>3. p[1] \in 1 .. NIndBlocks
    <3>1. p[1] \in 1 .. e.ind[ridx].blocks
      BY <1>2, PlacesOf
    <3>2. e.ind[ridx].blocks \in 0 .. NIndBlocks
      BY <1>2 DEF Ind
    <3> QED
      BY <3>1, <3>2, Sizes
  <2> QED
    BY <2>1, <2>2, <2>3
<1> HIDE DEF zero
<1>6. f1 \in Disk /\ SameBut(f0, f1, k) /\ f1.ind[k].mode = f0.ind[k].mode
  BY <1>2, <1>4, <1>5, SetList
<1> HIDE DEF f1
<1>7. /\ f2 \in Disk /\ Counted(f2) /\ f2.inodemap = f1.inodemap \ {k}
      /\ f2.blockmap = f1.blockmap /\ f2.ind = f1.ind /\ f2.wild = f1.wild
  <2>1. k \in f1.inodemap /\ Counted(f1)
    BY <1>4, <1>6 DEF SameFiles, SameBut, Counted
  <2> QED
    BY <1>6, <2>1, FreeInode
<1> HIDE DEF f2
<1>8. dir \in DirBuf
  BY <1>2, ClearedType
<1> HIDE DEF dir
<1>9. /\ h \in Disk /\ h.ind = f2.ind /\ h.blockmap = f2.blockmap
      /\ h.free_blocks = f2.free_blocks
      /\ h.inodemap = f2.inodemap /\ h.free_inodes = f2.free_inodes /\ h.wild = f2.wild
  <2>1. f2 \in Disk /\ zero[p[1]] \in Blocks /\ dir \in DirBuf
    BY <1>5, <1>7, <1>8
  <2> QED
    BY <2>1, WrDir
<1> HIDE DEF h
<1>10. s \in Int
  BY <1>9, DiskFields DEF Ind
<1> HIDE DEF s
<1>11. /\ Counted(h) /\ ~ h.wild /\ h.inodemap = e.inodemap \ {k}
       /\ h.blockmap = e.blockmap \ Own(e.ind[k])
       /\ \A i \in Inodes \ {k} : h.ind[i] = e.ind[i]
  BY <1>2, <1>4, <1>6, <1>7, <1>9 DEF SameBut, SameFiles, Counted
<1>12. \A i \in Inodes : h.ind[i].mode = e.ind[i].mode
  BY <1>4, <1>6, <1>7, <1>9, <1>11 DEF SameFiles
<1>13. DiskInv(f) /\ Dropped(e, f, ridx, k)
  BY <1>9, <1>10, <1>11, <1>12, RemoveEnd
<1> QED
  BY <1>1, <1>13

\* ext2_remove of an entry that names an inode in use leaves the disk as it should
\* be; what it returns 1 for it leaves alone, or fails.
LEMMA RemoveKeeps ==
  ASSUME NEW e, DiskInv(e), NEW ridx \in e.inodemap, NEW name, NEW mode
  PROVE  LET x == ext2_remove(e, ridx, name, mode)
             p == FirstPlace(Named(e, e.ind[ridx], name))
             k == EntryAt(e, e.ind[ridx], p).inode
         IN /\ x.ret # 0 => x.e = e \/ x.e.wild
            /\ x.ret = 0 /\ k \in e.inodemap => DiskInv(x.e) /\ Dropped(e, x.e, ridx, k)
<1> DEFINE S == Named(e, e.ind[ridx], name)
           p == FirstPlace(S)
           k == EntryAt(e, e.ind[ridx], p).inode
           x == ext2_remove(e, ridx, name, mode)
           Goal == /\ x.ret # 0 => x.e = e \/ x.e.wild
                   /\ x.ret = 0 /\ k \in e.inodemap
                        => DiskInv(x.e) /\ Dropped(e, x.e, ridx, k)
<1> HIDE DEF S, p, k, x
<1>1. e \in Disk /\ ridx \in Inodes /\ Wild(e).wild
  BY DiskFields, WildIs DEF DiskInv
<1>2. ASSUME S = {} \/ k = 0 PROVE Goal
  <2>1. x = [e |-> e, ret |-> 1] \/ x = [e |-> Wild(e), ret |-> 1]
    BY <1>2 DEF ext2_remove, S, p, k, x
  <2> QED
    BY <1>1, <2>1
<1>3. ASSUME S # {} /\ k # 0 PROVE Goal
  <2>1. p \in S
    <3>1. S \subseteq Nat \X Nat
      BY <1>1, PlacesOf DEF Named, S
    <3> QED
      BY <1>3, <3>1, FirstPlaceIn DEF p
  <2>2. p \in Places(e.ind[ridx])
    BY <2>1 DEF Named, S
  <2>3. x = RemoveDir(e, ridx, p, k) \/ x = RemoveFile(e, ridx, p, k)
    BY <1>3 DEF ext2_remove, S, p, k, x
  <2>4. RemoveFile(e, ridx, p, k).ret = 0
    BY DEF RemoveFile
  <2>5. LET r == RemoveDir(e, ridx, p, k) IN r.ret # 0 => r.e = e \/ r.e.wild
    BY <1>1 DEF RemoveDir
  <2>6. x.ret # 0 => x.e = e \/ x.e.wild
    BY <2>3, <2>4, <2>5
  <2>7. x.ret = 0 /\ k \in e.inodemap => DiskInv(x.e) /\ Dropped(e, x.e, ridx, k)
    BY <1>1, <2>2, <2>3, RemovesDir, RemovesFile
  <2> QED
    BY <2>6, <2>7
<1>4. Goal
  BY <1>2, <1>3
<1> QED
  BY <1>4 DEF S, p, k, x

(***************************************************************************)
(* ext2_write.                                                             *)
(***************************************************************************)
\* f is e but for the list of ridx, which has m blocks.
Resized(e, f, ridx, m) ==
  /\ DiskInv(f) /\ f.inodemap = e.inodemap /\ f.blk = e.blk
  /\ \A i \in Inodes \ {ridx} : f.ind[i] = e.ind[i]
  /\ f.ind[ridx].mode = e.ind[ridx].mode /\ f.ind[ridx].size = e.ind[ridx].size
  /\ f.ind[ridx].blocks = m
  /\ \A n \in 1 .. m : n <= e.ind[ridx].blocks
                         => f.ind[ridx].block[n] = e.ind[ridx].block[n]

\* A block is added at the end (ext2fs.c:333-335).
LEMMA GrowStep ==
  ASSUME NEW e \in Disk, NEW ridx \in e.inodemap, NEW f \in Disk, NEW m \in Nat,
         f.wild \/ Resized(e, f, ridx, m), m >= e.ind[ridx].blocks
  PROVE  LET g == Grow(ridx, f, m + 1) IN
         /\ g \in Disk /\ (g.wild \/ Resized(e, g, ridx, m + 1))
         /\ ~ f.wild /\ m < NIndBlocks /\ f.free_blocks # 0
              => ~ g.wild /\ g.free_blocks = f.free_blocks - 1
         /\ ~ g.wild => ~ f.wild /\ m < NIndBlocks
<1> DEFINE a == ext2_alloc_block(f)
           i == m + 1
           h == PutBlock(a.e, ridx, i, a.n)
           g == [h EXCEPT !.ind[ridx].blocks = i]
<1>0. i \in Nat /\ (i > NIndBlocks <=> ~ m < NIndBlocks) /\ e.inodemap \in SUBSET Inodes
      /\ ridx \in Inodes
  BY Sizes, DiskFields
<1>1. Grow(ridx, f, i) = IF f.wild \/ a.n = None \/ i > NIndBlocks THEN Wild(f) ELSE g
  <2> DEFINE x == a.e
             b == a.n
             put == [x EXCEPT !.ind[ridx].block[i] = b, !.ind[ridx].blocks = i]
  <2>1. Grow(ridx, f, i) = IF f.wild \/ a.n = None \/ i > NIndBlocks THEN Wild(f) ELSE put
    BY DEF Grow
  <2>2. put = g
    <3> HIDE DEF x, b, i
    <3>1. [x EXCEPT !.ind[ridx].block[i] = b, !.ind[ridx].blocks = i]
            = [PutBlock(x, ridx, i, b) EXCEPT !.ind[ridx].blocks = i]
      BY Zenon DEF PutBlock
    <3> QED
      BY <3>1 DEF x, b
  <2> HIDE DEF put, g, a, i
  <2> QED
    BY <2>1, <2>2
<1>2. CASE f.wild \/ a.n = None \/ i > NIndBlocks
  <2> HIDE DEF g
  <2>1. Wild(f).wild /\ Wild(f) \in Disk
    BY WildIs DEF Wild, Disk
  <2>2. Grow(ridx, f, i) = Wild(f)
    BY <1>1, <1>2
  <2>3. ~ (~ f.wild /\ m < NIndBlocks /\ f.free_blocks # 0)
    <3>1. CASE ~ f.wild
      <4>1. Counted(f)
        BY <3>1 DEF Resized, DiskInv
      <4> QED
        BY <1>0, <1>2, <4>1, AllocBlockFinds
    <3> QED
      BY <3>1
  <2> HIDE DEF i
  <2> QED
    BY <2>1, <2>2, <2>3 DEF i
<1>3. CASE ~ f.wild /\ a.n # None /\ ~ i > NIndBlocks
  <2>1. /\ DiskInv(f) /\ f.inodemap = e.inodemap /\ f.blk = e.blk
        /\ \A j \in Inodes \ {ridx} : f.ind[j] = e.ind[j]
        /\ f.ind[ridx].mode = e.ind[ridx].mode /\ f.ind[ridx].size = e.ind[ridx].size
        /\ f.ind[ridx].blocks = m
        /\ \A n \in 1 .. m : n <= e.ind[ridx].blocks
                               => f.ind[ridx].block[n] = e.ind[ridx].block[n]
    BY <1>3 DEF Resized
  <2>2. /\ Counted(f) /\ Books(f.blockmap, f.inodemap, f.ind) /\ f.ind[ridx] \in Ind
        /\ Own(f.ind[ridx]) \subseteq f.blockmap /\ Distinct(f.ind[ridx])
        /\ e.ind[ridx].blocks \in Nat
    BY <1>0, <2>1, Sizes, DiskFields DEF DiskInv, Owned, Books, Ind
  <2>3. /\ a.n \in Blocks \ f.blockmap /\ a.e \in Disk /\ Counted(a.e)
        /\ a.e.blockmap = f.blockmap \cup {a.n} /\ a.e.free_blocks = f.free_blocks - 1
        /\ a.e.inodemap = f.inodemap
        /\ a.e.ind = f.ind /\ a.e.blk = f.blk /\ a.e.wild = f.wild
    BY <1>3, <2>2, TakeBlock
  <2> HIDE DEF a
  <2>4. a.n \in Blocks /\ i \in 1 .. NIndBlocks /\ i \in 0 .. NIndBlocks
    BY <1>0, <1>3, <2>3, Sizes
  <2> HIDE DEF i
  <2>5. /\ h \in Disk /\ SameBut(a.e, h, ridx) /\ h.ind[ridx].mode = a.e.ind[ridx].mode
        /\ h.ind[ridx].size = a.e.ind[ridx].size /\ h.ind[ridx].block[i] = a.n
        /\ \A n \in 1 .. NIndBlocks : n # i => h.ind[ridx].block[n] = a.e.ind[ridx].block[n]
    BY <1>0, <2>3, <2>4, SetBlock
  <2> HIDE DEF h
  <2>6. /\ g \in Disk /\ SameBut(h, g, ridx) /\ g.ind[ridx].mode = h.ind[ridx].mode
        /\ g.ind[ridx].size = h.ind[ridx].size /\ g.ind[ridx].block = h.ind[ridx].block
        /\ g.ind[ridx].blocks = i
    BY <1>0, <2>4, <2>5, SetBlocks
  <2> HIDE DEF g
  <2>7. SameBut(a.e, g, ridx) /\ g.ind[ridx] \in Ind
    BY <1>0, <2>5, <2>6, SameButTwice, DiskFields
  <2>8. /\ g.ind[ridx].block[m + 1] = a.n /\ g.ind[ridx].blocks = m + 1 /\ m < NIndBlocks
        /\ \A n \in 1 .. m : g.ind[ridx].block[n] = f.ind[ridx].block[n]
    <3>1. \A n \in 1 .. m : n \in 1 .. NIndBlocks /\ n # i
      BY <2>4, Sizes DEF i
    <3>2. m < NIndBlocks /\ i = m + 1
      BY <1>0, <1>3 DEF i
    <3> QED
      BY <2>3, <2>5, <2>6, <3>1, <3>2
  <2>9. Own(g.ind[ridx]) = Own(f.ind[ridx]) \cup {a.n} /\ Distinct(g.ind[ridx])
    BY <2>1, <2>2, <2>3, <2>7, <2>8, OwnMore
  <2>10. Books(g.blockmap, g.inodemap, g.ind)
    <3>1. \A j \in f.inodemap \ {ridx} : SameList(f.ind[j], g.ind[j])
      BY <1>0, <2>1, <2>3, <2>7 DEF SameList, SameBut
    <3>2. Books(f.blockmap \cup {a.n}, f.inodemap, g.ind)
      BY <2>1, <2>2, <2>3, <2>9, <3>1, BooksTake
    <3>3. g.blockmap = f.blockmap \cup {a.n} /\ g.inodemap = f.inodemap
      BY <2>3, <2>7 DEF SameBut
    <3> QED
      BY <3>2, <3>3
  <2>11. DiskInv(g)
    BY <1>3, <2>3, <2>6, <2>7, <2>10 DEF DiskInv, Owned, SameBut, Counted
  <2>12. Resized(e, g, ridx, m + 1)
    <3>1. /\ g.inodemap = e.inodemap /\ g.blk = e.blk
          /\ \A j \in Inodes \ {ridx} : g.ind[j] = e.ind[j]
      BY <2>1, <2>3, <2>7 DEF SameBut
    <3>2. g.ind[ridx].mode = e.ind[ridx].mode /\ g.ind[ridx].size = e.ind[ridx].size
      BY <2>1, <2>3, <2>5, <2>6
    <3>3. ASSUME NEW n \in 1 .. m + 1, n <= e.ind[ridx].blocks
          PROVE  g.ind[ridx].block[n] = e.ind[ridx].block[n]
      <4>1. n \in 1 .. m
        BY <2>2, <3>3
      <4> QED
        BY <2>1, <2>8, <3>3, <4>1
    <3> QED
      BY <2>8, <2>11, <3>1, <3>2, <3>3 DEF Resized
  <2>13. ~ g.wild /\ g.free_blocks = f.free_blocks - 1
    BY <1>3, <2>3, <2>7 DEF SameBut
  <2>14. Grow(ridx, f, m + 1) = g
    BY <1>1, <1>3 DEF i
  <2> QED
    BY <1>3, <2>6, <2>8, <2>12, <2>13, <2>14
<1> QED
  BY <1>2, <1>3

\* The last block is taken away (ext2fs.c:336-339).
LEMMA ShrinkStep ==
  ASSUME NEW e \in Disk, NEW ridx \in e.inodemap, NEW f, NEW m \in Nat \ {0},
         Resized(e, f, ridx, m)
  PROVE  Resized(e, Shrink(ridx, f, m), ridx, m - 1)
<1> DEFINE b == f.ind[ridx].block[m]
           k == m - 1
           h == ext2_remove_block(f, b)
           g == [h EXCEPT !.ind[ridx].blocks = k]
<1>0. e.inodemap \in SUBSET Inodes /\ ridx \in Inodes
  BY DiskFields
<1>1. Shrink(ridx, f, m) = g
  BY DEF Shrink
<1>2. /\ DiskInv(f) /\ f.inodemap = e.inodemap /\ f.blk = e.blk
      /\ \A j \in Inodes \ {ridx} : f.ind[j] = e.ind[j]
      /\ f.ind[ridx].mode = e.ind[ridx].mode /\ f.ind[ridx].size = e.ind[ridx].size
      /\ f.ind[ridx].blocks = m
      /\ \A n \in 1 .. m : n <= e.ind[ridx].blocks
                             => f.ind[ridx].block[n] = e.ind[ridx].block[n]
  BY DEF Resized
<1>3. /\ f \in Disk /\ Counted(f) /\ Books(f.blockmap, f.inodemap, f.ind)
      /\ f.ind[ridx] \in Ind /\ ~ f.wild
      /\ Own(f.ind[ridx]) \subseteq f.blockmap /\ Distinct(f.ind[ridx])
  BY <1>0, <1>2, DiskFields DEF DiskInv, Owned, Books
<1>4. b \in Own(f.ind[ridx]) /\ b \in f.blockmap /\ k \in 0 .. NIndBlocks /\ k \in Nat
  <2>1. m \in 1 .. m /\ m \in 0 .. NIndBlocks
    BY <1>2, <1>3 DEF Ind
  <2> QED
    BY <1>2, <1>3, <2>1, Sizes DEF Own
<1> HIDE DEF b
<1>5. h \in Disk /\ Counted(h) /\ SameFiles(f, h) /\ h.blockmap = f.blockmap \ {b}
  BY <1>3, <1>4, FreeBlock
<1> HIDE DEF h, k
<1>6. /\ g \in Disk /\ SameBut(h, g, ridx) /\ g.ind[ridx].mode = h.ind[ridx].mode
      /\ g.ind[ridx].size = h.ind[ridx].size /\ g.ind[ridx].block = h.ind[ridx].block
      /\ g.ind[ridx].blocks = k
  BY <1>0, <1>4, <1>5, SetBlocks
<1> HIDE DEF g
<1>7. g.ind[ridx] \in Ind
  BY <1>0, <1>6, DiskFields
<1>8. g.ind[ridx].block = f.ind[ridx].block /\ g.ind[ridx].blocks = f.ind[ridx].blocks - 1
  BY <1>2, <1>5, <1>6 DEF SameFiles, k
<1>9. Own(g.ind[ridx]) = Own(f.ind[ridx]) \ {b} /\ Distinct(g.ind[ridx])
  <2>1. f.ind[ridx].blocks > 0
    BY <1>2
  <2> QED
    BY <1>2, <1>3, <1>7, <1>8, <2>1, OwnLess DEF b
<1>10. Books(g.blockmap, g.inodemap, g.ind)
  <2>1. \A j \in f.inodemap \ {ridx} : SameList(f.ind[j], g.ind[j])
    BY <1>0, <1>2, <1>5, <1>6 DEF SameList, SameBut, SameFiles
  <2>2. Books(f.blockmap \ {b}, f.inodemap, g.ind)
    BY <1>2, <1>3, <1>4, <1>9, <2>1, BooksGive
  <2>3. g.blockmap = f.blockmap \ {b} /\ g.inodemap = f.inodemap
    BY <1>5, <1>6 DEF SameBut, SameFiles
  <2> QED
    BY <2>2, <2>3
<1>11. DiskInv(g)
  BY <1>3, <1>5, <1>6, <1>10 DEF DiskInv, Owned, SameBut, SameFiles, Counted
<1>12. /\ g.inodemap = e.inodemap /\ g.blk = e.blk
       /\ \A j \in Inodes \ {ridx} : g.ind[j] = e.ind[j]
  BY <1>2, <1>5, <1>6 DEF SameBut, SameFiles
<1>13. g.ind[ridx].mode = e.ind[ridx].mode /\ g.ind[ridx].size = e.ind[ridx].size
  BY <1>2, <1>5, <1>6 DEF SameFiles
<1>14. ASSUME NEW n \in 1 .. m - 1, n <= e.ind[ridx].blocks
       PROVE  g.ind[ridx].block[n] = e.ind[ridx].block[n]
  <2>1. n \in 1 .. m
    OBVIOUS
  <2> QED
    BY <1>2, <1>8, <1>14, <2>1
<1>15. g.ind[ridx].blocks = m - 1
  BY <1>2, <1>8
<1> QED
  BY <1>1, <1>11, <1>12, <1>13, <1>14, <1>15 DEF Resized

\* Resize folds Grow or Shrink, ext2_write folds Copy.
Gr == INSTANCE Lemmas WITH apply <- Grow
Sh == INSTANCE Lemmas WITH apply <- Shrink
Cp == INSTANCE Lemmas WITH apply <- Copy

\* The list gets the length that is needed, or the call fails; it does not fail if
\* there are the blocks and the room in the inode.
LEMMA ResizeTo ==
  ASSUME NEW e, DiskInv(e), NEW ridx \in e.inodemap, NEW need \in Nat
  PROVE  LET f == Resize(e, ridx, need)
             now == e.ind[ridx].blocks
         IN /\ f \in Disk /\ (f.wild \/ Resized(e, f, ridx, need))
            /\ now <= need /\ need <= NIndBlocks /\ need - now <= e.free_blocks
                 => ~ f.wild /\ f.free_blocks = e.free_blocks - (need - now)
<1> DEFINE now == e.ind[ridx].blocks
           f == Resize(e, ridx, need)
<1>1. /\ e \in Disk /\ ~ e.wild /\ now \in Nat /\ now \in 0 .. NIndBlocks /\ ridx \in Inodes
      /\ e.free_blocks \in Nat /\ NIndBlocks \in Nat
  BY DiskFields, RoomLeft, Sizes DEF DiskInv, Ind
<1>2. Resized(e, e, ridx, now)
  BY DEF Resized
<1> HIDE DEF now
<1>3. ASSUME now <= need
      PROVE  /\ f \in Disk /\ (f.wild \/ Resized(e, f, ridx, need))
             /\ need <= NIndBlocks /\ need - now <= e.free_blocks
                  => ~ f.wild /\ f.free_blocks = e.free_blocks - (need - now)
  <2> DEFINE n == need - now
             s == [i \in 1 .. need - now |-> now + i]
  <2>1. n \in Nat /\ DOMAIN s = 1 .. n /\ \A i \in 1 .. n : s[i] = now + i
    BY <1>1, <1>3
  <2>2. f = Gr!Fold(ridx, e, s)
    <3>1. f = FoldLeft(LAMBDA g, i : Grow(ridx, g, i), e, s)
      BY <1>3 DEF Resize, now
    <3> HIDE DEF f, s
    <3> QED
      BY <3>1 DEF FoldLeft, MapThenFoldSet, Max, Gr!Fold, Gr!FoldLeft, Gr!MapThenFoldSet,
                  Gr!Max
  <2> HIDE DEF s, f, n
  <2>3. PICK h : /\ h[0] = e /\ f = h[n]
                 /\ \A i \in 1 .. n : h[i] = Grow(ridx, h[i - 1], s[i])
    BY <2>1, <2>2, Gr!FoldTrace
  <2> DEFINE Ok(g, i) ==
               /\ g \in Disk /\ (g.wild \/ Resized(e, g, ridx, now + i))
               /\ now + i <= NIndBlocks /\ i <= e.free_blocks
                    => ~ g.wild /\ g.free_blocks = e.free_blocks - i
             S == {i \in 0 .. n : Ok(h[i], i)}
  <2>4. 0 \in S
    <3>1. now + 0 = now /\ e.free_blocks - 0 = e.free_blocks /\ 0 \in 0 .. n
      BY <1>1, <2>1
    <3> QED
      BY <1>1, <1>2, <2>3, <3>1
  <2>5. \A i \in S \cap (0 .. n - 1) : i + 1 \in S
    <3> SUFFICES ASSUME NEW i \in S, i \in 0 .. n - 1 PROVE Ok(h[i + 1], i + 1)
      BY <2>1
    <3> DEFINE g == h[i]
               m == now + i
               r == Grow(ridx, g, m + 1)
    <3>1. i \in Nat /\ i + 1 \in 1 .. n /\ m \in Nat /\ m + 1 = now + (i + 1) /\ m >= now
      BY <1>1, <2>1
    <3>2. h[i + 1] = r
      <4>1. (i + 1) - 1 = i
        BY <3>1
      <4> QED
        BY <2>1, <2>3, <3>1, <4>1
    <3>3. /\ g \in Disk /\ (g.wild \/ Resized(e, g, ridx, m))
          /\ m <= NIndBlocks /\ i <= e.free_blocks
               => ~ g.wild /\ g.free_blocks = e.free_blocks - i
      OBVIOUS
    <3> HIDE DEF g, m
    <3>4. /\ r \in Disk /\ (r.wild \/ Resized(e, r, ridx, m + 1))
          /\ ~ g.wild /\ m < NIndBlocks /\ g.free_blocks # 0
               => ~ r.wild /\ r.free_blocks = g.free_blocks - 1
      BY <1>1, <3>1, <3>3, GrowStep DEF now
    <3> HIDE DEF r
    <3>5. now + (i + 1) <= NIndBlocks /\ i + 1 <= e.free_blocks
            => ~ r.wild /\ r.free_blocks = e.free_blocks - (i + 1)
      <4> SUFFICES ASSUME m + 1 <= NIndBlocks, i + 1 <= e.free_blocks
                   PROVE  ~ r.wild /\ r.free_blocks = e.free_blocks - (i + 1)
        BY <3>1
      <4>1. m <= NIndBlocks /\ m < NIndBlocks /\ i <= e.free_blocks
        BY <1>1, <3>1
      <4>2. ~ g.wild /\ g.free_blocks = e.free_blocks - i
        BY <3>3, <4>1
      <4>3. g.free_blocks # 0
        BY <1>1, <3>1, <4>2
      <4> QED
        BY <1>1, <3>1, <3>4, <4>1, <4>2, <4>3
    <3> QED
      BY <3>1, <3>2, <3>4, <3>5
  <2>6. Ok(h[n], n)
    <3> HIDE DEF Ok
    <3>1. \A i \in 0 .. n : i \in S
      <4> HIDE DEF S
      <4> QED
        BY <2>1, <2>4, <2>5, UpTo
    <3> QED
      BY <2>1, <3>1
  <2>7. now + n = need
    BY <1>1 DEF n
  <2> QED
    BY <1>1, <2>3, <2>6, <2>7 DEF n
<1>4. ASSUME ~ now <= need PROVE Resized(e, f, ridx, need)
  <2> DEFINE n == now - need
             s == [i \in 1 .. now - need |-> now + 1 - i]
  <2>1. n \in Nat /\ DOMAIN s = 1 .. n /\ \A i \in 1 .. n : s[i] = now + 1 - i
    BY <1>1, <1>4
  <2>2. f = Sh!Fold(ridx, e, s)
    <3>1. f = FoldLeft(LAMBDA g, i : Shrink(ridx, g, i), e, s)
      BY <1>4 DEF Resize, now
    <3> HIDE DEF f, s
    <3> QED
      BY <3>1 DEF FoldLeft, MapThenFoldSet, Max, Sh!Fold, Sh!FoldLeft, Sh!MapThenFoldSet,
                  Sh!Max
  <2> HIDE DEF s, f, n
  <2>3. PICK h : /\ h[0] = e /\ f = h[n]
                 /\ \A i \in 1 .. n : h[i] = Shrink(ridx, h[i - 1], s[i])
    BY <2>1, <2>2, Sh!FoldTrace
  <2> DEFINE S == {i \in 0 .. n : Resized(e, h[i], ridx, now - i)}
  <2>4. 0 \in S
    <3>1. now - 0 = now /\ 0 \in 0 .. n
      BY <1>1, <2>1
    <3> QED
      BY <1>2, <2>3, <3>1
  <2>5. \A i \in S \cap (0 .. n - 1) : i + 1 \in S
    <3> SUFFICES ASSUME NEW i \in S, i \in 0 .. n - 1
                 PROVE  i + 1 \in 0 .. n /\ Resized(e, h[i + 1], ridx, now - (i + 1))
      OBVIOUS
    <3> DEFINE m == now - i
    <3>1. /\ i + 1 \in 1 .. n /\ (i + 1) - 1 = i /\ now + 1 - (i + 1) = m
          /\ m \in Nat \ {0} /\ m - 1 = now - (i + 1) /\ i + 1 \in 0 .. n
      BY <1>1, <2>1 DEF n
    <3>2. h[i + 1] = Shrink(ridx, h[i], m)
      BY <2>1, <2>3, <3>1
    <3>3. Resized(e, h[i], ridx, m)
      OBVIOUS
    <3> HIDE DEF m
    <3>4. Resized(e, Shrink(ridx, h[i], m), ridx, m - 1)
      BY <1>1, <3>1, <3>3, ShrinkStep
    <3> QED
      BY <3>1, <3>2, <3>4
  <2>6. n \in S
    <3>1. \A i \in 0 .. n : i \in S
      <4> HIDE DEF S
      <4> QED
        BY <2>1, <2>4, <2>5, UpTo
    <3> QED
      BY <2>1, <3>1
  <2>7. now - n = need
    BY <1>1 DEF n
  <2> QED
    BY <2>3, <2>6, <2>7
<1> HIDE DEF f
<1>5. CASE now <= need
  BY <1>3, <1>5 DEF f, now
<1>6. CASE ~ now <= need
  <2>1. f \in Disk
    BY <1>4, <1>6 DEF Resized, DiskInv
  <2> QED
    BY <1>4, <1>6, <2>1 DEF f, now
<1> QED
  BY <1>5, <1>6

\* What a write's parameters are.
Writes(w) ==
  /\ w = [ridx |-> w.ridx, offset |-> w.offset, buf |-> w.buf, ret |-> w.ret]
  /\ w.ridx \in Inodes /\ w.offset \in Nat /\ w.buf \in Seq(Str)
  /\ w.ret \in 0 .. Len(w.buf)

\* The cell that follows k cells of block n.
Pos(n, k) == (n - 1) * BlkSize + k

\* What Copy makes of cell k of block n, whose contents were d.
Copied(w, d, n, k) ==
  IF Pos(n, k) - w.offset \in 1 .. w.ret THEN w.buf[Pos(n, k) - w.offset] ELSE d[k]

\* Copy writes one block of the list (ext2fs.c:341-358).
LEMMA CopyStep ==
  ASSUME NEW w, Writes(w), NEW f \in Disk, NEW n \in 1 .. NIndBlocks
  PROVE  LET b == f.ind[w.ridx].block[n]
             g == Copy(w, f, n)
         IN /\ g \in Disk /\ g.ind = f.ind /\ b \in Blocks
            /\ g.blockmap = f.blockmap /\ g.free_blocks = f.free_blocks
            /\ g.inodemap = f.inodemap /\ g.free_inodes = f.free_inodes
            /\ g.wild = f.wild
            /\ \A c \in Blocks \ {b} : g.blk[c] = f.blk[c]
            /\ \A k \in 1 .. BlkSize :
                 g.blk[b].data[k] = Copied(w, f.blk[b].data, n, k)
<1> DEFINE b == f.ind[w.ridx].block[n]
           data == [k \in 1 .. BlkSize |-> Copied(w, f.blk[b].data, n, k)]
           g == wr_data(f, b, data)
<1>1. /\ w.ridx \in Inodes /\ f.ind[w.ridx] \in Ind /\ f.blk \in [Blocks -> Blk]
      /\ w.buf \in Seq(Str) /\ w.ret \in 0 .. Len(w.buf) /\ w.offset \in Nat
      /\ Len(w.buf) \in Nat
  BY DiskFields DEF Writes
<1>2. b \in Blocks
  BY <1>1 DEF Ind
<1>3. Copy(w, f, n) = g
  <2> DEFINE at(k) == (n - 1) * BlkSize + k - w.offset
             new == [k \in 1 .. BlkSize |->
                      IF at(k) \in 1 .. w.ret THEN w.buf[at(k)] ELSE f.blk[b].data[k]]
  <2>1. Copy(w, f, n) = wr_data(f, b, new)
    BY DEF Copy
  <2>2. \A k \in 1 .. BlkSize : new[k] = Copied(w, f.blk[b].data, n, k)
    <3> TAKE k \in 1 .. BlkSize
    <3>1. at(k) = Pos(n, k) - w.offset
      <4>1. (n - 1) * BlkSize \in Int /\ k \in Int /\ w.offset \in Int
        BY <1>1, Sizes
      <4> QED
        BY <4>1 DEF Pos
    <3> HIDE DEF at
    <3>2. new[k] = IF at(k) \in 1 .. w.ret THEN w.buf[at(k)] ELSE f.blk[b].data[k]
      OBVIOUS
    <3> HIDE DEF new, b
    <3> QED
      BY <3>1, <3>2 DEF Copied
  <2>3. new = data
    <3> HIDE DEF at
    <3> QED
      BY <2>2
  <2> QED
    BY <2>1, <2>3
<1> HIDE DEF b
<1>4. data \in DataBuf
  <2>1. f.blk[b].data \in DataBuf
    BY <1>1, <1>2 DEF Blk
  <2>2. \A k \in 1 .. BlkSize : Copied(w, f.blk[b].data, n, k) \in Str
    <3> TAKE k \in 1 .. BlkSize
    <3>1. \A x \in 1 .. w.ret : w.buf[x] \in Str
      BY <1>1
    <3>2. f.blk[b].data[k] \in Str
      BY <2>1 DEF DataBuf
    <3> QED
      BY <3>1, <3>2 DEF Copied
  <2> QED
    BY <2>2 DEF DataBuf
<1> HIDE DEF data
<1>5. /\ g \in Disk /\ g.ind = f.ind
      /\ g.blk = [f.blk EXCEPT ![b] = [dir |-> TextDir, data |-> data]]
      /\ g.blockmap = f.blockmap /\ g.free_blocks = f.free_blocks
      /\ g.inodemap = f.inodemap /\ g.free_inodes = f.free_inodes
      /\ g.wild = f.wild
  BY <1>2, <1>4, WrData
<1> HIDE DEF g
<1>6. /\ \A c \in Blocks \ {b} : g.blk[c] = f.blk[c]
      /\ g.blk[b].data = data
  BY <1>1, <1>2, <1>5
<1>7. \A k \in 1 .. BlkSize : data[k] = Copied(w, f.blk[b].data, n, k)
  BY DEF data
<1> QED
  BY <1>2, <1>3, <1>5, <1>6, <1>7 DEF b

\* Products with the block size are monotonic.
LEMMA Times ==
  ASSUME NEW m \in Int, NEW n \in Int, m <= n
  PROVE  m * BlkSize \in Int /\ n * BlkSize \in Int /\ m * BlkSize <= n * BlkSize
<1>1. BlkSize \in Nat \ {0}
  BY Sizes
<1>2. n - m \in Nat
  OBVIOUS
<1>3. (n - m) * BlkSize \in Nat /\ (n - m) * BlkSize = n * BlkSize - m * BlkSize
      /\ m * BlkSize \in Int /\ n * BlkSize \in Int
  BY <1>1, <1>2
<1> QED
  BY <1>3

\* The blocks that x cells need are enough, and the last one is not empty.
LEMMA NeedIs ==
  ASSUME NEW x \in Nat
  PROVE  /\ Need(x) \in Nat /\ x <= Need(x) * BlkSize
         /\ (Need(x) - 1) * BlkSize < x /\ Need(x) * BlkSize \in Int
         /\ (Need(x) - 1) * BlkSize \in Int /\ Need(x) * BlkSize = (Need(x) - 1) * BlkSize + BlkSize
<1> DEFINE y == x + BlkSize - 1
           n == y \div BlkSize
<1>1. BlkSize \in Nat \ {0} /\ y \in Int
  BY Sizes
<1>2. y % BlkSize \in 0 .. BlkSize - 1 /\ n \in Int /\ y = (BlkSize * n) + (y % BlkSize)
  <2> HIDE DEF y
  <2> QED
    BY <1>1, DivMod
<1> HIDE DEF n
<1>3. BlkSize * n = n * BlkSize /\ n * BlkSize \in Int /\ (n - 1) * BlkSize \in Int
      /\ n * BlkSize = (n - 1) * BlkSize + BlkSize
  BY <1>1, <1>2
<1>4. x <= n * BlkSize /\ n * BlkSize <= x + BlkSize - 1
  BY <1>1, <1>2, <1>3
<1>5. n >= 0
  <2> SUFFICES ASSUME n <= -1 PROVE FALSE
    BY <1>2
  <2>1. n * BlkSize <= (-1) * BlkSize
    BY <1>2, Times
  <2> QED
    BY <1>1, <1>3, <1>4, <2>1
<1>6. n = Need(x)
  BY DEF n, Need
<1> QED
  BY <1>1, <1>2, <1>3, <1>4, <1>5, <1>6

\* f is e with the blocks from the one after skip written.
AllCopied(w, e, f, skip) ==
  LET l == e.ind[w.ridx].block IN
  /\ f \in Disk /\ f.ind = e.ind
  /\ f.blockmap = e.blockmap /\ f.free_blocks = e.free_blocks
  /\ f.inodemap = e.inodemap /\ f.free_inodes = e.free_inodes
  /\ f.wild = e.wild
  /\ \A c \in Blocks \ Own(e.ind[w.ridx]) : f.blk[c] = e.blk[c]
  /\ \A m \in 1 .. e.ind[w.ridx].blocks : \A k \in 1 .. BlkSize :
       f.blk[l[m]].data[k] =
         IF m > skip THEN Copied(w, e.blk[l[m]].data, m, k)
         ELSE e.blk[l[m]].data[k]

\* The loop over the blocks writes them (ext2fs.c:341-358).
LEMMA CopyAllIs ==
  ASSUME NEW w, Writes(w), NEW e \in Disk, NEW skip \in Nat, NEW need \in Nat,
         e.ind[w.ridx].blocks = need, Distinct(e.ind[w.ridx])
  PROVE  AllCopied(w, e, CopyAll(w, e, skip, need), skip)
<1> DEFINE s == [n \in 1 .. need - skip |-> skip + n]
           f == FoldLeft(LAMBDA x, n : Copy(w, x, n), e, s)
           l == e.ind[w.ridx].block
           z == IF need > skip THEN need - skip ELSE 0
<1>0. z \in Nat /\ (need > skip => z = need - skip) /\ (~ need > skip => z = 0)
  OBVIOUS
<1>1. DOMAIN s = 1 .. z /\ \A i \in 1 .. z : s[i] = skip + i
  OBVIOUS
<1> HIDE DEF z
<1>2. f = Cp!Fold(w, e, s)
  <2> HIDE DEF s
  <2> QED
    BY DEF FoldLeft, MapThenFoldSet, Max, Cp!Fold, Cp!FoldLeft, Cp!MapThenFoldSet, Cp!Max
<1> HIDE DEF f, s
<1>3. PICK h : /\ h[0] = e /\ f = h[z]
               /\ \A i \in 1 .. z : h[i] = Copy(w, h[i - 1], s[i])
  BY <1>0, <1>1, <1>2, Cp!FoldTrace
<1>4. w.ridx \in Inodes /\ e.ind[w.ridx] \in Ind /\ need \in 0 .. NIndBlocks
  BY DiskFields DEF Writes, Ind
<1>5. \A m \in 1 .. need : m \in 1 .. NIndBlocks /\ l[m] \in Blocks /\ l[m] \in Own(e.ind[w.ridx])
  BY <1>4, Sizes DEF Ind, Own
<1>6. \A m, n \in 1 .. need : l[m] = l[n] => m = n
  BY DEF Distinct
<1> DEFINE Rest(g) == /\ g \in Disk /\ g.ind = e.ind
                      /\ g.blockmap = e.blockmap /\ g.free_blocks = e.free_blocks
                      /\ g.inodemap = e.inodemap /\ g.free_inodes = e.free_inodes
                      /\ g.wild = e.wild
           Out(g) == \A c \in Blocks \ Own(e.ind[w.ridx]) : g.blk[c] = e.blk[c]
           Cells(g, i) ==
             \A m \in 1 .. need : \A k \in 1 .. BlkSize :
               g.blk[l[m]].data[k] =
                 IF m > skip /\ m <= skip + i THEN Copied(w, e.blk[l[m]].data, m, k)
                 ELSE e.blk[l[m]].data[k]
           S == {i \in 0 .. z : Rest(h[i]) /\ Out(h[i]) /\ Cells(h[i], i)}
<1>7. 0 \in S
  <2>1. Rest(e) /\ Out(e) /\ 0 \in 0 .. z
    BY <1>0
  <2>2. Cells(e, 0)
    <3>1. \A m \in 1 .. need : ~ (m > skip /\ m <= skip + 0)
      OBVIOUS
    <3> QED
      BY <3>1
  <2> QED
    BY <1>3, <2>1, <2>2
<1>8. \A i \in S \cap (0 .. z - 1) : i + 1 \in S
  <2> SUFFICES ASSUME NEW i \in S, i \in 0 .. z - 1
               PROVE  i + 1 \in 0 .. z /\ Rest(h[i + 1]) /\ Out(h[i + 1]) /\ Cells(h[i + 1], i + 1)
    OBVIOUS
  <2> DEFINE g == h[i]
             n == skip + (i + 1)
             r == Copy(w, g, n)
             b == l[n]
  <2>0. i \in Nat /\ i <= z - 1 /\ z \in Nat /\ z >= 1
    <3> HIDE DEF S
    <3>1. i \in 0 .. z - 1 /\ z \in Nat
      BY <1>0
    <3> QED
      BY <3>1
  <2>1. i + 1 \in 1 .. z /\ (i + 1) - 1 = i /\ n \in 1 .. need /\ i + 1 \in 0 .. z /\ n > skip
        /\ i \in Nat /\ n \in Nat
    <3> HIDE DEF S
    <3>1. need > skip /\ z = need - skip
      BY <1>0, <2>0
    <3> QED
      BY <2>0, <3>1
  <2>2. h[i + 1] = r
    <3> HIDE DEF S, r, g, n, Rest, Out, Cells
    <3>1. s[i + 1] = n
      BY <1>1, <2>1 DEF n
    <3>2. h[i + 1] = Copy(w, h[(i + 1) - 1], s[i + 1])
      BY <1>3, <2>1
    <3>3. h[i + 1] = Copy(w, g, n)
      BY <2>1, <3>1, <3>2 DEF g
    <3> QED
      BY <3>3 DEF r
  <2>3. Rest(g) /\ Out(g) /\ Cells(g, i)
    OBVIOUS
  <2> HIDE DEF g, S
  <2>3a. n = skip + (i + 1)
    OBVIOUS
  <2> HIDE DEF n, r
  <2>4. /\ r \in Disk /\ r.ind = g.ind /\ b \in Blocks
        /\ r.blockmap = g.blockmap /\ r.free_blocks = g.free_blocks
        /\ r.inodemap = g.inodemap /\ r.free_inodes = g.free_inodes
        /\ r.wild = g.wild
        /\ \A c \in Blocks \ {b} : r.blk[c] = g.blk[c]
        /\ \A k \in 1 .. BlkSize : r.blk[b].data[k] = Copied(w, g.blk[b].data, n, k)
    <3>1. g \in Disk /\ n \in 1 .. NIndBlocks /\ g.ind[w.ridx].block[n] = b
      BY <1>5, <2>1, <2>3
    <3> HIDE DEF b, Rest, Out, Cells
    <3>2. r = Copy(w, g, n)
      BY DEF r
    <3> DEFINE Step(x, bb) ==
                 /\ x \in Disk /\ x.ind = g.ind /\ bb \in Blocks
                 /\ x.blockmap = g.blockmap /\ x.free_blocks = g.free_blocks
                 /\ x.inodemap = g.inodemap /\ x.free_inodes = g.free_inodes
                 /\ x.wild = g.wild
                 /\ \A c \in Blocks \ {bb} : x.blk[c] = g.blk[c]
                 /\ \A k \in 1 .. BlkSize :
                      x.blk[bb].data[k] = Copied(w, g.blk[bb].data, n, k)
    <3>3. Step(Copy(w, g, n), g.ind[w.ridx].block[n])
      BY <3>1, CopyStep
    <3> HIDE DEF Step
    <3>4. Step(r, b)
      BY <3>1, <3>2, <3>3
    <3> QED
      BY <3>4 DEF Step
  <2>5. Rest(r)
    BY <2>3, <2>4
  <2>6. Out(r)
    <3>1. b \in Own(e.ind[w.ridx])
      BY <1>5, <2>1
    <3> HIDE DEF b
    <3> QED
      BY <2>3, <2>4, <3>1
  <2>7. Cells(r, i + 1)
    <3> SUFFICES ASSUME NEW m \in 1 .. need, NEW k \in 1 .. BlkSize
                 PROVE  r.blk[l[m]].data[k] =
                          IF m > skip /\ m <= skip + (i + 1)
                          THEN Copied(w, e.blk[l[m]].data, m, k)
                          ELSE e.blk[l[m]].data[k]
      OBVIOUS
    <3>1. CASE m = n
      <4>1. ~ (m > skip /\ m <= skip + i) /\ m > skip /\ m <= skip + (i + 1)
        BY <2>1, <2>3a, <3>1
      <4>2. g.blk[b].data[k] = e.blk[b].data[k]
        <5>1. g.blk[l[m]].data[k] =
                 IF m > skip /\ m <= skip + i THEN Copied(w, e.blk[l[m]].data, m, k)
                 ELSE e.blk[l[m]].data[k]
          BY <2>3
        <5> QED
          BY <3>1, <4>1, <5>1
      <4>3. Copied(w, g.blk[b].data, n, k) = Copied(w, e.blk[b].data, n, k)
        BY <4>2 DEF Copied
      <4> QED
        BY <2>4, <3>1, <4>1, <4>3
    <3>2. CASE m # n
      <4>1. l[m] \in Blocks \ {b}
        BY <1>5, <1>6, <2>1, <3>2
      <4>2. m > skip /\ m <= skip + (i + 1) <=> m > skip /\ m <= skip + i
        BY <2>1, <2>3a, <3>2
      <4>3. r.blk[l[m]] = g.blk[l[m]]
        BY <2>4, <4>1
      <4>4. g.blk[l[m]].data[k] =
               IF m > skip /\ m <= skip + i THEN Copied(w, e.blk[l[m]].data, m, k)
               ELSE e.blk[l[m]].data[k]
        BY <2>3
      <4> HIDE DEF l
      <4> QED
        BY <4>2, <4>3, <4>4
    <3> QED
      BY <3>1, <3>2
  <2> QED
    BY <2>1, <2>2, <2>5, <2>6, <2>7
<1>9. z \in S
  <2>1. \A i \in 0 .. z : i \in S
    <3> HIDE DEF S
    <3> QED
      BY <1>0, <1>7, <1>8, UpTo
  <2>2. z \in 0 .. z
    BY <1>0
  <2> HIDE DEF S
  <2> QED
    BY <2>1, <2>2
<1>10. Rest(f) /\ Out(f) /\ Cells(f, z)
  BY <1>3, <1>9
<1>11. \A m \in 1 .. need : (m > skip /\ m <= skip + z) <=> m > skip
  BY <1>0
<1>12. \A m \in 1 .. need : \A k \in 1 .. BlkSize :
         f.blk[l[m]].data[k] = IF m > skip THEN Copied(w, e.blk[l[m]].data, m, k)
                               ELSE e.blk[l[m]].data[k]
  BY <1>10, <1>11
<1> QED
  <2>1. f = CopyAll(w, e, skip, need)
    BY DEF f, s, CopyAll
  <2>2. AllCopied(w, e, f, skip)
    BY <1>10, <1>12 DEF AllCopied
  <2> QED
    BY <2>1, <2>2

\* Half of a number of cells is no more than all of them.
LEMMA HalfIs ==
  ASSUME NEW n \in Nat
  PROVE  Half(n) \in 0 .. n
<1>1. /\ (n + 1) % 2 \in 0 .. 1 /\ (n + 1) \div 2 \in Int
      /\ n + 1 = (2 * ((n + 1) \div 2)) + ((n + 1) % 2)
  BY DivMod
<1> QED
  BY <1>1 DEF Half

\* What ext2_write makes of offset, buf and the number of cells copied.
Writing(ridx, offset, buf, ret) ==
  [ridx |-> ridx, offset |-> offset, buf |-> buf, ret |-> ret]
Wrote(e, f, w) ==
  LET ind == f.ind[w.ridx] IN
  /\ DiskInv(f) /\ f.inodemap = e.inodemap /\ w.ret \in 0 .. Len(w.buf)
  /\ \A i \in Inodes \ {w.ridx} : f.ind[i] = e.ind[i]
  /\ ind.mode = e.ind[w.ridx].mode
  /\ ind.size = w.offset + Len(w.buf) /\ ind.blocks = Need(ind.size)
  /\ \A c \in Blocks \ Own(ind) : f.blk[c] = e.blk[c]
  /\ \A n \in 1 .. ind.blocks : \A k \in 1 .. BlkSize :
       f.blk[ind.block[n]].data[k] = Copied(w, e.blk[ind.block[n]].data, n, k)
  /\ \A n \in 1 .. ind.blocks : n <= e.ind[w.ridx].blocks
                                  => ind.block[n] = e.ind[w.ridx].block[n]
  /\ w.ret < Len(w.buf) => BlkSize <= w.offset + w.ret

\* All of the cells are copied, or as many as lie before the last block and half of
\* the rest.
LEMMA CopiedIs ==
  ASSUME NEW offset \in Nat, NEW len \in Nat
  PROVE  /\ CopiedOf(offset, len) \in 0 .. len
         /\ CopiedOf(offset, len) < len => BlkSize <= offset + CopiedOf(offset, len)
<1> DEFINE need == Need(offset + len)
           skip == offset \div BlkSize
           done == (need - 1) * BlkSize - offset
<1>1. BlkSize \in Nat \ {0}
  BY Sizes
<1>2. skip \in Int /\ offset % BlkSize \in 0 .. BlkSize - 1
      /\ offset = (BlkSize * skip) + (offset % BlkSize)
  BY <1>1, DivMod
<1>3. need \in Nat /\ (need - 1) * BlkSize < offset + len /\ (need - 1) * BlkSize \in Int
  <2>1. offset + len \in Nat
    OBVIOUS
  <2> QED
    BY <2>1, NeedIs
<1> HIDE DEF need, skip
<1>4. skip >= 0
  <2> SUFFICES ASSUME skip <= -1 PROVE FALSE
    BY <1>2
  <2>1. skip * BlkSize <= (-1) * BlkSize /\ skip * BlkSize \in Int
    BY <1>2, Times
  <2>2. skip * BlkSize = BlkSize * skip
    BY <1>1, <1>2
  <2> QED
    BY <1>1, <1>2, <2>1, <2>2
<1>5. CASE need > skip + 1
  <2>1. (skip + 1) * BlkSize <= (need - 1) * BlkSize /\ (skip + 1) * BlkSize \in Int
    BY <1>2, <1>3, <1>5, Times
  <2>2. (skip + 1) * BlkSize = (BlkSize * skip) + BlkSize
    BY <1>1, <1>2
  <2>3. 1 * BlkSize <= (need - 1) * BlkSize /\ 1 * BlkSize = BlkSize
    BY <1>1, <1>2, <1>3, <1>4, <1>5, Times
  <2> DEFINE x == (need - 1) * BlkSize
  <2> HIDE DEF x
  <2>4. x \in Int /\ x < offset + len /\ BlkSize <= x /\ x > offset
    BY <1>1, <1>2, <1>3, <2>1, <2>2, <2>3 DEF x
  <2>5. x - offset \in Nat /\ len - (x - offset) \in Nat
    BY <2>4
  <2>6. Half(len - (x - offset)) \in 0 .. len - (x - offset)
    BY <2>5, HalfIs
  <2>7. CopiedOf(offset, len) = (x - offset) + Half(len - (x - offset))
    BY <1>5 DEF CopiedOf, x, need, skip
  <2> QED
    BY <1>1, <2>4, <2>5, <2>6, <2>7
<1>6. CASE ~ need > skip + 1
  <2>1. CopiedOf(offset, len) = len
    BY <1>6 DEF CopiedOf, need, skip
  <2> QED
    BY <2>1
<1> QED
  BY <1>5, <1>6

\* ext2_write (ext2fs.c:319-367): the file's blocks hold the cells copied and, for the
\* rest, what they held; no other block changes.  It succeeds if there is room.
LEMMA WriteKeeps ==
  ASSUME NEW e, DiskInv(e), NEW ridx \in e.inodemap, "WR" \in e.ind[ridx].mode,
         NEW offset \in Nat, NEW buf \in Seq(Str)
  PROVE  LET x == ext2_write(e, ridx, offset, buf)
             need == Need(offset + Len(buf))
             now == e.ind[ridx].blocks
         IN /\ ~ x.e.wild => Wrote(e, x.e, Writing(ridx, offset, buf, x.ret))
            /\ now <= need /\ need <= NIndBlocks /\ need - now <= e.free_blocks
                 => ~ x.e.wild /\ x.e.free_blocks = e.free_blocks - (need - now)
<1> DEFINE len == Len(buf)
           skip == offset \div BlkSize
           need == Need(offset + len)
           now == e.ind[ridx].blocks
           ret == CopiedOf(offset, len)
           g == Resize(e, ridx, need)
           w == Writing(ridx, offset, buf, ret)
           f == CopyAll(w, g, skip, need)
           h == [f EXCEPT !.ind[ridx].size = offset + len]
           x == ext2_write(e, ridx, offset, buf)
<1>1. e \in Disk /\ ridx \in Inodes /\ len \in Nat /\ BlkSize \in Nat \ {0}
      /\ offset + len \in Nat
  BY DiskFields, Sizes DEF DiskInv
<1>2. /\ g.wild => x.e.wild
      /\ ~ g.wild => x.e = h /\ x.ret = ret
  <2>2. ext2_write(e, ridx, offset, buf) =
          IF "WR" \notin e.ind[ridx].mode THEN [e |-> e, ret |-> 0]
          ELSE IF g.wild THEN [e |-> g, ret |-> 0] ELSE [e |-> h, ret |-> ret]
    BY Zenon DEF ext2_write, Writing
  <2> HIDE DEF g, h, ret, x
  <2> QED
    BY <2>2 DEF x
<1>3. need \in Nat
  <2> HIDE DEF len
  <2> QED
    BY <1>1, NeedIs
<1>4. /\ g \in Disk /\ (g.wild \/ Resized(e, g, ridx, need))
      /\ now <= need /\ need <= NIndBlocks /\ need - now <= e.free_blocks
           => ~ g.wild /\ g.free_blocks = e.free_blocks - (need - now)
  <2> HIDE DEF need
  <2> QED
    BY <1>3, ResizeTo
<1>5. skip \in Int /\ offset % BlkSize \in 0 .. BlkSize - 1
      /\ offset = (BlkSize * skip) + (offset % BlkSize)
  BY <1>1, DivMod
<1>6. skip \in Nat
  <2> HIDE DEF skip
  <2> SUFFICES ASSUME skip <= -1 PROVE FALSE
    BY <1>5
  <2>1. skip * BlkSize <= (-1) * BlkSize /\ skip * BlkSize \in Int
    BY <1>5, Times
  <2>2. skip * BlkSize = BlkSize * skip
    BY <1>1, <1>5
  <2> QED
    BY <1>1, <1>5, <2>1, <2>2
<1>7. /\ ret \in 0 .. len
      /\ ret < len => BlkSize <= offset + ret
  <2> HIDE DEF len
  <2> QED
    BY <1>1, CopiedIs
<1> HIDE DEF ret
<1>8. w.ridx = ridx /\ w.offset = offset /\ w.buf = buf /\ w.ret = ret
  BY DEF Writing
<1>9. Writes(w)
  BY <1>1, <1>7, <1>8 DEF Writes, Writing
<1> HIDE DEF w, x, need, skip, g, h, f, len
<1>10. ASSUME ~ g.wild
       PROVE  Wrote(e, h, w) /\ ~ h.wild /\ h.free_blocks = g.free_blocks
  <2>1. Resized(e, g, ridx, need)
    BY <1>4, <1>10
  <2>2. /\ DiskInv(g) /\ g.inodemap = e.inodemap /\ g.blk = e.blk
        /\ \A i \in Inodes \ {ridx} : g.ind[i] = e.ind[i]
        /\ g.ind[ridx].mode = e.ind[ridx].mode
        /\ g.ind[ridx].blocks = need
        /\ \A n \in 1 .. need : n <= now => g.ind[ridx].block[n] = e.ind[ridx].block[n]
    BY <2>1 DEF Resized
  <2>3. Distinct(g.ind[ridx]) /\ g \in Disk /\ Counted(g)
        /\ Books(g.blockmap, g.inodemap, g.ind)
    BY <2>2 DEF DiskInv, Owned, Books
  <2> DEFINE l == g.ind[ridx].block
  <2>4. /\ f \in Disk /\ f.ind = g.ind
        /\ f.blockmap = g.blockmap /\ f.free_blocks = g.free_blocks
        /\ f.inodemap = g.inodemap /\ f.free_inodes = g.free_inodes
        /\ f.wild = g.wild
        /\ \A c \in Blocks \ Own(g.ind[ridx]) : f.blk[c] = g.blk[c]
        /\ \A m \in 1 .. need : \A k \in 1 .. BlkSize :
             f.blk[l[m]].data[k] =
               IF m > skip THEN Copied(w, g.blk[l[m]].data, m, k)
               ELSE g.blk[l[m]].data[k]
    <3> DEFINE k == w.ridx
    <3>1. k = ridx
      BY <1>8
    <3>2. g.ind[w.ridx].blocks = need /\ Distinct(g.ind[w.ridx])
      BY <2>2, <2>3, <3>1
    <3>2a. g \in Disk /\ skip \in Nat /\ need \in Nat /\ Writes(w)
      BY <1>3, <1>6, <1>9, <2>3
    <3>3. AllCopied(w, g, f, skip)
      BY <3>2, <3>2a, CopyAllIs DEF f
    <3> DEFINE Whole(j, m0) ==
                 /\ f \in Disk /\ f.ind = g.ind
                 /\ f.blockmap = g.blockmap /\ f.free_blocks = g.free_blocks
                 /\ f.inodemap = g.inodemap /\ f.free_inodes = g.free_inodes
                 /\ f.wild = g.wild
                 /\ \A c \in Blocks \ Own(g.ind[j]) : f.blk[c] = g.blk[c]
                 /\ \A m \in 1 .. m0 : \A i \in 1 .. BlkSize :
                      f.blk[g.ind[j].block[m]].data[i] =
                        IF m > skip THEN Copied(w, g.blk[g.ind[j].block[m]].data, m, i)
                        ELSE g.blk[g.ind[j].block[m]].data[i]
    <3> HIDE DEF k, f, g
    <3>4. Whole(w.ridx, g.ind[w.ridx].blocks)
      BY <3>3, Zenon DEF AllCopied
    <3> HIDE DEF Whole
    <3>5. Whole(ridx, need)
      BY <3>1, <3>2, <3>4 DEF k
    <3> QED
      BY <3>5, Zenon DEF Whole
  <2> HIDE DEF l
  <2>5. \A m \in 1 .. need : \A k \in 1 .. BlkSize :
          f.blk[l[m]].data[k] = Copied(w, e.blk[l[m]].data, m, k)
    <3> SUFFICES ASSUME NEW m \in 1 .. need, NEW k \in 1 .. BlkSize
                 PROVE  f.blk[l[m]].data[k] = Copied(w, e.blk[l[m]].data, m, k)
      OBVIOUS
    <3>1. CASE m > skip
      BY <2>2, <2>4, <3>1
    <3>2. CASE ~ m > skip
      <4>1. (m - 1) * BlkSize <= (skip - 1) * BlkSize /\ (m - 1) * BlkSize \in Int
            /\ (skip - 1) * BlkSize \in Int
        <5> HIDE DEF skip, need
        <5>1. m - 1 \in Int /\ skip - 1 \in Int /\ m - 1 <= skip - 1
          BY <1>3, <1>6, <3>2
        <5> DEFINE m1 == m - 1
                   k1 == skip - 1
        <5> HIDE DEF m1, k1
        <5>2. m1 * BlkSize <= k1 * BlkSize /\ m1 * BlkSize \in Int /\ k1 * BlkSize \in Int
          <6>1. m1 \in Int /\ k1 \in Int /\ m1 <= k1
            BY <5>1 DEF m1, k1
          <6> QED
            BY <6>1, Times
        <5> QED
          BY <5>2 DEF m1, k1
      <4>2. (skip - 1) * BlkSize = (BlkSize * skip) - BlkSize
        BY <1>1, <1>6
      <4>3. Pos(m, k) <= offset /\ Pos(m, k) \in Int
        BY <1>1, <1>5, <4>1, <4>2 DEF Pos
      <4>4. ~ (Pos(m, k) - offset \in 1 .. ret)
        BY <4>3
      <4> QED
        BY <1>8, <2>2, <2>4, <3>2, <4>4 DEF Copied
    <3> QED
      BY <3>1, <3>2
  <2>6. offset + len \in Int /\ f \in Disk
    BY <1>1, <2>4
  <2>7. /\ h \in Disk /\ SameBut(f, h, ridx)
        /\ h.ind[ridx].size = offset + len /\ h.ind[ridx].mode = f.ind[ridx].mode
        /\ h.ind[ridx].blocks = f.ind[ridx].blocks /\ h.ind[ridx].block = f.ind[ridx].block
    BY <1>1, <2>6, SetSize DEF h
  <2>8. SameList(g.ind[ridx], h.ind[ridx])
    BY <2>4, <2>7 DEF SameList
  <2>9. \A i \in h.inodemap : SameList(g.ind[i], h.ind[i])
    <3>1. \A i \in Inodes \ {ridx} : h.ind[i] = g.ind[i]
      BY <2>4, <2>7 DEF SameBut
    <3>2. h.inodemap \subseteq Inodes
      BY <2>7, DiskFields
    <3> QED
      BY <2>8, <3>1, <3>2 DEF SameList
  <2>10. h.inodemap = g.inodemap /\ h.blockmap = g.blockmap /\ h.wild = g.wild
         /\ h.free_blocks = g.free_blocks /\ h.free_inodes = g.free_inodes /\ h.blk = f.blk
    BY <2>4, <2>7 DEF SameBut
  <2>11. Owned(h)
    BY <2>3, <2>9, <2>10, BooksSame DEF Owned
  <2>12. Counted(h)
    BY <2>3, <2>10 DEF Counted
  <2>13. DiskInv(h)
    BY <1>10, <2>7, <2>10, <2>11, <2>12 DEF DiskInv
  <2>14. Own(h.ind[ridx]) = Own(g.ind[ridx])
    BY <2>8, SameOwn
  <2>15. h.ind[ridx].block = l /\ h.ind[ridx].blocks = need /\ need = Need(h.ind[ridx].size)
    BY <2>2, <2>4, <2>7 DEF l, need
  <2>16. \A i \in Inodes \ {ridx} : h.ind[i] = e.ind[i]
    BY <2>2, <2>4, <2>7 DEF SameBut
  <2>17. Wrote(e, h, w)
    <3>1. \A c \in Blocks \ Own(h.ind[ridx]) : h.blk[c] = e.blk[c]
      BY <2>2, <2>4, <2>10, <2>14
    <3>2. \A n \in 1 .. need : \A k \in 1 .. BlkSize :
            h.blk[h.ind[ridx].block[n]].data[k]
              = Copied(w, e.blk[h.ind[ridx].block[n]].data, n, k)
      BY <2>5, <2>10, <2>15
    <3>3. \A n \in 1 .. need : n <= now => h.ind[ridx].block[n] = e.ind[ridx].block[n]
      BY <2>2, <2>15 DEF l
    <3>4. h.ind[ridx].mode = e.ind[ridx].mode /\ h.inodemap = e.inodemap
      BY <2>2, <2>4, <2>7, <2>10
    <3>5. h.ind[ridx].size = w.offset + Len(w.buf)
      BY <1>8, <2>7 DEF len
    <3>6. w.ret \in 0 .. Len(w.buf) /\ (w.ret < Len(w.buf) => BlkSize <= w.offset + w.ret)
      BY <1>7, <1>8 DEF len
    <3> QED
      BY <1>8, <2>13, <2>15, <2>16, <3>1, <3>2, <3>3, <3>4, <3>5, <3>6 DEF Wrote
  <2> QED
    BY <1>10, <2>10, <2>17
<1>11. /\ ~ x.e.wild => Wrote(e, x.e, Writing(ridx, offset, buf, x.ret))
       /\ now <= need /\ need <= NIndBlocks /\ need - now <= e.free_blocks
            => ~ x.e.wild /\ x.e.free_blocks = e.free_blocks - (need - now)
  <2>1. CASE g.wild
    BY <1>2, <1>4, <2>1
  <2>2. CASE ~ g.wild
    <3>1. x.e = h /\ x.ret = ret /\ Wrote(e, h, w) /\ ~ h.wild /\ h.free_blocks = g.free_blocks
      BY <1>2, <1>10, <2>2
    <3>2. w = Writing(ridx, offset, buf, x.ret)
      BY <3>1 DEF w
    <3> QED
      BY <1>4, <3>1, <3>2
  <2> QED
    BY <2>1, <2>2
<1> QED
  BY <1>11 DEF x, need, len

(***************************************************************************)
(* What the files hold.                                                    *)
(***************************************************************************)
\* Where cell k of a file lies.
CellBlock(k) == 1 + ((k - 1) \div BlkSize)
CellPlace(k) == 1 + ((k - 1) % BlkSize)

\* Every cell lies at one place of one block.
LEMMA CellIs ==
  ASSUME NEW k \in Nat \ {0}
  PROVE  /\ CellBlock(k) \in Nat \ {0} /\ CellPlace(k) \in 1 .. BlkSize
         /\ Pos(CellBlock(k), CellPlace(k)) = k
         /\ \A m \in Nat : k <= m * BlkSize => CellBlock(k) <= m
         /\ k <= BlkSize => CellBlock(k) = 1 /\ CellPlace(k) = k
<1> DEFINE q == (k - 1) \div BlkSize
           r == (k - 1) % BlkSize
<1>1. BlkSize \in Nat \ {0} /\ k - 1 \in Int
  BY Sizes
<1>2. r \in 0 .. BlkSize - 1 /\ q \in Int /\ k - 1 = (BlkSize * q) + r
  BY <1>1, DivMod
<1> HIDE DEF q, r
<1>3. BlkSize * q = q * BlkSize /\ q * BlkSize \in Int
  BY <1>1, <1>2
<1>4. q >= 0
  <2> SUFFICES ASSUME q <= -1 PROVE FALSE
    BY <1>2
  <2>1. q * BlkSize <= (-1) * BlkSize
    BY <1>2, Times
  <2> QED
    BY <1>1, <1>2, <1>3, <2>1
<1>5. CellBlock(k) = q + 1 /\ CellPlace(k) = r + 1
  BY <1>2 DEF CellBlock, CellPlace, q, r
<1>6. Pos(CellBlock(k), CellPlace(k)) = k
  <2>1. (q + 1) - 1 = q
    BY <1>2
  <2> QED
    BY <1>1, <1>2, <1>3, <1>5, <2>1 DEF Pos
<1>7. ASSUME NEW m \in Nat, k <= m * BlkSize, CellBlock(k) > m PROVE FALSE
  <2>1. m * BlkSize <= q * BlkSize /\ m * BlkSize \in Int
    BY <1>2, <1>5, <1>7, Times
  <2> QED
    BY <1>1, <1>2, <1>3, <1>7, <2>1
<1>7a. \A m \in Nat : k <= m * BlkSize => CellBlock(k) <= m
  <2>1. CellBlock(k) \in Int
    BY <1>2, <1>5
  <2> QED
    BY <1>7, <2>1
<1>8. ASSUME k <= BlkSize PROVE q = 0
  <2>1. ASSUME q >= 1 PROVE FALSE
    <3>1. 1 * BlkSize <= q * BlkSize
      BY <1>2, <2>1, Times
    <3> QED
      BY <1>1, <1>2, <1>3, <1>8, <3>1
  <2> QED
    BY <1>2, <1>4, <2>1
<1>9. k <= BlkSize => CellBlock(k) = 1 /\ CellPlace(k) = k
  <2> SUFFICES ASSUME k <= BlkSize PROVE CellBlock(k) = 1 /\ CellPlace(k) = k
    OBVIOUS
  <2>1. q = 0 /\ BlkSize * q = 0
    BY <1>1, <1>8
  <2> QED
    BY <1>2, <1>5, <2>1
<1>10. CellBlock(k) \in Nat \ {0} /\ CellPlace(k) \in 1 .. BlkSize
  BY <1>1, <1>2, <1>4, <1>5
<1> QED
  BY <1>6, <1>7a, <1>9, <1>10

\* t is what has been written to the file of inode ind; half says whether a write has
\* lost cells beyond the first block.
TextOf(e, ind, t, half) ==
  /\ ind.size \in Nat /\ ind.blocks = Need(ind.size)
  /\ t \in Seq(Str) /\ Len(t) = ind.size
  /\ \A k \in 1 .. ind.size :
       k <= BlkSize \/ ~ half => t[k] \in {Cell(e, ind, k), Stray}

IsFile(e, i) == "FILE" \in e.ind[i].mode

TextInv(e, t, half) ==
  \A i \in e.inodemap : IsFile(e, i) => TextOf(e, e.ind[i], t[i], half)

\* The cells of a file lie in its blocks.
LEMMA CellIn ==
  ASSUME NEW e \in Disk, NEW i \in Inodes, e.ind[i].size \in Nat,
         e.ind[i].blocks = Need(e.ind[i].size), NEW k \in 1 .. e.ind[i].size
  PROVE  /\ CellBlock(k) \in 1 .. e.ind[i].blocks /\ CellPlace(k) \in 1 .. BlkSize
         /\ e.ind[i].block[CellBlock(k)] \in Own(e.ind[i]) \cap Blocks
         /\ Cell(e, e.ind[i], k) = e.blk[e.ind[i].block[CellBlock(k)]].data[CellPlace(k)]
<1> DEFINE ind == e.ind[i]
           n == ind.blocks
           c == CellBlock(k)
<1>1. ind \in Ind /\ n \in 0 .. NIndBlocks /\ ind.block \in [1 .. NIndBlocks -> Blocks]
      /\ NIndBlocks \in Nat
  BY DiskFields, Sizes DEF Ind
<1>2. n \in Nat /\ ind.size <= n * BlkSize /\ n * BlkSize \in Int
  BY NeedIs
<1>3. k \in Nat \ {0} /\ k <= n * BlkSize
  <2>1. k <= ind.size
    OBVIOUS
  <2> QED
    BY <1>2, <2>1
<1>4. c \in Nat \ {0} /\ CellPlace(k) \in 1 .. BlkSize /\ c <= n
  BY <1>2, <1>3, CellIs
<1>5. Cell(e, e.ind[i], k) = e.blk[e.ind[i].block[CellBlock(k)]].data[CellPlace(k)]
  BY DEF Cell, CellBlock, CellPlace
<1> HIDE DEF c
<1>6. c \in 1 .. n /\ c \in 1 .. NIndBlocks
  BY <1>1, <1>4
<1>7. ind.block[c] \in Own(ind) /\ ind.block[c] \in Blocks
  BY <1>1, <1>6 DEF Own
<1> QED
  BY <1>4, <1>5, <1>6, <1>7 DEF c

\* A file whose inode and blocks are the same holds the same.
LEMMA TextSame ==
  ASSUME NEW e \in Disk, NEW f \in Disk, NEW i \in Inodes, f.ind[i] = e.ind[i],
         \A b \in Own(e.ind[i]) : f.blk[b] = e.blk[b], NEW t, NEW half,
         TextOf(e, e.ind[i], t, half)
  PROVE  TextOf(f, f.ind[i], t, half)
<1> DEFINE ind == e.ind[i]
<1>1. ind.size \in Nat /\ ind.blocks = Need(ind.size)
  BY DEF TextOf
<1>2. ASSUME NEW k \in 1 .. ind.size PROVE Cell(f, ind, k) = Cell(e, ind, k)
  <2>1. /\ ind.block[CellBlock(k)] \in Own(ind)
        /\ Cell(e, ind, k) = e.blk[ind.block[CellBlock(k)]].data[CellPlace(k)]
    BY <1>1, CellIn
  <2>2. Cell(f, ind, k) = f.blk[ind.block[CellBlock(k)]].data[CellPlace(k)]
    BY DEF Cell, CellBlock, CellPlace
  <2> QED
    BY <2>1, <2>2
<1> QED
  BY <1>2 DEF TextOf

\* What vfs_write makes of the text.
Over(t, off, text) ==
  [k \in 1 .. off + Len(text) |->
     IF k > off THEN text[k - off] ELSE IF k <= Len(t) THEN t[k] ELSE Stray]

\* It is a text, as long as the write reaches.
LEMMA OverIs ==
  ASSUME NEW t \in Seq(Str), NEW off \in Nat, NEW text \in Seq(Str)
  PROVE  /\ Over(t, off, text) \in Seq(Str) /\ Len(Over(t, off, text)) = off + Len(text)
<1> DEFINE n == off + Len(text)
           g(k) == IF k > off THEN text[k - off] ELSE IF k <= Len(t) THEN t[k] ELSE Stray
<1>1. n \in Nat /\ Len(text) \in Nat /\ Len(t) \in Nat
  OBVIOUS
<1>2. Over(t, off, text) = [k \in 1 .. n |-> g(k)]
  BY DEF Over
<1>3. \A k \in 1 .. n : g(k) \in Str
  <2> TAKE k \in 1 .. n
  <2>1. CASE k > off
    <3>1. k - off \in 1 .. Len(text)
      BY <1>1, <2>1
    <3> QED
      BY <2>1, <3>1
  <2>2. CASE ~ k > off /\ k <= Len(t)
    <3>1. k \in 1 .. Len(t)
      BY <1>1, <2>2
    <3>2. t[k] \in Str
      BY <3>1
    <3> QED
      BY <2>2, <3>2
  <2>3. CASE ~ k > off /\ ~ k <= Len(t)
    <3>1. Stray \in Str
      BY DEF Str
    <3> QED
      BY <2>3, <3>1
  <2> QED
    BY <2>1, <2>2, <2>3
<1> HIDE DEF g, n
<1>4. [k \in 1 .. n |-> g(k)] \in [1 .. n -> Str]
  BY <1>3
<1> QED
  BY <1>1, <1>2, <1>4 DEF n

\* A write keeps what was written: beyond the first block, unless it copies less than
\* it was given.
LEMMA WriteText ==
  ASSUME NEW e, DiskInv(e), NEW w, Writes(w), w.ridx \in e.inodemap, NEW f, Wrote(e, f, w),
         NEW half, NEW t, TextOf(e, e.ind[w.ridx], t, half)
  PROVE  TextOf(f, f.ind[w.ridx], Over(t, w.offset, w.buf), half \/ w.ret < Len(w.buf))
<1> DEFINE old == e.ind[w.ridx]
           ind == f.ind[w.ridx]
           off == w.offset
           len == Len(w.buf)
           o == Over(t, off, w.buf)
<1>1. /\ off \in Nat /\ len \in Nat /\ w.buf \in Seq(Str) /\ w.ret \in 0 .. len
      /\ w.ridx \in Inodes /\ e \in Disk /\ f \in Disk /\ BlkSize \in Nat \ {0}
  <2>1. off \in Nat /\ w.buf \in Seq(Str) /\ w.ret \in 0 .. len /\ w.ridx \in Inodes
    BY DEF Writes
  <2>2. len \in Nat
    BY <2>1
  <2>3. DiskInv(f)
    BY DEF Wrote
  <2>4. e \in Disk /\ f \in Disk
    BY <2>3 DEF DiskInv
  <2> QED
    BY <2>1, <2>2, <2>4, Sizes
<1>2. /\ ind.size = off + len /\ ind.blocks = Need(ind.size)
      /\ \A n \in 1 .. ind.blocks : \A k \in 1 .. BlkSize :
           f.blk[ind.block[n]].data[k] = Copied(w, e.blk[ind.block[n]].data, n, k)
      /\ \A n \in 1 .. ind.blocks : n <= old.blocks => ind.block[n] = old.block[n]
      /\ w.ret < len => BlkSize <= off + w.ret
  BY DEF Wrote
<1>3. /\ old.size \in Nat /\ old.blocks = Need(old.size) /\ t \in Seq(Str) /\ Len(t) = old.size
      /\ \A k \in 1 .. old.size :
           k <= BlkSize \/ ~ half => t[k] \in {Cell(e, old, k), Stray}
  BY DEF TextOf
<1>4. o \in Seq(Str) /\ Len(o) = off + len
  BY <1>1, <1>3, OverIs
<1>5. ind.size \in Nat
  <2>1. ind.size = off + len /\ off \in Nat /\ len \in Nat
    BY <1>1, <1>2
  <2> HIDE DEF ind, old, off, len, o
  <2> QED
    BY <2>1
<1> HIDE DEF ind, old, off, len, o
<1>6. ASSUME NEW k \in 1 .. ind.size, k <= BlkSize \/ ~ (half \/ w.ret < len)
      PROVE  o[k] \in {Cell(f, ind, k), Stray}
  <2> DEFINE n == CellBlock(k)
             j == CellPlace(k)
             b == ind.block[n]
  <2>1. k \in Nat \ {0} /\ k \in 1 .. off + len
    BY <1>2, <1>5
  <2>2. /\ n \in 1 .. ind.blocks /\ j \in 1 .. BlkSize
        /\ Cell(f, ind, k) = f.blk[b].data[j]
    BY <1>1, <1>2, <1>5, CellIn DEF ind
  <2>3. Pos(n, j) = k
    BY <2>1, CellIs
  <2> HIDE DEF n, j
  <2>4. Cell(f, ind, k) = Copied(w, e.blk[b].data, n, j)
    BY <1>2, <2>2
  <2> HIDE DEF b
  <2>5. Cell(f, ind, k) = IF k - off \in 1 .. w.ret THEN w.buf[k - off] ELSE e.blk[b].data[j]
    BY <2>3, <2>4 DEF Copied, off
  <2>6. o[k] = IF k > off THEN w.buf[k - off] ELSE IF k <= Len(t) THEN t[k] ELSE Stray
    BY <2>1 DEF o, Over, len
  <2>7. CASE k > off
    <3>1. k - off \in 1 .. w.ret
      <4>1. k <= off + w.ret
        BY <1>1, <1>2, <1>6, <2>1, <2>7
      <4> QED
        BY <1>1, <2>1, <2>7, <4>1
    <3> QED
      BY <2>5, <2>6, <2>7, <3>1
  <2>8. CASE ~ k > off /\ k <= Len(t)
    <3>1. k \in 1 .. old.size /\ ~ (k - off \in 1 .. w.ret)
      BY <1>1, <1>3, <2>1, <2>8
    <3>2. n \in 1 .. old.blocks /\ Cell(e, old, k) = e.blk[old.block[n]].data[j]
      BY <1>1, <1>3, <3>1, CellIn DEF old, n, j
    <3>3. n <= old.blocks
      <4>1. old.blocks \in Nat
        BY <1>3, NeedIs
      <4> QED
        BY <3>2, <4>1
    <3>4. b = old.block[n]
      BY <1>2, <2>2, <3>3 DEF b
    <3>5. Cell(f, ind, k) = Cell(e, old, k)
      BY <2>5, <3>1, <3>2, <3>4
    <3>6. t[k] \in {Cell(e, old, k), Stray}
      BY <1>3, <1>6, <3>1
    <3> QED
      BY <2>6, <2>8, <3>5, <3>6
  <2>9. CASE ~ k > off /\ ~ k <= Len(t)
    BY <2>6, <2>9
  <2> QED
    BY <2>7, <2>8, <2>9
<1>7. Len(o) = ind.size
  BY <1>2, <1>4
<1>8. TextOf(f, ind, o, half \/ w.ret < len)
  BY <1>2, <1>4, <1>5, <1>6, <1>7 DEF TextOf
<1> QED
  BY <1>8 DEF ind, o, off, len


\* The texts after a write (vfs.c:619-638).
LEMMA WriteTexts ==
  ASSUME NEW e, DiskInv(e), NEW w, Writes(w), w.ridx \in e.inodemap, NEW f, Wrote(e, f, w),
         NEW half, NEW t, TextInv(e, t, half), NEW u,
         u[w.ridx] = Over(t[w.ridx], w.offset, w.buf),
         \A i \in Inodes \ {w.ridx} : u[i] = t[i]
  PROVE  TextInv(f, u, half \/ w.ret < Len(w.buf))
<1>1. /\ e \in Disk /\ f \in Disk /\ Owned(f) /\ f.inodemap = e.inodemap
      /\ e.inodemap \subseteq Inodes
  BY DiskFields DEF DiskInv, Wrote
<1> SUFFICES ASSUME NEW i \in f.inodemap, IsFile(f, i)
             PROVE  TextOf(f, f.ind[i], u[i], half \/ w.ret < Len(w.buf))
  BY DEF TextInv
<1>2. CASE i = w.ridx
  <2>1. IsFile(e, i)
    BY <1>2 DEF IsFile, Wrote
  <2>2. TextOf(e, e.ind[w.ridx], t[w.ridx], half)
    BY <1>2, <2>1 DEF TextInv
  <2> QED
    BY <1>2, <2>2, WriteText
<1>3. CASE i # w.ridx
  <2>1. i \in Inodes /\ f.ind[i] = e.ind[i] /\ u[i] = t[i]
    BY <1>1, <1>3 DEF Wrote
  <2>2. TextOf(e, e.ind[i], t[i], half)
    BY <1>1, <2>1 DEF IsFile, TextInv
  <2>3. Own(f.ind[i]) \subseteq Blocks \ Own(f.ind[w.ridx])
    <3>1. Own(f.ind[i]) \subseteq Blocks
      BY <1>1, DiskFields DEF Owned, Books
    <3>2. \A b \in Own(f.ind[i]) : b \notin Own(f.ind[w.ridx])
      BY <1>1, <1>3 DEF Owned, Books
    <3> QED
      BY <3>1, <3>2
  <2>4. \A b \in Own(e.ind[i]) : f.blk[b] = e.blk[b]
    BY <2>1, <2>3 DEF Wrote
  <2>5. TextOf(f, f.ind[i], t[i], half)
    BY <1>1, <2>1, <2>2, <2>4, TextSame
  <2> QED
    BY <2>1, <2>5 DEF TextOf
<1> QED
  BY <1>2, <1>3

\* The texts after a directory or an empty file is made (ext2fs.c:369-403).
LEMMA CreateTexts ==
  ASSUME NEW e, DiskInv(e), NEW ridx \in e.inodemap, "DIR" \in e.ind[ridx].mode, NEW f,
         DiskInv(f), NEW k, NEW mode \in {DirMode, FileMode}, Created(e, f, ridx, k, mode),
         NEW t, mode = FileMode => t[k] = <<>>, NEW half, TextInv(e, t, half)
  PROVE  TextInv(f, t, half)
<1>1. /\ e \in Disk /\ f \in Disk /\ Owned(e) /\ f.inodemap = e.inodemap \cup {k}
      /\ e.inodemap \subseteq Inodes
  BY DiskFields DEF DiskInv, Created
<1>2. e.ind[ridx].mode \in Kinds
  BY <1>1, DiskFields DEF Ind
<1>3. ~ IsFile(e, ridx)
  <2> DEFINE mo == e.ind[ridx].mode
  <2>1. mo \in Kinds /\ "DIR" \in mo
    BY <1>2
  <2> HIDE DEF mo
  <2>2. "FILE" \notin mo
    BY <2>1 DEF Kinds, DirMode, FileMode
  <2> QED
    BY <2>2 DEF IsFile, mo
<1>4. ~ IsFile(f, ridx)
  <2>1. f.ind[ridx].mode = e.ind[ridx].mode
    BY DEF Created
  <2> QED
    BY <1>3, <2>1 DEF IsFile
<1> SUFFICES ASSUME NEW i \in f.inodemap, IsFile(f, i)
             PROVE  TextOf(f, f.ind[i], t[i], half)
  BY DEF TextInv
<1>5. CASE i # k
  <2>1. i \in e.inodemap /\ i # ridx /\ i \in Inodes
    BY <1>1, <1>4, <1>5
  <2>2. f.ind[i] = e.ind[i]
    BY <1>5, <2>1 DEF Created
  <2>3. TextOf(e, e.ind[i], t[i], half)
    BY <2>1, <2>2 DEF IsFile, TextInv
  <2>4. \A b \in Own(e.ind[i]) : f.blk[b] = e.blk[b]
    <3>1. \A b \in Own(e.ind[i]) : b \in e.blockmap \ Own(e.ind[ridx])
      BY <1>1, <2>1 DEF Owned, Books
    <3> QED
      BY <3>1 DEF Created
  <2> QED
    BY <1>1, <2>1, <2>2, <2>3, <2>4, TextSame
<1>6. CASE i = k
  <2>1. mode = FileMode
    <3>1. "FILE" \in mode
      BY <1>6 DEF IsFile, Created
    <3> QED
      BY <3>1 DEF DirMode
  <2>2. f.ind[k].size = 0 /\ f.ind[k].blocks = 0 /\ t[k] = <<>>
    BY <2>1 DEF Created
  <2>3. Need(0) = 0
    <3>1. Need(0) \in Nat /\ (Need(0) - 1) * BlkSize < 0 /\ BlkSize \in Nat \ {0}
      BY NeedIs, Sizes
    <3>2. ASSUME Need(0) >= 1 PROVE FALSE
      <4>1. 0 * BlkSize <= (Need(0) - 1) * BlkSize /\ 0 * BlkSize = 0
            /\ (Need(0) - 1) * BlkSize \in Int
        BY <3>1, <3>2, Times
      <4> QED
        BY <3>1, <4>1
    <3> QED
      BY <3>1, <3>2
  <2>4. <<>> \in Seq(Str) /\ Len(<<>>) = 0
    OBVIOUS
  <2> QED
    BY <1>6, <2>2, <2>3, <2>4 DEF TextOf
<1> QED
  BY <1>5, <1>6

\* The texts after a removal that writes over no block in use but the directory's
\* (ext2fs.c:405-462).
LEMMA RemoveTexts ==
  ASSUME NEW e, DiskInv(e), NEW ridx \in e.inodemap, "DIR" \in e.ind[ridx].mode, NEW f,
         DiskInv(f), NEW k, Dropped(e, f, ridx, k), NEW at \in Own(e.ind[ridx]),
         \A b \in f.blockmap \ {at} : f.blk[b] = e.blk[b],
         NEW t, NEW half, TextInv(e, t, half)
  PROVE  TextInv(f, t, half)
<1>1. /\ e \in Disk /\ f \in Disk /\ Owned(e) /\ Owned(f) /\ f.inodemap = e.inodemap \ {k}
      /\ e.inodemap \subseteq Inodes
  BY DiskFields DEF DiskInv, Dropped
<1>2. e.ind[ridx].mode \in Kinds
  BY <1>1, DiskFields DEF Ind
<1>3. ~ IsFile(f, ridx)
  <2> DEFINE mo == e.ind[ridx].mode
  <2>1. mo \in Kinds /\ "DIR" \in mo /\ f.ind[ridx].mode = mo
    BY <1>1, <1>2 DEF Dropped
  <2> HIDE DEF mo
  <2>2. "FILE" \notin mo
    BY <2>1 DEF Kinds, DirMode, FileMode
  <2> QED
    BY <2>1, <2>2 DEF IsFile
<1> SUFFICES ASSUME NEW i \in f.inodemap, IsFile(f, i)
             PROVE  TextOf(f, f.ind[i], t[i], half)
  BY DEF TextInv
<1>5. i \in e.inodemap /\ i # ridx /\ i # k /\ i \in Inodes
  BY <1>1, <1>3
<1>6. f.ind[i] = e.ind[i]
  BY <1>5 DEF Dropped
<1>7. TextOf(e, e.ind[i], t[i], half)
  BY <1>5, <1>6 DEF IsFile, TextInv
<1>8. \A b \in Own(e.ind[i]) : f.blk[b] = e.blk[b]
  <2>1. \A b \in Own(e.ind[i]) : b # at
    BY <1>1, <1>5 DEF Owned, Books
  <2>2. \A b \in Own(e.ind[i]) : b \in f.blockmap
    BY <1>1, <1>6 DEF Owned, Books
  <2> QED
    BY <2>1, <2>2
<1> QED
  BY <1>1, <1>5, <1>6, <1>7, <1>8, TextSame

\* A read from offset off returns the cells up to first.
ReadsCells(e, i, first, off) ==
  ext2_read(e, i, off, first - off)
    = [k \in 1 .. first - off |-> Cell(e, e.ind[i], off + k)]

\* What a read of the first block returns (ext2fs.c:296-317).
LEMMA ReadFirst ==
  ASSUME NEW e \in Disk, NEW i \in Inodes, e.ind[i].size \in Nat,
         e.ind[i].blocks = Need(e.ind[i].size),
         NEW first, first = Min({e.ind[i].size, BlkSize}), NEW off \in 0 .. first - 1
  PROVE  ReadsCells(e, i, first, off)
<1> SUFFICES ext2_read(e, i, off, first - off)
               = [k \in 1 .. first - off |-> Cell(e, e.ind[i], off + k)]
  BY DEF ReadsCells
<1> DEFINE ind == e.ind[i]
           size == ind.size
           len == first - off
           skip == off \div BlkSize
           S == {len, size - skip * BlkSize}
                  \cup (IF off <= size THEN {size - off} ELSE {})
           n == Min(S)
<1>1. BlkSize \in Nat \ {0} /\ size \in Nat
  BY Sizes
<1>2. first \in {size, BlkSize} /\ first <= size /\ first <= BlkSize
  <2>1. \E x \in {size, BlkSize} : \A y \in {size, BlkSize} : x <= y
    BY <1>1
  <2>2. Min({size, BlkSize}) \in {size, BlkSize}
        /\ \A y \in {size, BlkSize} : Min({size, BlkSize}) <= y
    BY <2>1 DEF Min
  <2> QED
    BY <2>2
<1>3. first \in Nat /\ off \in Nat /\ off < first /\ len \in Nat \ {0} /\ size > 0
      /\ off < BlkSize /\ off < size
  BY <1>1, <1>2
<1>4. off % BlkSize = off /\ skip = 0
  <2>1. off \in 0 .. BlkSize - 1
    BY <1>1, <1>3
  <2>2. off % BlkSize = off
    BY <1>1, <2>1, ModSmall
  <2>3. off = (BlkSize * skip) + (off % BlkSize) /\ skip \in Int
    <3>1. off \in Int
      BY <1>3
    <3> QED
      BY <1>1, <3>1, DivMod
  <2> HIDE DEF skip
  <2>4. BlkSize * skip = 0
    <3>1. BlkSize * skip \in Int
      BY <1>1, <2>3
    <3> QED
      BY <1>3, <2>2, <2>3, <3>1
  <2> QED
    BY <1>1, <2>3, <2>4
<1> HIDE DEF skip
<1>5. skip * BlkSize = 0 /\ ind.blocks \in Nat \ {0}
  <2>1. ind.blocks \in Nat /\ size <= ind.blocks * BlkSize
    BY <1>1, NeedIs
  <2>2. ind.blocks # 0
    BY <1>1, <1>3, <2>1
  <2> QED
    BY <1>1, <1>4, <2>1, <2>2
<1>6. n = len
  <2>1. S = {len, size, size - off}
    BY <1>1, <1>3, <1>5
  <2>2. len <= size /\ len <= size - off
    BY <1>1, <1>2, <1>3
  <2> HIDE DEF S, len
  <2>3. len \in S /\ \A y \in S : len <= y
    BY <1>3, <2>1, <2>2
  <2>4. \A x \in S : (\A y \in S : x <= y) => x = len
    BY <1>1, <1>3, <2>1, <2>3
  <2> QED
    BY <2>3, <2>4 DEF Min
<1>7. \A k \in 1 .. len : Cell(e, ind, off + k) = e.blk[ind.block[1]].data[off + k]
  <2> TAKE k \in 1 .. len
  <2>1. off + k \in Nat \ {0} /\ off + k <= BlkSize
    BY <1>1, <1>2, <1>3
  <2>2. CellBlock(off + k) = 1 /\ CellPlace(off + k) = off + k
    BY <2>1, CellIs
  <2> QED
    BY <2>2 DEF Cell, CellBlock, CellPlace
<1>8. ext2_read(e, i, off, len) =
        IF skip >= ind.blocks THEN <<>>
        ELSE [k \in 1 .. n |-> IF (off % BlkSize) + k > BlkSize THEN Stray
                               ELSE e.blk[ind.block[skip + 1]].data[(off % BlkSize) + k]]
  BY Zenon DEF ext2_read, skip
<1> HIDE DEF n, S
<1>9. \A k \in 1 .. len : ~ ((off % BlkSize) + k > BlkSize)
  BY <1>1, <1>2, <1>3, <1>4
<1>10. ext2_read(e, i, off, len) =
         [k \in 1 .. len |-> e.blk[ind.block[1]].data[off + k]]
  <2>1. ~ (skip >= ind.blocks) /\ skip + 1 = 1
    BY <1>4, <1>5
  <2>2. ext2_read(e, i, off, len) =
          [k \in 1 .. len |-> IF (off % BlkSize) + k > BlkSize THEN Stray
                               ELSE e.blk[ind.block[1]].data[(off % BlkSize) + k]]
    BY <1>6, <1>8, <2>1
  <2> HIDE DEF ind, len
  <2>3. ext2_read(e, i, off, len) =
          [k \in 1 .. len |-> IF off + k > BlkSize THEN Stray
                               ELSE e.blk[ind.block[1]].data[off + k]]
    BY <1>4, <2>2
  <2>4. \A k \in 1 .. len : ~ (off + k > BlkSize)
    BY <1>4, <1>9
  <2> QED
    BY <2>3, <2>4
<1> HIDE DEF len, ind
<1>11. ext2_read(e, i, off, len) = [k \in 1 .. len |-> Cell(e, ind, off + k)]
  BY <1>7, <1>10
<1> QED
  BY <1>11 DEF len, ind

(***************************************************************************)
(* The disk at the start.                                                  *)
(***************************************************************************)
\* The first search of the inode bitmap finds the first bit, which is the root.
LEMMA FirstInode == FirstFree({}, 0, NInodes) = 0
<1> DEFINE n == NInodes
           bytes == n \div ByteBits
           rank(b) == (((b \div ByteBits) - (0 \div ByteBits)) % bytes) * ByteBits
                        + (b % ByteBits)
           free == (0 .. n - 1) \ {}
<1>1. n \in Nat \ {0} /\ ByteBits \in Nat \ {0} /\ n % ByteBits = 0
  BY Sizes, Ext2Constants
<1>2. bytes \in Nat \ {0} /\ n = ByteBits * bytes
  <2>1. bytes \in Int /\ n = (ByteBits * bytes) + (n % ByteBits)
    BY <1>1, DivMod
  <2> HIDE DEF bytes
  <2>2. n = ByteBits * bytes
    <3>1. ByteBits * bytes \in Int
      BY <1>1, <2>1
    <3> QED
      BY <1>1, <2>1, <3>1
  <2> QED
    BY <1>1, <2>1, <2>2
<1> HIDE DEF bytes
<1>3. 0 \div ByteBits = 0 /\ 0 % ByteBits = 0
  <2>1. 0 % ByteBits = 0
    <3>1. 0 \in 0 .. ByteBits - 1
      BY <1>1
    <3> QED
      BY <1>1, <3>1, ModSmall
  <2>2. 0 \div ByteBits \in Int /\ 0 = (ByteBits * (0 \div ByteBits)) + (0 % ByteBits)
    BY <1>1, DivMod
  <2> DEFINE q == 0 \div ByteBits
  <2>3. q \in Int /\ ByteBits * q = 0
    <3> HIDE DEF q
    <3>1. q \in Int /\ 0 = (ByteBits * q) + (0 % ByteBits)
      BY <2>2 DEF q
    <3>2. ByteBits * q \in Int
      BY <1>1, <3>1
    <3> QED
      BY <2>1, <3>1, <3>2
  <2> HIDE DEF q
  <2>4. q = 0
    BY <1>1, <2>3
  <2> QED
    BY <2>1, <2>4 DEF q
<1>4. ASSUME NEW b \in 0 .. n - 1
      PROVE  /\ rank(b) \in Int /\ rank(b) >= 0
             /\ rank(b) = 0 => b = 0
  <2> DEFINE q == b \div ByteBits
             r == b % ByteBits
  <2>1. q \in Int /\ r \in 0 .. ByteBits - 1 /\ b = (ByteBits * q) + r
    BY <1>1, DivMod
  <2>2. (b \div ByteBits) - (0 \div ByteBits) = q
    BY <1>3, <2>1
  <2> HIDE DEF q, r
  <2>3. q >= 0 /\ q < bytes
    <3>1. ByteBits * q \in Int
      BY <1>1, <2>1
    <3>2. ASSUME q <= -1 PROVE FALSE
      <4>1. ByteBits * q <= -ByteBits
        BY <1>1, <2>1, <3>2
      <4> QED
        BY <1>1, <2>1, <3>1, <4>1
    <3>3. ASSUME q >= bytes PROVE FALSE
      <4>1. ByteBits * q >= ByteBits * bytes
        BY <1>1, <1>2, <2>1, <3>3
      <4> QED
        BY <1>1, <1>2, <2>1, <3>1, <4>1
    <3> QED
      BY <1>2, <2>1, <3>2, <3>3
  <2>4. q % bytes = q
    <3>1. q \in 0 .. bytes - 1
      BY <1>2, <2>1, <2>3
    <3> QED
      BY <1>2, <3>1, ModSmall
  <2>5. rank(b) = q * ByteBits + r
    BY <2>2, <2>4 DEF r
  <2>6. q * ByteBits \in Nat /\ q * ByteBits = ByteBits * q
    BY <1>1, <2>1, <2>3
  <2> QED
    BY <1>1, <2>1, <2>5, <2>6
<1>5. rank(0) = 0
  <2>1. (0 \div ByteBits) - (0 \div ByteBits) = 0
    BY <1>3
  <2>2. 0 % bytes = 0
    <3>1. 0 \in 0 .. bytes - 1
      BY <1>2
    <3> QED
      BY <1>2, <3>1, ModSmall
  <2> QED
    BY <1>1, <1>3, <2>1, <2>2
<1>6. free = 0 .. n - 1 /\ 0 \in free
  BY <1>1
<1>7. FirstFree({}, 0, NInodes) = CHOOSE b \in free : \A c \in free : rank(b) <= rank(c)
  BY DEF FirstFree, bytes
<1> HIDE DEF rank, free
<1>8. 0 \in free /\ \A c \in free : rank(0) <= rank(c)
  BY <1>4, <1>5, <1>6
<1>9. \A b \in free : (\A c \in free : rank(b) <= rank(c)) => b = 0
  BY <1>4, <1>5, <1>6
<1> QED
  BY <1>7, <1>8, <1>9

\* The zeroed disk.
LEMMA ZeroedIs ==
  /\ Zeroed \in Disk /\ Counted(Zeroed) /\ Zeroed.blockmap = {} /\ Zeroed.inodemap = {}
  /\ Zeroed.free_blocks = NBlocks /\ Zeroed.free_inodes = NInodes
  /\ Zeroed.last_inode = 1 /\ ~ Zeroed.wild
<1>1. /\ 0 \in Blocks /\ 1 \in Inodes /\ NBlocks \in Int /\ NInodes \in Int
      /\ 0 \in 0 .. NIndBlocks /\ NBlocks \in Nat /\ NInodes \in Nat
  BY Sizes DEF Blocks, Inodes
<1>2. NoInd \in Ind
  <2>1. {} \in Kinds /\ 0 \in Int /\ 0 \in 0 .. NIndBlocks
        /\ [i \in 1 .. NIndBlocks |-> 0] \in [1 .. NIndBlocks -> Blocks]
    BY <1>1 DEF Kinds
  <2> HIDE DEF Ind
  <2> QED
    BY <2>1 DEF NoInd, Ind
<1>3. [dir |-> NoDir, data |-> NoData] \in Blk
  BY EmptyBuffers DEF Blk
<1>4. /\ Zeroed.blockmap = {} /\ Zeroed.inodemap = {} /\ Zeroed.free_blocks = NBlocks
      /\ Zeroed.free_inodes = NInodes /\ Zeroed.last_inode = 1 /\ Zeroed.wild = FALSE
  BY DEF Zeroed
<1>5. Zeroed \in Disk
  <2> DEFINE x == [i \in Inodes |-> NoInd]
             c == [b \in Blocks |-> [dir |-> NoDir, data |-> NoData]]
  <2>1. x \in [Inodes -> Ind]
    BY <1>2
  <2>2. c \in [Blocks -> Blk]
    BY <1>3
  <2>3. Zeroed = [blockmap |-> {}, inodemap |-> {}, free_blocks |-> NBlocks,
                  free_inodes |-> NInodes, last_block |-> 0, last_inode |-> 1,
                  ind |-> x, blk |-> c, wild |-> FALSE]
    BY DEF Zeroed
  <2> HIDE DEF x, c
  <2> QED
    BY <1>1, <2>1, <2>2, <2>3 DEF Disk
<1>6. Counted(Zeroed)
  <2>1. Cardinality({}) = 0
    BY FS_EmptySet
  <2> QED
    BY <1>1, <1>4, <2>1 DEF Counted
<1> QED
  BY <1>4, <1>5, <1>6

\* The root directory has n entries, and those at the places J of its block are free.
RootMode == {"DIR", "RD", "WR"}
RootHas(e, n, J) ==
  /\ DiskInv(e) /\ EXT2_ROOT \in e.inodemap /\ e.ind[EXT2_ROOT].mode = RootMode
  /\ e.ind[EXT2_ROOT].size = n /\ e.ind[EXT2_ROOT].blocks = 1
  /\ e.free_inodes = NInodes - (n - 1)
  /\ \A j \in J : e.blk[e.ind[EXT2_ROOT].block[1]].dir[j].inode = 0

\* The root directory is made (ext2fs.c:57-74).
LEMMA RootIs ==
  RootHas(Root, 2, {3, 4}) /\ Root.inodemap = {EXT2_ROOT} /\ Root.free_blocks = NBlocks - 1
<1> DEFINE b == ext2_alloc_block(Zeroed)
           i == ext2_alloc_inode(b.e)
           dot(name) == [name |-> name, inode |-> i.n, mode |-> {}]
           dir == [NoDir EXCEPT ![1] = dot("."), ![2] = dot("..")]
           g == wr_dir(i.e, b.n, dir)
           x == [mode |-> RootMode, size |-> 2, blocks |-> 1,
                 block |-> [NoInd.block EXCEPT ![1] = b.n]]
           f == [g EXCEPT !.ind[i.n] = x]
<1>1. Root = f
  BY Zenon DEF Root, RootMode
<1>2. NBlocks \in Nat \ {0} /\ NInodes \in Nat \ {0} /\ NIndBlocks \in Nat \ {0}
      /\ DirAmut \in Nat /\ DirAmut >= 4
  BY Sizes
<1>3. Zeroed \in Disk /\ Counted(Zeroed) /\ b.n # None
  BY <1>2, ZeroedIs, AllocBlockFinds
<1>4. /\ b.n \in Blocks \ Zeroed.blockmap /\ b.e \in Disk /\ Counted(b.e)
      /\ b.e.blockmap = Zeroed.blockmap \cup {b.n} /\ b.e.free_blocks = Zeroed.free_blocks - 1
      /\ b.e.inodemap = Zeroed.inodemap /\ b.e.free_inodes = Zeroed.free_inodes
      /\ b.e.wild = Zeroed.wild /\ b.e.last_inode = Zeroed.last_inode
  <2>1. b.e = [Zeroed EXCEPT !.blockmap = @ \cup {b.n}, !.last_block = b.n,
                             !.free_blocks = @ - 1]
    BY <1>3, AllocBlock
  <2>2. b.e.last_inode = Zeroed.last_inode
    <3> HIDE DEF b
    <3> QED
      BY <1>3, <2>1 DEF Disk
  <2> QED
    BY <1>3, <2>2, TakeBlock
<1> HIDE DEF b
<1>5. b.e.blockmap = {b.n} /\ b.e.inodemap = {} /\ b.e.free_blocks = NBlocks - 1
      /\ b.e.free_inodes = NInodes /\ ~ b.e.wild /\ b.e.last_inode = 1
  BY <1>4, ZeroedIs
<1>6. i.n = EXT2_ROOT
  <2>1. {k - 1 : k \in b.e.inodemap} = {} /\ b.e.last_inode - 1 = 0 /\ b.e.free_inodes # 0
    BY <1>2, <1>5
  <2>2. i.n = 1 + FirstFree({k - 1 : k \in b.e.inodemap}, b.e.last_inode - 1, NInodes)
    BY <2>1 DEF ext2_alloc_inode
  <2> HIDE DEF i
  <2>3. i.n = 1 + FirstFree({}, 0, NInodes)
    BY <2>1, <2>2
  <2> QED
    BY <2>3, FirstInode DEF EXT2_ROOT
<1>7. /\ i.n \in Inodes /\ i.e \in Disk /\ Counted(i.e)
      /\ i.e.inodemap = b.e.inodemap \cup {i.n} /\ i.e.free_inodes = b.e.free_inodes - 1
      /\ i.e.blockmap = b.e.blockmap /\ i.e.free_blocks = b.e.free_blocks
      /\ i.e.wild = b.e.wild
  <2>1. i.n # None
    BY <1>6 DEF EXT2_ROOT, None
  <2> QED
    BY <1>4, <2>1, CreateInode
<1> HIDE DEF i
<1>8. dir \in DirBuf /\ \A j \in {3, 4} : dir[j].inode = 0
  <2>1. "." \in Str /\ ".." \in Str /\ {} \in SUBSET Modes /\ i.n \in Inodes \cup {0}
    BY <1>7 DEF Str
  <2>2. dot(".") \in Entry /\ dot("..") \in Entry
    BY <2>1 DEF Entry
  <2>3. 1 \in 1 .. DirAmut /\ 2 \in 1 .. DirAmut /\ 3 \in 1 .. DirAmut /\ 4 \in 1 .. DirAmut
    BY <1>2
  <2> DEFINE d1 == dot(".")
             d2 == dot("..")
  <2>4. dir = [NoDir EXCEPT ![1] = d1, ![2] = d2]
    OBVIOUS
  <2> HIDE DEF dot, d1, d2, dir
  <2>5. d1 \in Entry /\ d2 \in Entry
    BY <2>2 DEF d1, d2
  <2>6. NoDir \in DirBuf /\ NoDir[3].inode = 0 /\ NoDir[4].inode = 0
    BY <2>3, EmptyBuffers DEF NoDir, NoEntry
  <2>7. dir \in DirBuf
    BY <2>4, <2>5, <2>6 DEF DirBuf
  <2>8. dir[3] = NoDir[3] /\ dir[4] = NoDir[4]
    BY <2>3, <2>4, <2>6 DEF DirBuf
  <2> QED
    BY <2>6, <2>7, <2>8
<1> HIDE DEF dir
<1>9. /\ g \in Disk /\ g.ind = i.e.ind
      /\ g.blk = [i.e.blk EXCEPT ![b.n] = [dir |-> dir, data |-> NoData]]
      /\ g.blockmap = i.e.blockmap /\ g.free_blocks = i.e.free_blocks
      /\ g.inodemap = i.e.inodemap /\ g.free_inodes = i.e.free_inodes
      /\ g.wild = i.e.wild
  BY <1>4, <1>7, <1>8, WrDir
<1> HIDE DEF g
<1>10. x \in Ind /\ x.mode = RootMode /\ x.size = 2 /\ x.blocks = 1 /\ x.block[1] = b.n
  <2> DEFINE l == [NoInd.block EXCEPT ![1] = b.n]
  <2>1. NoInd.block \in [1 .. NIndBlocks -> Blocks]
    <3>1. NoInd.block = [j \in 1 .. NIndBlocks |-> 0]
      BY DEF NoInd
    <3>2. 0 \in Blocks
      BY <1>2 DEF Blocks
    <3> QED
      BY <3>1, <3>2
  <2>2. l \in [1 .. NIndBlocks -> Blocks] /\ l[1] = b.n
    BY <1>2, <1>4, <2>1
  <2>3. RootMode \in Kinds /\ 2 \in Int /\ 1 \in 0 .. NIndBlocks
    BY <1>2 DEF RootMode, Kinds
  <2> HIDE DEF l
  <2>4. x = [mode |-> RootMode, size |-> 2, blocks |-> 1, block |-> l]
    BY DEF l
  <2> HIDE DEF x
  <2> QED
    BY <2>2, <2>3, <2>4 DEF Ind
<1> HIDE DEF x
<1>11. f \in Disk /\ f.ind[i.n] = x /\ SameBut(g, f, i.n)
  BY <1>7, <1>9, <1>10, SetInd
<1> HIDE DEF f
<1>12. /\ f.blockmap = {b.n} /\ f.inodemap = {i.n} /\ f.free_blocks = NBlocks - 1
       /\ f.free_inodes = NInodes - 1 /\ ~ f.wild /\ f.blk = g.blk
  BY <1>5, <1>7, <1>9, <1>11 DEF SameBut
<1>13. Own(x) = {b.n} /\ Distinct(x)
  BY <1>10 DEF Own, Distinct
<1>14. Owned(f)
  BY <1>11, <1>12, <1>13 DEF Owned, Books
<1>15. Counted(f)
  BY <1>5, <1>7, <1>9, <1>11 DEF SameBut, Counted
<1>16. g.blk[b.n].dir = dir
  <2>1. i.e.blk \in [Blocks -> Blk]
    BY <1>7, DiskFields
  <2> QED
    BY <1>4, <1>9, <2>1
<1>17. f.free_inodes = NInodes - (2 - 1)
  BY <1>2, <1>12
<1> QED
  BY <1>1, <1>6, <1>8, <1>10, <1>11, <1>12, <1>14, <1>15, <1>16, <1>17 DEF RootHas, DiskInv

\* Preparing the inode of a file cannot fail (ext2fs.c:206-208).
LEMMA PrepareFile ==
  ASSUME NEW g \in Disk, ~ g.wild, NEW k \in Inodes, NEW par, NEW dir
  PROVE  ~ ext2_ind_prepare(g, k, par, FileMode, dir).wild
<1> DEFINE e1 == [g EXCEPT !.ind[k].size = 0]
           e2 == [e1 EXCEPT !.ind[k].blocks = 0]
           e3 == [e2 EXCEPT !.ind[k].mode = FileMode]
<1>0. 0 \in Int /\ 0 \in 0 .. NIndBlocks /\ FileMode \in Kinds
  BY Sizes DEF Kinds
<1>1. ext2_ind_prepare(g, k, par, FileMode, dir) = e3
  BY DEF ext2_ind_prepare, FileMode
<1>2. e1 \in Disk /\ SameBut(g, e1, k)
  BY <1>0, SetSize
<1> HIDE DEF e1
<1>3. e2 \in Disk /\ SameBut(e1, e2, k)
  BY <1>0, <1>2, SetBlocks
<1> HIDE DEF e2
<1>4. SameBut(e2, e3, k)
  BY <1>0, <1>3, SetMode
<1> QED
  BY <1>1, <1>2, <1>3, <1>4 DEF SameBut

\* The same after one of the places J was taken.
RootTook(e, n, J) == \E q : RootHas(e, n, J \ {q})

\* A file is made in the root directory while it has room.
LEMMA InitCreate ==
  ASSUME NEW n \in {2, 3}, NEW J \in SUBSET (1 .. DirAmut), J # {},
         NEW e, RootHas(e, n, J), NEW name \in Str
  PROVE  LET c == ext2_create(e, EXT2_ROOT, name, FileMode) IN
         /\ RootTook(c.e, n + 1, J)
         /\ Created(e, c.e, EXT2_ROOT, c.n, FileMode) /\ c.e.free_blocks = e.free_blocks
<1> DEFINE r == EXT2_ROOT
           ind == e.ind[r]
           a == ext2_alloc_inode(e)
           free == FreePlaces(e, ind)
           p == FirstPlace(free)
           ent == Ent(a.n, name, FileMode)
           c == ext2_create(e, r, name, FileMode)
           dir == PutBuf(e, r, p, ent)
<1>1. /\ DiskInv(e) /\ r \in e.inodemap /\ ind.mode = RootMode /\ ind.size = n
      /\ ind.blocks = 1 /\ e.free_inodes = NInodes - (n - 1)
      /\ \A j \in J : e.blk[ind.block[1]].dir[j].inode = 0
  BY DEF RootHas
<1>2. /\ e \in Disk /\ Counted(e) /\ r \in Inodes /\ NInodes \in Nat /\ NInodes >= 3
      /\ DirAmut \in Nat /\ DirAmut >= 4 /\ MaxDirSize \in Nat /\ MaxDirSize >= 4
      /\ NIndBlocks \in Nat \ {0}
  BY <1>1, DiskFields, DiskRoom, Sizes DEF DiskInv
<1> HIDE DEF r
<1>3. a.n # None
  <2>1. e.free_inodes # 0
    BY <1>1, <1>2
  <2> QED
    BY <1>2, <2>1, AllocInode
<1>4. ~ MustGrow(ind) /\ ~ (ind.size >= MaxDirSize)
  BY <1>1, <1>2 DEF MustGrow
<1>5. free # {} /\ free \subseteq Places(ind)
  <2>1. PICK j \in J : TRUE
    OBVIOUS
  <2>2. <<1, j>> \in Places(ind)
    <3>1. 1 \in 1 .. ind.blocks /\ j \in 1 .. DirAmut
      BY <1>1
    <3> HIDE DEF ind
    <3> QED
      BY <3>1 DEF Places
  <2>3. EntryAt(e, ind, <<1, j>>).inode = 0
    BY <1>1 DEF EntryAt
  <2> HIDE DEF ind
  <2> QED
    BY <2>2, <2>3 DEF FreePlaces
<1>6. p \in free /\ p[1] = 1 /\ p[2] \in 1 .. DirAmut
  <2>1. Places(ind) \subseteq Nat \X Nat
    BY <1>2, PlacesOf
  <2>2. p \in free
    <3> HIDE DEF free, ind
    <3> QED
      BY <1>5, <2>1, FirstPlaceIn
  <2>3. p \in Places(ind)
    BY <1>5, <2>2
  <2>4. p[1] \in 1 .. ind.blocks /\ p[2] \in 1 .. DirAmut
    <3> HIDE DEF p
    <3> QED
      BY <1>2, <2>3, PlacesOf
  <2>5. ind.blocks = 1
    BY <1>1
  <2> HIDE DEF p, ind, free
  <2>6. p[1] = 1
    BY <2>4, <2>5
  <2> QED
    BY <2>2, <2>4, <2>6
<1>7. c.e = PutAt(a.e, r, p, ent) /\ c.n = a.n
  <2> HIDE DEF a, free, p, ind
  <2>1. ext2_create(e, r, name, FileMode) =
          [e |-> PutAt(a.e, r, p, ent), n |-> a.n]
    BY <1>3, <1>4, <1>5 DEF ext2_create, a, ind, free, p, Ent, None
  <2> QED
    BY <2>1
<1> HIDE DEF c
<1>8. PICK g : /\ Readied(e, g, r, a.n) /\ dir \in DirBuf /\ PutMade(e, g, r, p, ent)
               /\ PutAt(a.e, r, p, ent) = ext2_ind_prepare(g, a.n, r, FileMode, dir)
  <2> HIDE DEF p
  <2> QED
    BY <1>1, <1>3, <1>6, CreateAt
<1> HIDE DEF a, p, ent, dir
<1>9. /\ g \in Disk /\ ~ g.wild /\ a.n \in Inodes /\ a.n # r
  BY <1>1, <1>8 DEF Readied
<1>10. ~ c.e.wild
  BY <1>7, <1>8, <1>9, PrepareFile
<1>11. DiskInv(c.e) /\ Created(e, c.e, r, a.n, FileMode) /\ Prepared(g, c.e, a.n, FileMode)
  BY <1>1, <1>7, <1>8, <1>10, CreatePrepare
<1>12. SameBut(g, c.e, a.n)
  BY <1>11 DEF Prepared
<1> DEFINE at == ind.block[1]
<1>13. /\ g.blk = [e.blk EXCEPT ![at] = [dir |-> dir, data |-> NoData]]
       /\ g.free_blocks = e.free_blocks /\ g.free_inodes = e.free_inodes - 1
       /\ g.ind[r].size = ind.size + 1 /\ g.ind[r].blocks = ind.blocks
       /\ g.ind[r].block = ind.block
  BY <1>6, <1>8 DEF PutMade, dir
<1>14. c.e.ind[r] = g.ind[r] /\ c.e.blk = g.blk /\ c.e.free_blocks = g.free_blocks
       /\ c.e.free_inodes = g.free_inodes
  BY <1>2, <1>9, <1>12 DEF SameBut
<1>15. g.blk[at].dir = dir
  <2>1. at \in Blocks /\ e.blk \in [Blocks -> Blk]
    <3>1. 1 \in 1 .. NIndBlocks /\ ind \in Ind
      BY <1>2, DiskFields
    <3> QED
      BY <1>2, <3>1, DiskFields DEF Ind
  <2> HIDE DEF at
  <2> QED
    BY <1>13, <2>1
<1>16. dir = [e.blk[at].dir EXCEPT ![p[2]] = ent]
  BY <1>6 DEF dir, PutBuf
<1>17. \A j \in J \ {p[2]} : dir[j].inode = 0
  <2>1. e.blk[at].dir \in DirBuf
    <3>1. 1 \in 1 .. NIndBlocks /\ ind \in Ind
      BY <1>2, DiskFields
    <3>2. at \in Blocks
      BY <3>1 DEF Ind
    <3> HIDE DEF at
    <3> QED
      BY <1>2, <3>2, DiskFields DEF Blk
  <2>2. \A j \in J \ {p[2]} : dir[j] = e.blk[at].dir[j]
    <3> HIDE DEF at
    <3> QED
      BY <1>16, <2>1 DEF DirBuf
  <2> QED
    BY <1>1, <2>2
<1>18. c.e.ind[r].block[1] = at
  BY <1>13, <1>14
<1> HIDE DEF at
<1>19. c.e.ind[r].size = n + 1 /\ c.e.ind[r].blocks = 1 /\ c.e.ind[r].mode = RootMode
  BY <1>1, <1>11, <1>13, <1>14 DEF Created
<1>20. c.e.free_inodes = NInodes - ((n + 1) - 1)
  <2>1. c.e.free_inodes = e.free_inodes - 1 /\ e.free_inodes = NInodes - (n - 1)
    BY <1>1, <1>13, <1>14
  <2>2. NInodes \in Nat
    BY <1>2
  <2> HIDE DEF c
  <2> QED
    BY <2>1, <2>2
<1>21. r \in c.e.inodemap
  BY <1>1, <1>11 DEF Created
<1>22. \A j \in J \ {p[2]} : c.e.blk[c.e.ind[r].block[1]].dir[j].inode = 0
  BY <1>14, <1>15, <1>17, <1>18
<1>23. RootHas(c.e, n + 1, J \ {p[2]})
  BY <1>11, <1>19, <1>20, <1>21, <1>22 DEF RootHas, r
<1> QED
  <2>1. RootTook(c.e, n + 1, J)
    BY <1>23 DEF RootTook
  <2> QED
    BY <1>7, <1>11, <1>13, <1>14, <2>1 DEF c, r

\* The text of a file is written while there is room.
LEMMA InitWrite ==
  ASSUME NEW n, NEW J, NEW e, RootHas(e, n, J), NEW i \in e.inodemap,
         e.ind[i].mode = FileMode, e.ind[i].blocks = 0, e.free_blocks >= 1
  PROVE  LET x == ext2_write(e, i, 0, Text) IN
         /\ RootHas(x.e, n, J) /\ x.e.free_blocks >= e.free_blocks - 1
         /\ Wrote(e, x.e, Writing(i, 0, Text, x.ret)) /\ x.ret = Len(Text)
<1> DEFINE x == ext2_write(e, i, 0, Text)
           w == Writing(i, 0, Text, x.ret)
           r == EXT2_ROOT
<1>1. /\ DiskInv(e) /\ r \in e.inodemap /\ e.ind[r].mode = RootMode /\ e.ind[r].size = n
      /\ e.ind[r].blocks = 1 /\ e.free_inodes = NInodes - (n - 1)
      /\ \A j \in J : e.blk[e.ind[r].block[1]].dir[j].inode = 0
  BY DEF RootHas
<1>2. /\ e \in Disk /\ Counted(e) /\ r \in Inodes /\ BlkSize \in Nat \ {0} /\ NIndBlocks \in Nat \ {0}
      /\ e.free_blocks \in Int
  BY <1>1, DiskFields, Sizes DEF DiskInv
<1> HIDE DEF r
<1>3. Text \in Seq(Str) /\ Len(Text) \in Nat /\ Len(Text) <= BlkSize /\ 0 \in Nat
  <2>1. Text \in Seq(STRING)
    BY VfsConstants
  <2>2. STRING \subseteq Str
    BY DEF Str
  <2>3. Text \in Seq(Str)
    <3>1. Len(Text) \in Nat /\ Text \in [1 .. Len(Text) -> STRING]
      BY <2>1
    <3>2. Text \in [1 .. Len(Text) -> Str]
      BY <2>2, <3>1
    <3> QED
      BY <3>1, <3>2
  <2> QED
    BY <2>1, <2>3, DiskRoom
<1>4. 0 + Len(Text) = Len(Text) /\ Need(Len(Text)) \in Nat /\ Need(Len(Text)) <= 1
  <2>1. /\ Need(Len(Text)) \in Nat /\ (Need(Len(Text)) - 1) * BlkSize < Len(Text)
    BY <1>3, NeedIs
  <2>2. ASSUME Need(Len(Text)) >= 2 PROVE FALSE
    <3>1. 1 * BlkSize <= (Need(Len(Text)) - 1) * BlkSize /\ 1 * BlkSize = BlkSize
          /\ (Need(Len(Text)) - 1) * BlkSize \in Int
      BY <1>2, <2>1, <2>2, Times
    <3> QED
      BY <1>2, <1>3, <2>1, <3>1
  <2> QED
    BY <1>3, <2>1, <2>2
<1>5. "WR" \in e.ind[i].mode
  BY DEF FileMode
<1> DEFINE need == Need(0 + Len(Text))
<1>6. need \in Nat /\ need <= 1 /\ 0 <= need /\ need <= NIndBlocks /\ need - 0 <= e.free_blocks
  BY <1>2, <1>4
<1>7. /\ ~ x.e.wild => Wrote(e, x.e, w)
      /\ e.ind[i].blocks <= need /\ need <= NIndBlocks /\ need - e.ind[i].blocks <= e.free_blocks
           => ~ x.e.wild /\ x.e.free_blocks = e.free_blocks - (need - e.ind[i].blocks)
  BY <1>1, <1>3, <1>5, WriteKeeps
<1> HIDE DEF need
<1>8. Wrote(e, x.e, w) /\ x.e.free_blocks = e.free_blocks - need /\ ~ x.e.wild
  <2> HIDE DEF x, w
  <2>1. need - e.ind[i].blocks = need
    BY <1>6
  <2> QED
    BY <1>6, <1>7, <2>1
<1>9. x.ret = Len(Text)
  <2>1. CopiedOf(0, Len(Text)) = Len(Text)
    <3>1. ~ (Need(0 + Len(Text)) > (0 \div BlkSize) + 1)
      <4>1. 0 \div BlkSize \in Int /\ 0 % BlkSize \in 0 .. BlkSize - 1
            /\ 0 = (BlkSize * (0 \div BlkSize)) + (0 % BlkSize)
        BY <1>2, DivMod
      <4> DEFINE q == 0 \div BlkSize
                 m == 0 % BlkSize
      <4> HIDE DEF q, m
      <4>2. q \in Int /\ m \in 0 .. BlkSize - 1 /\ 0 = (BlkSize * q) + m
        BY <4>1 DEF q, m
      <4>3. ASSUME q <= -1 PROVE FALSE
        <5>1. q * BlkSize <= (-1) * BlkSize /\ q * BlkSize = BlkSize * q /\ q * BlkSize \in Int
          BY <1>2, <4>2, <4>3, Times
        <5> QED
          BY <1>2, <4>2, <5>1
      <4> QED
        BY <1>4, <4>2, <4>3 DEF q
    <3> QED
      BY <3>1 DEF CopiedOf
  <2> DEFINE g == Resize(e, i, Need(0 + Len(Text)))
             h == [CopyAll([ridx |-> i, offset |-> 0, buf |-> Text,
                            ret |-> CopiedOf(0, Len(Text))], g, 0 \div BlkSize,
                           Need(0 + Len(Text))) EXCEPT !.ind[i].size = 0 + Len(Text)]
  <2>2. x = IF "WR" \notin e.ind[i].mode THEN [e |-> e, ret |-> 0]
            ELSE IF g.wild THEN [e |-> g, ret |-> 0]
            ELSE [e |-> h, ret |-> CopiedOf(0, Len(Text))]
    BY Zenon DEF ext2_write
  <2> HIDE DEF g, h, x
  <2> QED
    BY <1>5, <1>8, <2>1, <2>2
<1>10. /\ w.ridx = i /\ DiskInv(x.e) /\ x.e.inodemap = e.inodemap
       /\ \A k \in Inodes \ {i} : x.e.ind[k] = e.ind[k]
       /\ \A c \in Blocks \ Own(x.e.ind[i]) : x.e.blk[c] = e.blk[c]
  <2> HIDE DEF x
  <2>1. w.ridx = i
    BY DEF Writing
  <2> HIDE DEF w
  <2> QED
    BY <1>8, <2>1 DEF Wrote
<1> HIDE DEF x, w
<1>11. r # i
  BY <1>1 DEF RootMode, FileMode
<1>12. x.e.ind[r] = e.ind[r]
  BY <1>2, <1>10, <1>11
<1>13. x.e.blk[e.ind[r].block[1]] = e.blk[e.ind[r].block[1]]
  <2>1. e.ind[r].block[1] \in Own(x.e.ind[r])
    <3>1. e.ind[r].blocks = 1
      BY <1>1
    <3>2. 1 \in 1 .. e.ind[r].blocks
      BY <3>1
    <3>3. e.ind[r].block[1] \in Own(e.ind[r])
      BY <3>2 DEF Own
    <3> QED
      BY <1>12, <3>3
  <2>2. Owned(x.e) /\ r \in x.e.inodemap /\ i \in x.e.inodemap /\ x.e.blockmap \subseteq Blocks
    BY <1>1, <1>10, DiskFields DEF DiskInv
  <2>3. e.ind[r].block[1] \notin Own(x.e.ind[i]) /\ e.ind[r].block[1] \in Blocks
    BY <1>11, <2>1, <2>2 DEF Owned, Books
  <2> DEFINE at == e.ind[r].block[1]
  <2>4. at \in Blocks \ Own(x.e.ind[i])
    BY <2>3
  <2> HIDE DEF at
  <2>5. x.e.blk[at] = e.blk[at]
    BY <1>10, <2>4
  <2> QED
    BY <2>5 DEF at
<1>14. x.e.free_inodes = e.free_inodes
  BY <1>2, <1>10 DEF Counted, DiskInv
<1>15. RootHas(x.e, n, J)
  <2>1. \A j \in J : x.e.blk[x.e.ind[r].block[1]].dir[j].inode = 0
    BY <1>1, <1>12, <1>13
  <2>2. /\ DiskInv(x.e) /\ r \in x.e.inodemap /\ x.e.ind[r].mode = RootMode
        /\ x.e.ind[r].size = n /\ x.e.ind[r].blocks = 1 /\ x.e.free_inodes = NInodes - (n - 1)
    BY <1>1, <1>10, <1>12, <1>14
  <2> QED
    BY <2>1, <2>2 DEF RootHas, r
<1>16. x.e.free_blocks >= e.free_blocks - 1
  BY <1>2, <1>6, <1>8
<1> QED
  BY <1>8, <1>9, <1>15, <1>16 DEF x, w

\* A text written over nothing.
LEMMA OverNothing ==
  ASSUME NEW s \in Seq(Str)
  PROVE  Over(<<>>, 0, s) = s
<1>1. Len(s) \in Nat /\ 0 + Len(s) = Len(s) /\ s = [k \in 1 .. Len(s) |-> s[k]]
  OBVIOUS
<1>2. \A k \in 1 .. Len(s) : k > 0 /\ k - 0 = k
  BY <1>1
<1> QED
  BY <1>1, <1>2 DEF Over

\* The disk f with a new file k that holds the text.
FileMade(e, f, k, n, J, t) ==
  /\ RootTook(f, n, J) /\ f.free_blocks >= e.free_blocks - 1
  /\ k \in Inodes \ e.inodemap /\ f.inodemap = e.inodemap \cup {k}
  /\ f.ind[k].mode = FileMode /\ \A i \in Inodes \ {k, EXT2_ROOT} : f.ind[i] = e.ind[i]
  /\ \A u : u[k] = Text /\ (\A i \in Inodes \ {k} : u[i] = t[i]) => TextInv(f, u, FALSE)

\* One file of the two: it is made and its text is written.
LEMMA InitFile ==
  ASSUME NEW n \in {2, 3}, NEW J \in SUBSET (1 .. DirAmut), J # {}, NEW e, RootHas(e, n, J),
         NEW name \in Str, e.free_blocks >= 1,
         NEW t, TextInv(e, t, FALSE), \A i \in Inodes \ e.inodemap : t[i] = <<>>
  PROVE  LET c == ext2_create(e, EXT2_ROOT, name, FileMode)
             f == ext2_write(c.e, c.n, 0, Text).e
         IN FileMade(e, f, c.n, n + 1, J, t)
<1> DEFINE c == ext2_create(e, EXT2_ROOT, name, FileMode)
           x == ext2_write(c.e, c.n, 0, Text)
           f == x.e
           w == Writing(c.n, 0, Text, x.ret)
<1>1. /\ RootTook(c.e, n + 1, J)
      /\ Created(e, c.e, EXT2_ROOT, c.n, FileMode) /\ c.e.free_blocks = e.free_blocks
  BY InitCreate
<1> HIDE DEF c
<1>2. PICK q : RootHas(c.e, n + 1, J \ {q})
  BY <1>1 DEF RootTook
<1>3. /\ c.n \in Inodes \ e.inodemap /\ c.e.inodemap = e.inodemap \cup {c.n}
      /\ c.e.ind[c.n].mode = FileMode /\ c.e.ind[c.n].blocks = 0
      /\ \A i \in Inodes \ {c.n, EXT2_ROOT} : c.e.ind[i] = e.ind[i]
  BY <1>1 DEF Created
<1>4. /\ RootHas(f, n + 1, J \ {q}) /\ f.free_blocks >= c.e.free_blocks - 1
      /\ Wrote(c.e, f, w) /\ x.ret = Len(Text)
  <2> DEFINE m == n + 1
             K == J \ {q}
  <2>1. RootHas(c.e, m, K)
    BY <1>2
  <2> HIDE DEF m, K
  <2>2. c.n \in c.e.inodemap /\ c.e.free_blocks >= 1
    BY <1>1, <1>3
  <2>3. /\ RootHas(f, m, K) /\ f.free_blocks >= c.e.free_blocks - 1
        /\ Wrote(c.e, f, w) /\ x.ret = Len(Text)
    BY <1>3, <2>1, <2>2, InitWrite
  <2> QED
    BY <2>3 DEF m, K
<1>5. DiskInv(e) /\ EXT2_ROOT \in e.inodemap /\ "DIR" \in e.ind[EXT2_ROOT].mode
      /\ DiskInv(c.e)
  BY <1>2 DEF RootHas, RootMode
<1>6. TextInv(c.e, t, FALSE)
  <2>1. t[c.n] = <<>> /\ FileMode \in {DirMode, FileMode}
    BY <1>3
  <2> QED
    BY <1>1, <1>5, <2>1, CreateTexts
<1>7. w.ridx = c.n /\ w.offset = 0 /\ w.buf = Text /\ w.ret = Len(Text)
  BY <1>4 DEF Writing
<1>8. Text \in Seq(Str) /\ Len(Text) \in Nat
  <2>1. Text \in Seq(STRING)
    BY VfsConstants
  <2>2. STRING \subseteq Str
    BY DEF Str
  <2>3. Len(Text) \in Nat /\ Text \in [1 .. Len(Text) -> STRING]
    BY <2>1
  <2>4. Text \in [1 .. Len(Text) -> Str]
    BY <2>2, <2>3
  <2> QED
    BY <2>3, <2>4
<1>9. Writes(w)
  BY <1>3, <1>7, <1>8 DEF Writes, Writing
<1> HIDE DEF w, x
<1>10. ASSUME NEW u, u[c.n] = Text, \A i \in Inodes \ {c.n} : u[i] = t[i]
       PROVE  TextInv(f, u, FALSE)
  <2>1. u[w.ridx] = Over(t[w.ridx], w.offset, w.buf)
    BY <1>3, <1>7, <1>8, <1>10, OverNothing
  <2>2. \A i \in Inodes \ {w.ridx} : u[i] = t[i]
    BY <1>7, <1>10
  <2>3. w.ridx \in c.e.inodemap
    BY <1>3, <1>7
  <2>4. TextInv(f, u, FALSE \/ w.ret < Len(w.buf))
    <3> DEFINE no == FALSE
    <3>1. TextInv(c.e, t, no)
      BY <1>6
    <3> HIDE DEF no, f
    <3>2. TextInv(f, u, no \/ w.ret < Len(w.buf))
      BY <1>4, <1>5, <1>9, <2>1, <2>2, <2>3, <3>1, WriteTexts
    <3> QED
      BY <3>2 DEF no
  <2>5. (FALSE \/ w.ret < Len(w.buf)) = FALSE
    BY <1>7, <1>8
  <2> QED
    BY <2>4, <2>5
<1>11. /\ f.inodemap = c.e.inodemap /\ f.ind[c.n].mode = c.e.ind[c.n].mode
       /\ \A i \in Inodes \ {c.n} : f.ind[i] = c.e.ind[i]
  BY <1>4, <1>7 DEF Wrote
<1>12. /\ f.free_blocks >= e.free_blocks - 1
       /\ f.inodemap = e.inodemap \cup {c.n} /\ f.ind[c.n].mode = FileMode
       /\ \A i \in Inodes \ {c.n, EXT2_ROOT} : f.ind[i] = e.ind[i]
  BY <1>1, <1>3, <1>4, <1>11
<1>13. RootTook(f, n + 1, J)
  BY <1>4 DEF RootTook
<1>14. \A u : u[c.n] = Text /\ (\A i \in Inodes \ {c.n} : u[i] = t[i]) => TextInv(f, u, FALSE)
  BY <1>10
<1> HIDE DEF f
<1>15. FileMade(e, f, c.n, n + 1, J, t)
  BY <1>3, <1>12, <1>13, <1>14 DEF FileMade
<1> QED
  BY <1>15 DEF f, x, c

\* What a file's text is at the start.
Written(e) == [i \in Inodes |-> IF "FILE" \in e.ind[i].mode THEN Text ELSE <<>>]

\* The disk that ext2_init makes (ext2fs.c:38-86) is in order, and its two files hold
\* their text.
LEMMA InitDisk ==
  LET e == ext2_init(Hello, Label, Text) IN DiskInv(e) /\ TextInv(e, Written(e), FALSE)
<1> DEFINE h == ext2_create(Root, EXT2_ROOT, Hello, FileMode)
           w == ext2_write(h.e, h.n, 0, Text).e
           l == ext2_create(w, EXT2_ROOT, Label, FileMode)
           e == ext2_write(l.e, l.n, 0, Text).e
           t == [i \in Inodes |-> <<>>]
           u == [t EXCEPT ![h.n] = Text]
           v == [u EXCEPT ![l.n] = Text]
<1>1. ext2_init(Hello, Label, Text) = e
  BY Zenon DEF ext2_init
<1>2. /\ RootHas(Root, 2, {3, 4}) /\ Root.inodemap = {EXT2_ROOT}
      /\ Root.free_blocks >= 1 /\ Root.free_blocks = NBlocks - 1 /\ NBlocks \in Int
      /\ NBlocks >= 3
  BY RootIs, Sizes, DiskRoom
<1>3. Hello \in Str /\ Label \in Str
  BY VfsConstants DEF Str
<1>4. {3, 4} \in SUBSET (1 .. DirAmut) /\ {3, 4} # {}
  BY Sizes
<1>5. TextInv(Root, t, FALSE)
  <2>1. Root.ind[EXT2_ROOT].mode = RootMode
    BY <1>2 DEF RootHas
  <2> QED
    BY <1>2, <2>1 DEF TextInv, IsFile, RootMode
<1>6. \A i \in Inodes \ Root.inodemap : t[i] = <<>>
  OBVIOUS
<1> DEFINE J == {3, 4}
           r == Root
<1>6a. FileMade(Root, w, h.n, 2 + 1, J, t)
  <2> HIDE DEF t
  <2>1. 2 \in {2, 3}
    OBVIOUS
  <2> QED
    BY <1>2, <1>3, <1>4, <1>5, <1>6, <2>1, InitFile
<1> HIDE DEF h, w
<1>7. /\ RootTook(w, 2 + 1, J)
      /\ w.free_blocks >= Root.free_blocks - 1 /\ h.n \in Inodes \ Root.inodemap
      /\ w.inodemap = Root.inodemap \cup {h.n} /\ w.ind[h.n].mode = FileMode
      /\ \A y : y[h.n] = Text /\ (\A i \in Inodes \ {h.n} : y[i] = t[i])
                  => TextInv(w, y, FALSE)
  BY <1>6a DEF FileMade
<1>8. u[h.n] = Text /\ \A i \in Inodes \ {h.n} : u[i] = t[i] /\ t[i] = <<>>
  BY <1>7
<1>9. TextInv(w, u, FALSE)
  <2> HIDE DEF u, t
  <2> QED
    BY <1>7, <1>8
<1>10. PICK q : RootHas(w, 2 + 1, J \ {q})
  BY <1>7 DEF RootTook
<1> DEFINE K == J \ {q}
<1>11. K \in SUBSET (1 .. DirAmut) /\ K # {} /\ RootHas(w, 3, K)
  <2>1. K # {}
    OBVIOUS
  <2>2. RootHas(w, 3, K)
    BY <1>10
  <2> QED
    BY <1>4, <2>1, <2>2
<1>12. w.free_blocks >= 1
  <2>1. w.free_blocks \in Int
    BY <1>11, DiskFields DEF RootHas, DiskInv
  <2> QED
    BY <1>2, <1>7, <2>1
<1>13. \A i \in Inodes \ w.inodemap : u[i] = <<>>
  BY <1>7, <1>8
<1> HIDE DEF K, J
<1>13a. FileMade(w, e, l.n, 3 + 1, K, u)
  <2> HIDE DEF u
  <2>1. 3 \in {2, 3}
    OBVIOUS
  <2> QED
    BY <1>3, <1>9, <1>11, <1>12, <1>13, <2>1, InitFile
<1> HIDE DEF l, e
<1>14. /\ RootTook(e, 3 + 1, K)
       /\ l.n \in Inodes \ w.inodemap
       /\ e.inodemap = w.inodemap \cup {l.n} /\ e.ind[l.n].mode = FileMode
       /\ \A i \in Inodes \ {l.n, EXT2_ROOT} : e.ind[i] = w.ind[i]
       /\ \A y : y[l.n] = Text /\ (\A i \in Inodes \ {l.n} : y[i] = u[i])
                   => TextInv(e, y, FALSE)
  BY <1>13a DEF FileMade
<1>15. v[l.n] = Text /\ \A i \in Inodes \ {l.n} : v[i] = u[i]
  BY <1>14
<1>16. TextInv(e, v, FALSE)
  <2> HIDE DEF u, v
  <2> QED
    BY <1>14, <1>15
<1>17. DiskInv(e) /\ e.ind[EXT2_ROOT].mode = RootMode
  BY <1>14 DEF RootHas, RootTook
<1>18. TextInv(e, Written(e), FALSE)
  <2> SUFFICES ASSUME NEW i \in e.inodemap, IsFile(e, i)
               PROVE  TextOf(e, e.ind[i], Written(e)[i], FALSE)
    BY DEF TextInv
  <2>1. i \in Inodes /\ i # EXT2_ROOT
    <3>1. i # EXT2_ROOT
      BY <1>17 DEF IsFile, RootMode
    <3>2. e.inodemap \subseteq Inodes
      BY <1>17, DiskFields DEF DiskInv
    <3> QED
      BY <3>1, <3>2
  <2>2. i = h.n \/ i = l.n
    BY <1>2, <1>7, <1>14, <2>1
  <2>3. v[i] = Text
    BY <1>7, <1>8, <1>14, <1>15, <2>2
  <2>4. Written(e)[i] = Text
    BY <2>1 DEF Written, IsFile
  <2> HIDE DEF v
  <2>5. TextOf(e, e.ind[i], v[i], FALSE)
    BY <1>16 DEF TextInv
  <2> QED
    BY <2>3, <2>4, <2>5
<1> QED
  BY <1>1, <1>17, <1>18
=============================================================================
