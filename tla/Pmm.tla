-------------------------------- MODULE Pmm --------------------------------
(***************************************************************************)
(* The physical memory allocator, os-workbench/kernel/src/alloc.c: a pool  *)
(* of block descriptors and a doubly linked list of the free ones in       *)
(* address order, first fit, blocks rounded up to a power of two and       *)
(* merged with their neighbours when freed.                                *)
(*                                                                         *)
(* Addresses and sizes count kilobytes, the smallest block, modulo WORD    *)
(* (uintptr_t and size_t are 32 bits).  Each call runs under memoplk       *)
(* from its first to its last access, so it is one step.  An assert that   *)
(* fails, or a loop that does not end, takes the kernel down: status says  *)
(* which.  Definitions named Bug... are mutations of the one that follows. *)
(***************************************************************************)
EXTENDS Integers, FiniteSets, FiniteSetsExt, Functions

CONSTANTS
  POOL_SIZE,  \* descriptors in pool[]
  WIDTH,      \* 22: uintptr_t and size_t hold 2^22 kilobytes
  PmStart,    \* _heap.start
  PmEnd       \* _heap.end

\* The heap starts above 0 (the kernel is below it) and is smaller than half of
\* the address space.
ASSUME PmmConstants ==
  /\ POOL_SIZE \in Nat \ {0}
  /\ WIDTH \in Nat \ {0}
  /\ PmStart \in Nat \ {0} /\ PmEnd \in Nat
  /\ PmStart < PmEnd /\ PmEnd < 2 ^ WIDTH
  /\ 2 * (PmEnd - PmStart) < 2 ^ WIDTH

WORD  == 2 ^ WIDTH
Pool  == 0 .. POOL_SIZE - 1
HEAD  == POOL_SIZE           \* special[0]
TAIL  == POOL_SIZE + 1       \* special[1]
NULL  == -1
Nodes == Pool \cup {HEAD, TAIL}
Addr  == 0 .. WORD - 1
Units == 0 .. WORD - 1

(***************************************************************************)
(* h is the allocator's memory: the fields of the descriptors, list_size,  *)
(* and whether every internal assert has held so far.  The range of an     *)
(* UNUSED descriptor is written before it is read again (free_cut); the    *)
(* model sets it to 0 where the code leaves the old one.                   *)
(***************************************************************************)
VARIABLES h, mem_used, status

vars == <<h, mem_used, status>>

free_init ==
  [st    |-> [i \in Pool |-> IF i = 0 THEN "UNALLOCATED" ELSE "UNUSED"],
   begin |-> [i \in Pool |-> IF i = 0 THEN PmStart ELSE 0],
   end   |-> [i \in Pool |-> IF i = 0 THEN PmEnd ELSE 0],
   size  |-> [i \in Pool |-> IF i = 0 THEN PmEnd - PmStart ELSE 0],
   prev  |-> [i \in Nodes |-> CASE i = 0 -> HEAD [] i = TAIL -> 0 [] OTHER -> NULL],
   next  |-> [i \in Nodes |-> CASE i = 0 -> TAIL [] i = HEAD -> 0 [] OTHER -> NULL],
   list_size |-> 1,
   ok |-> TRUE]

\* pmm_init; the procfs counter starts at 0.
Init == h = free_init /\ mem_used = 0 /\ status = "up"

\* The nodes in list order, from head: Walk(g)[k] is the k-th.
Walk(g) ==
  LET w[k \in 0 .. POOL_SIZE + 1] ==
        IF k = 0 THEN HEAD
        ELSE IF w[k - 1] \in {TAIL, NULL} THEN w[k - 1] ELSE g.next[w[k - 1]]
  IN w

assert(g, b) == [g EXCEPT !.ok = @ /\ b]

free_check(g) ==
  LET w == Walk(g) n == g.list_size IN
  assert(g, /\ n \in 0 .. POOL_SIZE
            /\ w[n + 1] = TAIL
            /\ \A k \in 1 .. n :
                 /\ w[k] \in Pool
                 /\ g.prev[g.next[w[k]]] = w[k]
                 /\ g.next[g.prev[w[k]]] = w[k])

Free(g) == {i \in Pool : g.st[i] = "UNALLOCATED"}
Unused(g) == {i \in Pool : g.st[i] = "UNUSED"}
Allocated(g) == {i \in Pool : g.st[i] = "ALLOCATED"}

BugUnusedTakesLive(g) == Min(Pool \ Free(g))

get_unused_block(g) == Min(Unused(g))

BugCutKeepsEnd(g, b, size) ==
  LET new == get_unused_block(g) nxt == g.next[b] IN
  [g EXCEPT !.prev = [@ EXCEPT ![new] = b, ![nxt] = new],
            !.next = [@ EXCEPT ![new] = nxt, ![b] = new],
            !.begin[new] = g.begin[b] + size,
            !.end[new] = g.end[b],
            !.size = [@ EXCEPT ![new] = g.size[b] - size, ![b] = size],
            !.st[new] = "UNALLOCATED",
            !.list_size = @ + 1]

free_cut(g, b, size) ==
  LET new == get_unused_block(g) nxt == g.next[b] IN
  [g EXCEPT !.prev = [@ EXCEPT ![new] = b, ![nxt] = new],
            !.next = [@ EXCEPT ![new] = nxt, ![b] = new],
            !.begin[new] = g.begin[b] + size,
            !.end = [@ EXCEPT ![new] = g.end[b], ![b] = g.begin[b] + size],
            !.size = [@ EXCEPT ![new] = g.size[b] - size, ![b] = size],
            !.st[new] = "UNALLOCATED",
            !.list_size = @ + 1]

free_delete(g, b) ==
  LET former == g.prev[b] latter == g.next[b] IN
  [assert(g, b \in Pool /\ g.st[b] = "UNALLOCATED") EXCEPT
     !.next = [@ EXCEPT ![former] = latter, ![b] = NULL],
     !.prev = [@ EXCEPT ![latter] = former, ![b] = NULL],
     !.st[b] = "ALLOCATED",
     !.list_size = @ - 1]

free_adjcent(g, p, q) == p # HEAD /\ q # TAIL /\ g.end[p] = g.begin[q]

BugMergeKeepsSize(g, p, q) ==
  free_check(
    [assert(g, g.end[q] - g.begin[p] = g.size[p] + g.size[q]) EXCEPT
       !.next = [@ EXCEPT ![p] = g.next[q], ![q] = NULL],
       !.prev = [@ EXCEPT ![g.next[q]] = p, ![q] = NULL],
       !.begin[q] = 0,
       !.end = [@ EXCEPT ![p] = g.end[q], ![q] = 0],
       !.size[q] = 0,
       !.st[q] = "UNUSED",
       !.list_size = @ - 1])

free_merge(g, p, q) ==
  free_check(
    [assert(g, /\ g.st[p] = "UNALLOCATED" /\ g.st[q] = "UNALLOCATED"
               /\ g.end[q] - g.begin[p] = g.size[p] + g.size[q]) EXCEPT
       !.next = [@ EXCEPT ![p] = g.next[q], ![q] = NULL],
       !.prev = [@ EXCEPT ![g.next[q]] = p, ![q] = NULL],
       !.begin[q] = 0,
       !.end = [@ EXCEPT ![p] = g.end[q], ![q] = 0],
       !.size = [@ EXCEPT ![p] = g.end[q] - g.begin[p], ![q] = 0],
       !.st[q] = "UNUSED",
       !.list_size = @ - 1])

free_cmp(g, p, q) == p = HEAD \/ q = TAIL \/ g.begin[p] < g.begin[q]

BugFormerHead(g, b) == HEAD

\* Where the loop of free_insert stops: the block goes behind this node.
Former(g, b) ==
  LET w == Walk(g) IN
  w[Min({k \in 0 .. POOL_SIZE :
           w[k] # TAIL /\ free_cmp(g, w[k], b) /\ free_cmp(g, b, w[k + 1])})]

Link(g, p, b) ==
  [assert(g, /\ g.st[b] = "ALLOCATED"
             /\ g.next[p] # TAIL => g.begin[g.next[p]] # g.begin[b])
     EXCEPT !.prev = [@ EXCEPT ![b] = p, ![g.next[p]] = b],
            !.next = [@ EXCEPT ![b] = g.next[p], ![p] = b],
            !.st[b] = "UNALLOCATED",
            !.list_size = @ + 1]

BugInsertMergesRightOnly(g, b) ==
  LET linked == Link(g, Former(g, b), b) latter == linked.next[b] IN
  free_check(IF free_adjcent(linked, b, latter)
             THEN free_merge(linked, b, latter) ELSE linked)

free_insert(g, b) ==
  LET former == Former(g, b)
      linked == Link(g, former, b)
      latter == linked.next[b]
      right  == IF free_adjcent(linked, b, latter)
                THEN free_merge(linked, b, latter) ELSE linked
      both   == IF free_adjcent(right, former, b)
                THEN free_merge(right, former, b) ELSE right
  IN free_check(both)

(***************************************************************************)
(* free_find.  newsz doubles from 1 until it reaches size; in WORD         *)
(* arithmetic it becomes and stays 0 when size is above WORD / 2.          *)
(***************************************************************************)
Powers == {2 ^ k : k \in 0 .. WIDTH - 1}
Fitting(size) == {n \in Powers : n >= size}
newsz(size) == Min(Fitting(size))

MustCut(g, b, sz) == g.size[b] >= (2 * sz) % WORD

\* The first block of the list that is large enough, or TAIL.
FirstFit(g, sz) ==
  LET w == Walk(g) IN
  w[Min({k \in 1 .. POOL_SIZE + 1 : w[k] = TAIL \/ g.size[w[k]] >= sz})]

(***************************************************************************)
(* The interface.  kalloc(0) returns NULL and changes nothing.             *)
(***************************************************************************)
Down(reason) == status' = reason /\ UNCHANGED <<h, mem_used>>

BugTraceRequest(g, b, size) == mem_used + size

\* procfs_mem_trace(block->size, 0), after the cut.
TraceAlloc(g, b, size) == mem_used + g.size[b]

kalloc(size) ==
  /\ status = "up" /\ size # 0
  /\ IF Fitting(size) = {} THEN Down("hang")
     ELSE LET sz == newsz(size) b == FirstFit(h, sz) IN
          IF b = TAIL THEN Down("oom")
          ELSE IF MustCut(h, b, sz) /\ Unused(h) = {} THEN Down("pool")
          ELSE LET g == free_delete(IF MustCut(h, b, sz)
                                    THEN free_cut(h, b, sz) ELSE h, b)
               IN /\ h' = free_check(g)
                  /\ mem_used' = TraceAlloc(g, b, size)
                  /\ status' = IF h'.ok THEN "up" ELSE "corrupt"

find_allocated_block(ptr) == {i \in Allocated(h) : h.begin[i] = ptr}

kfree(ptr) ==
  /\ status = "up"
  /\ IF find_allocated_block(ptr) = {} THEN Down("badfree")
     ELSE LET b == Min(find_allocated_block(ptr)) IN
          /\ h' = free_insert(h, b)
          /\ mem_used' = mem_used - h.size[b]
          /\ status' = IF h'.ok THEN "up" ELSE "corrupt"

Stopped == status # "up" /\ UNCHANGED vars

Next ==
  \/ \E size \in Units : kalloc(size)
  \/ \E ptr \in Addr : kfree(ptr)
  \/ Stopped

Spec == Init /\ [][Next]_vars

(***************************************************************************)
(* Properties.                                                             *)
(***************************************************************************)
InUse(g) == Free(g) \cup Allocated(g)
Span(g, i) == g.begin[i] .. g.end[i] - 1

\* Types; no descriptor the list or a caller can see is out of range.
TypeOK ==
  /\ h.st \in [Pool -> {"UNUSED", "UNALLOCATED", "ALLOCATED"}]
  /\ h.begin \in [Pool -> Addr] /\ h.end \in [Pool -> Addr]
  /\ h.size \in [Pool -> Units]
  /\ h.prev \in [Nodes -> Nodes \cup {NULL}]
  /\ h.next \in [Nodes -> Nodes \cup {NULL}]
  /\ h.list_size \in 0 .. POOL_SIZE
  /\ mem_used \in Units
  /\ status \in {"up", "hang", "oom", "pool", "badfree", "corrupt"}

\* No assert on the allocator's own structures ever fails (alloc.c:93-97, 144-156,
\* 185-193, 211-213): only what a caller asks for can take the kernel down.
NeverCorrupt == status # "corrupt"

\* The list holds exactly the free descriptors, in ascending address order
\* (alloc.c:179): none is lost and none is reachable twice.
ListIsFreeSet ==
  LET w == Walk(h) n == h.list_size IN
  /\ {w[k] : k \in 1 .. n} = Free(h) /\ Cardinality(Free(h)) = n
  /\ \A k \in 1 .. n - 1 : h.begin[w[k]] < h.begin[w[k + 1]]

\* The free and the allocated blocks tile the heap: none overlaps another, none
\* is empty and no byte is lost, through any sequence of cuts and merges.
Tiling ==
  /\ \A i \in InUse(h) : h.size[i] = h.end[i] - h.begin[i] /\ h.size[i] > 0
  /\ \A i, j \in InUse(h) : i # j => Span(h, i) \cap Span(h, j) = {}
  /\ UNION {Span(h, i) : i \in InUse(h)} = PmStart .. PmEnd - 1

\* Once everything is freed the allocator is exactly in the state free_init left:
\* one free block, in descriptor 0, that covers the heap.
BackToInitial == Allocated(h) = {} => h = free_init

\* What /proc/meminfo reports as used is the memory handed out (alloc.c:276, 290).
MemUsedExact == mem_used = MapThenSumSet(LAMBDA i : h.size[i], Allocated(h))

\* kalloc gives up for want of memory (alloc.c:238) only if no run of free memory,
\* over however many blocks, is as long as the rounded request: freed neighbours
\* never stay apart.
FreeRunIsOneBlock ==
  \A a, b \in PmStart .. PmEnd :
    a < b /\ (\A i \in Allocated(h) : Span(h, i) \cap (a .. b - 1) = {}) =>
      \E i \in Free(h) : a .. b - 1 \subseteq Span(h, i)

\* A block that is handed out keeps its place and its size until it is freed,
\* whatever is cut and merged around it.
LiveBlocksStay ==
  [][\A i \in Allocated(h) :
       \/ h'.st[i] = "ALLOCATED" /\ h'.begin[i] = h.begin[i] /\ h'.end[i] = h.end[i]
       \/ kfree(h.begin[i])]_vars
=============================================================================
