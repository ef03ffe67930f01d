------------------------------ MODULE PmmProofs ------------------------------
(***************************************************************************)
(* The allocator keeps its structures, for every pool, heap and word size. *)
(* The free list is a chain of nodes, v[0] = head to v[n + 1] = tail, which *)
(* a cut or an insertion makes longer and an allocation or a merge shorter  *)
(* by one node; the blocks are intervals, and only neighbours are ever cut  *)
(* or merged.                                                               *)
(***************************************************************************)
EXTENDS Pmm, Lemmas

States == {"UNUSED", "UNALLOCATED", "ALLOCATED"}

\* The memory of an allocator none of whose asserts has failed.
Heaps ==
  [st : [Pool -> States], begin : [Pool -> Addr], end : [Pool -> Addr],
   size : [Pool -> Units], prev : [Nodes -> Nodes \cup {NULL}],
   next : [Nodes -> Nodes \cup {NULL}], list_size : Nat, ok : {TRUE}]

\* v is the list of n nodes between head and tail that the pointers make.
IsChain(nx, pv, v, n) ==
  /\ n \in Nat /\ v \in [0 .. n + 1 -> Nodes]
  /\ v[0] = HEAD /\ v[n + 1] = TAIL
  /\ \A k \in 1 .. n : v[k] \in Pool
  /\ \A j, k \in 0 .. n + 1 : v[j] = v[k] => j = k
  /\ \A k \in 0 .. n : nx[v[k]] = v[k + 1] /\ pv[v[k + 1]] = v[k]

\* v lists the free blocks of g in ascending order.
Lists(g, v) ==
  /\ IsChain(g.next, g.prev, v, g.list_size)
  /\ \A i \in Pool : i \in Free(g) <=> \E k \in 1 .. g.list_size : v[k] = i
  /\ \A j, k \in 1 .. g.list_size : j < k => g.begin[v[j]] < g.begin[v[k]]

Listing(g) == [k \in 0 .. g.list_size + 1 |-> Walk(g)[k]]

\* The blocks in use are intervals of the heap, none of which is empty or meets
\* another, and every address is in one.
Tiles(g) ==
  /\ \A i \in InUse(g) : /\ g.size[i] = g.end[i] - g.begin[i] /\ g.size[i] > 0
                         /\ PmStart <= g.begin[i] /\ g.end[i] <= PmEnd
  /\ \A i, j \in InUse(g) : i # j => g.end[i] <= g.begin[j] \/ g.end[j] <= g.begin[i]
  /\ \A a \in PmStart .. PmEnd - 1 :
       \E i \in InUse(g) : g.begin[i] <= a /\ a < g.end[i]

\* No free block begins where another ends.
Apart(g) == \A i, j \in Free(g) : g.end[i] # g.begin[j]

\* What is left in a descriptor that is not in the list; block 0 stays in use.
Tidy(g) ==
  /\ \A i \in Unused(g) : g.begin[i] = 0 /\ g.end[i] = 0 /\ g.size[i] = 0
  /\ \A i \in Pool \ Free(g) : g.prev[i] = NULL /\ g.next[i] = NULL
  /\ g.prev[HEAD] = NULL /\ g.next[TAIL] = NULL
  /\ 0 \in InUse(g) /\ g.begin[0] = PmStart

\* All the blocks together are as large as the heap.
Total(g) == SumOver(g.size, InUse(g)) = PmEnd - PmStart

HeapInv(g) == g \in Heaps /\ Lists(g, Listing(g)) /\ Tiles(g) /\ Tidy(g) /\ Total(g)

PInv ==
  /\ HeapInv(h) /\ Apart(h) /\ MemUsedExact
  /\ status \in {"up", "hang", "oom", "pool", "badfree"}
(***************************************************************************)
(* Chains.                                                                 *)
(***************************************************************************)
\* The nodes.
LEMMA NodeFacts ==
  /\ POOL_SIZE \in Nat /\ POOL_SIZE > 0 /\ 0 \in Pool
  /\ HEAD \notin Pool /\ TAIL \notin Pool /\ HEAD # TAIL /\ NULL \notin Nodes
  /\ Pool \subseteq Nodes /\ HEAD \in Nodes /\ TAIL \in Nodes
  /\ \A i \in Nodes : i \in Int /\ i # NULL
BY PmmConstants DEF Pool, HEAD, TAIL, NULL, Nodes

\* The heap is within the address space.
LEMMA AddrFacts ==
  /\ WORD \in Int /\ PmStart \in Nat /\ PmEnd \in Nat /\ 0 < PmStart /\ PmStart < PmEnd
  /\ PmEnd < WORD /\ 2 * (PmEnd - PmStart) < WORD
  /\ \A a : a \in Addr <=> a \in Int /\ 0 <= a /\ a < WORD
  /\ \A a : a \in Units <=> a \in Int /\ 0 <= a /\ a < WORD
BY PmmConstants DEF WORD, Addr, Units

\* The pointers after node b goes behind node x, and after node b is taken out.
NextIn(nx, x, b) == [nx EXCEPT ![b] = nx[x], ![x] = b]
PrevIn(nx, pv, x, b) == [pv EXCEPT ![b] = x, ![nx[x]] = b]
NextOut(nx, x, b, y) == [nx EXCEPT ![x] = y, ![b] = NULL]
PrevOut(pv, x, b, y) == [pv EXCEPT ![y] = x, ![b] = NULL]

\* The list after that.
ListIn(v, n, p, b) ==
  [k \in 0 .. n + 2 |-> IF k <= p THEN v[k] ELSE IF k = p + 1 THEN b ELSE v[k - 1]]
ListOut(v, n, r) == [k \in 0 .. n |-> IF k < r THEN v[k] ELSE v[k + 1]]

NotListed(v, n, b) == \A k \in 1 .. n : v[k] # b

\* A node behind node p of a chain.
LEMMA ChainInsert ==
  ASSUME NEW nx \in [Nodes -> Nodes \cup {NULL}], NEW pv \in [Nodes -> Nodes \cup {NULL}],
         NEW v, NEW n, IsChain(nx, pv, v, n),
         NEW p \in 0 .. n, NEW b \in Pool, NotListed(v, n, b)
  PROVE  IsChain(NextIn(nx, v[p], b), PrevIn(nx, pv, v[p], b), ListIn(v, n, p, b), n + 1)
<1> DEFINE u == [k \in 0 .. n + 2 |-> IF k <= p THEN v[k]
                                      ELSE IF k = p + 1 THEN b ELSE v[k - 1]]
           ny == [nx EXCEPT ![b] = nx[v[p]], ![v[p]] = b]
           pw == [pv EXCEPT ![b] = v[p], ![nx[v[p]]] = b]
<1>1. /\ n \in Nat /\ v \in [0 .. n + 1 -> Nodes] /\ v[0] = HEAD /\ v[n + 1] = TAIL
      /\ \A k \in 1 .. n : v[k] \in Pool
      /\ \A j, k \in 0 .. n + 1 : v[j] = v[k] => j = k
      /\ \A k \in 0 .. n : nx[v[k]] = v[k + 1] /\ pv[v[k + 1]] = v[k]
  BY DEF IsChain
<1>0. \A k \in 1 .. n : v[k] # b
  BY DEF NotListed
<1>2. \A k \in 0 .. n + 1 : v[k] # b
  <2> TAKE k \in 0 .. n + 1
  <2>1. k \in 1 .. n \/ k = 0 \/ k = n + 1
    BY <1>1
  <2> QED
    BY <1>0, <1>1, <2>1, NodeFacts
<1>3. /\ \A k \in 0 .. p : u[k] = v[k] /\ u[p + 1] = b
      /\ \A k \in p + 2 .. n + 2 : u[k] = v[k - 1] /\ k - 1 \in 0 .. n + 1
      /\ \A k \in 0 .. n + 2 : k \in 0 .. p \/ k = p + 1 \/ k \in p + 2 .. n + 2
  BY <1>1
<1>4. u \in [0 .. n + 2 -> Nodes]
  BY <1>1, NodeFacts, SMTT(20)
<1> HIDE DEF u
<1>5. u[0] = HEAD /\ u[n + 2] = TAIL
  <2>1. 0 \in 0 .. p /\ n + 2 \in p + 2 .. n + 2 /\ (n + 2) - 1 = n + 1
    BY <1>1
  <2> QED
    BY <1>1, <1>3, <2>1
<1>6. ASSUME NEW k \in 1 .. n + 1 PROVE u[k] \in Pool
  <2>1. CASE k <= p
    <3>1. k \in 0 .. p /\ k \in 1 .. n
      BY <1>1, <2>1
    <3> QED
      BY <1>1, <1>3, <3>1
  <2>2. CASE k = p + 1
    BY <1>3, <2>2
  <2>3. CASE k > p + 1
    <3>1. k \in p + 2 .. n + 2 /\ k - 1 \in 1 .. n
      BY <1>1, <2>3
    <3> QED
      BY <1>1, <1>3, <3>1
  <2> QED
    BY <2>1, <2>2, <2>3
<1> DEFINE src(k) == IF k <= p THEN k ELSE k - 1
<1>7. ASSUME NEW k \in 0 .. n + 2, k # p + 1 PROVE u[k] = v[src(k)] /\ src(k) \in 0 .. n + 1
  BY <1>1, <1>3, <1>7
<1>8. ASSUME NEW j \in 0 .. n + 2, NEW k \in 0 .. n + 2, u[j] = u[k] PROVE j = k
  <2>1. CASE j = p + 1 /\ k # p + 1
    BY <1>2, <1>3, <1>7, <1>8, <2>1
  <2>2. CASE j # p + 1 /\ k = p + 1
    BY <1>2, <1>3, <1>7, <1>8, <2>2
  <2>3. CASE j # p + 1 /\ k # p + 1
    <3>1. src(j) = src(k)
      BY <1>1, <1>7, <1>8, <2>3
    <3> QED
      BY <2>3, <3>1
  <2> QED
    BY <2>1, <2>2, <2>3
<1>9. v[p] \in Nodes /\ nx[v[p]] = v[p + 1] /\ v[p + 1] \in Nodes /\ p + 1 \in 0 .. n + 1
      /\ b \in Nodes /\ b # v[p] /\ b # v[p + 1] /\ p \in 0 .. n + 1
  BY <1>1, <1>2, NodeFacts
<1>10. /\ ny[b] = v[p + 1] /\ ny[v[p]] = b /\ pw[b] = v[p] /\ pw[v[p + 1]] = b
       /\ \A i \in Nodes : i # b /\ i # v[p] => ny[i] = nx[i]
       /\ \A i \in Nodes : i # b /\ i # v[p + 1] => pw[i] = pv[i]
  BY <1>9
<1> HIDE DEF ny, pw
<1>11. ASSUME NEW k \in 0 .. n + 1 PROVE ny[u[k]] = u[k + 1] /\ pw[u[k + 1]] = u[k]
  <2>1. CASE k = p
    <3>1. u[k] = v[p] /\ u[k + 1] = b
      BY <1>3, <2>1
    <3> QED
      BY <1>10, <3>1
  <2>2. CASE k = p + 1
    <3>1. k + 1 \in p + 2 .. n + 2 /\ (k + 1) - 1 = p + 1
      BY <1>1, <1>2, <2>2
    <3>2. u[k] = b /\ u[k + 1] = v[p + 1]
      BY <1>3, <2>2, <3>1
    <3> QED
      BY <1>10, <3>2
  <2>3. CASE k < p
    <3>1. k \in 0 .. p /\ k + 1 \in 0 .. p /\ k \in 0 .. n /\ k \in 0 .. n + 1
          /\ k + 1 \in 0 .. n + 1
      BY <1>1, <2>3
    <3>2. u[k] = v[k] /\ u[k + 1] = v[k + 1] /\ v[k] \in Nodes /\ v[k + 1] \in Nodes
      BY <1>1, <1>3, <3>1
    <3>3. v[k] # v[p] /\ v[k + 1] # v[p + 1] /\ v[k] # b /\ v[k + 1] # b
      BY <1>1, <1>2, <1>9, <2>3, <3>1
    <3>4. nx[v[k]] = v[k + 1] /\ pv[v[k + 1]] = v[k]
      BY <1>1, <3>1
    <3> QED
      BY <1>10, <3>2, <3>3, <3>4
  <2>4. CASE k > p + 1
    <3> DEFINE j == k - 1
    <3>1. k \in p + 2 .. n + 2 /\ k + 1 \in p + 2 .. n + 2 /\ (k + 1) - 1 = j + 1
          /\ j \in 0 .. n /\ j \in 0 .. n + 1 /\ j + 1 \in 0 .. n + 1 /\ j # p /\ j + 1 # p + 1
      BY <1>1, <2>4
    <3>2. u[k] = v[k - 1] /\ u[k + 1] = v[(k + 1) - 1]
      BY <1>3, <3>1, Zenon
    <3>6. u[k] = v[j] /\ u[k + 1] = v[j + 1]
      BY <3>1, <3>2
    <3> HIDE DEF j
    <3>3. v[j] \in Nodes /\ v[j + 1] \in Nodes
      BY <1>1, <3>1
    <3>4. v[j] # v[p] /\ v[j + 1] # v[p + 1] /\ v[j] # b /\ v[j + 1] # b
      BY <1>1, <1>2, <1>9, <3>1
    <3>5. nx[v[j]] = v[j + 1] /\ pv[v[j + 1]] = v[j]
      BY <1>1, <3>1
    <3> QED
      BY <1>10, <3>3, <3>4, <3>5, <3>6
  <2> QED
    BY <1>1, <2>1, <2>2, <2>3, <2>4
<1>12. IsChain(ny, pw, u, n + 1)
  <2>1. n + 1 \in Nat /\ (n + 1) + 1 = n + 2
    BY <1>1
  <2> QED
    BY <1>4, <1>5, <1>6, <1>8, <1>11, <2>1 DEF IsChain
<1> QED
  BY <1>12 DEF ny, pw, u, NextIn, PrevIn, ListIn
\* Node r of a chain taken out.
LEMMA ChainRemove ==
  ASSUME NEW nx \in [Nodes -> Nodes \cup {NULL}], NEW pv \in [Nodes -> Nodes \cup {NULL}],
         NEW v, NEW n, IsChain(nx, pv, v, n), NEW r \in 1 .. n
  PROVE  IsChain(NextOut(nx, v[r - 1], v[r], v[r + 1]),
                 PrevOut(pv, v[r - 1], v[r], v[r + 1]), ListOut(v, n, r), n - 1)
<1> DEFINE u == [k \in 0 .. n |-> IF k < r THEN v[k] ELSE v[k + 1]]
           ny == [nx EXCEPT ![v[r - 1]] = v[r + 1], ![v[r]] = NULL]
           pw == [pv EXCEPT ![v[r + 1]] = v[r - 1], ![v[r]] = NULL]
<1>1. /\ n \in Nat /\ v \in [0 .. n + 1 -> Nodes] /\ v[0] = HEAD /\ v[n + 1] = TAIL
      /\ \A k \in 1 .. n : v[k] \in Pool
      /\ \A j, k \in 0 .. n + 1 : v[j] = v[k] => j = k
      /\ \A k \in 0 .. n : nx[v[k]] = v[k + 1] /\ pv[v[k + 1]] = v[k]
  BY DEF IsChain
<1> DEFINE src(k) == IF k < r THEN k ELSE k + 1
<1>2. ASSUME NEW k \in 0 .. n
      PROVE  u[k] = v[src(k)] /\ src(k) \in 0 .. n + 1 /\ src(k) # r
  BY <1>1
<1>3. u \in [0 .. n -> Nodes]
  BY <1>1
<1> HIDE DEF u
<1>4. u[0] = HEAD /\ u[n] = TAIL
  <2>1. 0 \in 0 .. n /\ n \in 0 .. n /\ src(0) = 0 /\ src(n) = n + 1
    BY <1>1
  <2> QED
    BY <1>1, <1>2, <2>1
<1>5. ASSUME NEW k \in 1 .. n - 1 PROVE u[k] \in Pool
  <2>1. k \in 0 .. n /\ src(k) \in 1 .. n
    BY <1>1
  <2> QED
    BY <1>1, <1>2, <2>1
<1>6. ASSUME NEW j \in 0 .. n, NEW k \in 0 .. n, u[j] = u[k] PROVE j = k
  <2>1. src(j) = src(k)
    BY <1>1, <1>2, <1>6
  <2> QED
    BY <1>1, <2>1
<1>7. /\ r \in 0 .. n + 1 /\ r - 1 \in 0 .. n + 1 /\ r + 1 \in 0 .. n + 1 /\ r - 1 \in 0 .. n
      /\ r \in 0 .. n /\ r - 1 # r /\ r + 1 # r /\ (r - 1) + 1 = r
  BY <1>1
<1>8. /\ v[r] \in Nodes /\ v[r - 1] \in Nodes /\ v[r + 1] \in Nodes
      /\ v[r] # v[r - 1] /\ v[r] # v[r + 1]
  BY <1>1, <1>7
<1>9. /\ ny[v[r - 1]] = v[r + 1] /\ pw[v[r + 1]] = v[r - 1]
      /\ \A i \in Nodes : i # v[r - 1] /\ i # v[r] => ny[i] = nx[i]
      /\ \A i \in Nodes : i # v[r + 1] /\ i # v[r] => pw[i] = pv[i]
  BY <1>8
<1> HIDE DEF ny, pw
<1>10. ASSUME NEW k \in 0 .. n - 1 PROVE ny[u[k]] = u[k + 1] /\ pw[u[k + 1]] = u[k]
  <2>0. k \in 0 .. n /\ k + 1 \in 0 .. n
    BY <1>1
  <2>1. CASE k = r - 1
    <3>1. src(k) = r - 1 /\ src(k + 1) = r + 1
      BY <2>1
    <3>2. u[k] = v[r - 1] /\ u[k + 1] = v[r + 1]
      BY <1>2, <2>0, <3>1
    <3> QED
      BY <1>9, <3>2
  <2>2. CASE k # r - 1
    <3> DEFINE j == src(k)
    <3>1. /\ src(k + 1) = j + 1 /\ j \in 0 .. n /\ j \in 0 .. n + 1 /\ j + 1 \in 0 .. n + 1
          /\ j # r - 1 /\ j # r /\ j + 1 # r /\ j + 1 # r + 1
      BY <1>1, <1>2, <2>2
    <3>2. u[k] = v[j] /\ u[k + 1] = v[j + 1]
      BY <1>2, <2>0, <3>1
    <3> HIDE DEF j
    <3>3. v[j] \in Nodes /\ v[j + 1] \in Nodes
      BY <1>1, <3>1
    <3>4. v[j] # v[r - 1] /\ v[j] # v[r] /\ v[j + 1] # v[r] /\ v[j + 1] # v[r + 1]
      BY <1>1, <1>7, <3>1
    <3>5. nx[v[j]] = v[j + 1] /\ pv[v[j + 1]] = v[j]
      BY <1>1, <3>1
    <3> QED
      BY <1>9, <3>2, <3>3, <3>4, <3>5
  <2> QED
    BY <2>1, <2>2
<1>11. IsChain(ny, pw, u, n - 1)
  <2>1. n - 1 \in Nat /\ (n - 1) + 1 = n
    BY <1>1
  <2> QED
    BY <1>3, <1>4, <1>5, <1>6, <1>10, <2>1 DEF IsChain
<1> QED
  BY <1>11 DEF ny, pw, u, NextOut, PrevOut, ListOut

\* Different nodes for different positions: a list is as long as it has nodes.
LEMMA CountNodes ==
  ASSUME NEW n \in Nat, NEW v, NEW S, \A k \in 1 .. n : v[k] \in S,
         \A x \in S : \E k \in 1 .. n : v[k] = x,
         \A j, k \in 1 .. n : v[j] = v[k] => j = k
  PROVE  IsFiniteSet(S) /\ Cardinality(S) = n
<1> DEFINE f == [k \in 1 .. n |-> v[k]]
<1>1. f \in [1 .. n -> S]
  OBVIOUS
<1>2. f \in Bijection(1 .. n, S)
  BY <1>1 DEF Bijection, Injection, Surjection, IsInjective
<1>3. ExistsBijection(1 .. n, S)
  BY <1>2 DEF ExistsBijection
<1>4. IsFiniteSet(S)
  BY <1>3, FS_NatBijection
<1>5. Cardinality(S) = n
  BY <1>3, FS_CountingElements
<1> QED
  BY <1>4, <1>5
\* A chain is no longer than the pool.
LEMMA ChainShort ==
  ASSUME NEW nx, NEW pv, NEW v, NEW n, IsChain(nx, pv, v, n)
  PROVE  n \in Nat /\ n <= POOL_SIZE
<1> DEFINE S == {v[k] : k \in 1 .. n}
<1>1. n \in Nat /\ \A k \in 1 .. n : v[k] \in Pool
  BY DEF IsChain
<1>2. \A j, k \in 1 .. n : v[j] = v[k] => j = k
  <2>1. \A k \in 1 .. n : k \in 0 .. n + 1
    BY <1>1
  <2> QED
    BY <2>1 DEF IsChain
<1>3. /\ \A k \in 1 .. n : v[k] \in S
      /\ \A x \in S : \E k \in 1 .. n : v[k] = x
      /\ S \subseteq Pool
  BY <1>1
<1> HIDE DEF S
<1>4. Cardinality(S) = n
  BY <1>1, <1>2, <1>3, CountNodes
<1>5. IsFiniteSet(Pool) /\ Cardinality(Pool) = POOL_SIZE
  <2>1. 0 \in Int /\ POOL_SIZE - 1 \in Int /\ POOL_SIZE \in Nat /\ POOL_SIZE > 0
    BY NodeFacts
  <2>2. /\ IsFiniteSet(0 .. POOL_SIZE - 1)
        /\ Cardinality(0 .. POOL_SIZE - 1) =
             IF 0 > POOL_SIZE - 1 THEN 0 ELSE (POOL_SIZE - 1) - 0 + 1
    BY <2>1, FS_Interval
  <2> QED
    BY <2>1, <2>2 DEF Pool
<1>6. Cardinality(S) <= Cardinality(Pool)
  BY <1>3, <1>5, FS_Subset
<1> QED
  BY <1>1, <1>4, <1>5, <1>6

\* The loops that follow next from head walk along the chain.
LEMMA WalkIsChain ==
  ASSUME NEW g, NEW v, NEW n, IsChain(g.next, g.prev, v, n)
  PROVE  /\ \A k \in 0 .. n + 1 : Walk(g)[k] = v[k]
         /\ \A k \in 0 .. POOL_SIZE + 1 : k > n => Walk(g)[k] = TAIL
<1> DEFINE P == POOL_SIZE + 1
           nx == g.next
           Is(w) == w = [k \in 0 .. P |->
                           IF k = 0 THEN HEAD
                           ELSE IF w[k - 1] \in {TAIL, NULL} THEN w[k - 1] ELSE nx[w[k - 1]]]
           u == [k \in 0 .. P |-> IF k <= n + 1 THEN v[k] ELSE TAIL]
           W == CHOOSE w : Is(w)
<1>1. /\ n \in Nat /\ v \in [0 .. n + 1 -> Nodes] /\ v[0] = HEAD /\ v[n + 1] = TAIL
      /\ \A k \in 1 .. n : v[k] \in Pool
      /\ \A k \in 0 .. n : nx[v[k]] = v[k + 1]
  BY DEF IsChain
<1>2. n <= POOL_SIZE /\ POOL_SIZE \in Nat
  BY ChainShort, NodeFacts
<1>3. Walk(g) = W
  BY DEF Walk
<1> HIDE DEF nx
<1>4. ASSUME NEW k \in 0 .. P
      PROVE  u[k] = IF k = 0 THEN HEAD
                    ELSE IF u[k - 1] \in {TAIL, NULL} THEN u[k - 1] ELSE nx[u[k - 1]]
  <2>1. CASE k = 0
    BY <1>1, <2>1
  <2>2. CASE k \in 1 .. n + 1
    <3>1. k - 1 \in 0 .. n /\ k - 1 \in 0 .. P /\ k - 1 <= n + 1 /\ (k - 1) + 1 = k /\ k # 0
      BY <1>1, <1>2, <2>2
    <3>2. u[k - 1] = v[k - 1] /\ u[k] = v[k]
      BY <1>1, <2>2, <3>1
    <3>3. v[k - 1] \notin {TAIL, NULL}
      <4>1. k - 1 = 0 \/ k - 1 \in 1 .. n
        BY <3>1
      <4> QED
        BY <1>1, <4>1, NodeFacts
    <3>4. nx[v[k - 1]] = v[k]
      BY <1>1, <3>1
    <3> HIDE DEF u
    <3> QED
      BY <3>1, <3>2, <3>3, <3>4
  <2>3. CASE k > n + 1
    <3>1. k - 1 \in 0 .. P /\ k # 0 /\ (k - 1 = n + 1 \/ k - 1 > n + 1)
      BY <1>1, <1>2, <2>3
    <3>2. u[k - 1] = TAIL /\ u[k] = TAIL
      BY <1>1, <1>2, <2>3, <3>1
    <3> HIDE DEF u
    <3> QED
      BY <3>1, <3>2
  <2> QED
    BY <1>1, <1>2, <2>1, <2>2, <2>3
<1>5. u = [k \in 0 .. P |-> u[k]]
  OBVIOUS
<1>6. ASSUME NEW k \in 0 .. P PROVE (k <= n + 1 => u[k] = v[k]) /\ (k > n => u[k] = TAIL)
  BY <1>1, <1>2
<1> HIDE DEF u
<1>7. Is(u)
  BY <1>4, <1>5, ZenonT(40)
<1>8. Is(W)
  <2> HIDE DEF Is
  <2> QED
    BY <1>7, Zenon
<1> HIDE DEF W
<1>9. \A k \in 0 .. P : W[k] = u[k]
  <2> DEFINE N == {k \in Nat : k \in 0 .. P => W[k] = u[k]}
  <2>0. \A k \in 0 .. P : W[k] = IF k = 0 THEN HEAD
                    ELSE IF W[k - 1] \in {TAIL, NULL} THEN W[k - 1] ELSE nx[W[k - 1]]
    BY <1>8
  <2>1. 0 \in N
    BY <1>2, <1>4, <2>0
  <2>2. ASSUME NEW k \in N PROVE k + 1 \in N
    <3> SUFFICES ASSUME k + 1 \in 0 .. P PROVE W[k + 1] = u[k + 1]
      OBVIOUS
    <3>1. k \in 0 .. P /\ (k + 1) - 1 = k /\ k + 1 # 0
      BY <1>2
    <3>2. W[k] = u[k]
      BY <3>1
    <3>3. W[k + 1] = IF W[k] \in {TAIL, NULL} THEN W[k] ELSE nx[W[k]]
      BY <2>0, <3>1
    <3>4. u[k + 1] = IF u[k] \in {TAIL, NULL} THEN u[k] ELSE nx[u[k]]
      BY <1>4, <3>1
    <3> QED
      BY <3>2, <3>3, <3>4
  <2>3. N = Nat
    <3>1. N \in SUBSET Nat
      OBVIOUS
    <3> HIDE DEF N
    <3> QED
      BY <2>1, <2>2, <3>1, SetInduction
  <2>4. \A k \in 0 .. P : k \in Nat
    BY <1>2
  <2> QED
    BY <2>3, <2>4
<1>10. \A k \in 0 .. n + 1 : k \in 0 .. P /\ k <= n + 1
  BY <1>1, <1>2
<1> HIDE DEF Is
<1>11. /\ \A k \in 0 .. n + 1 : W[k] = v[k]
       /\ \A k \in 0 .. P : k > n => W[k] = TAIL
  BY <1>6, <1>9, <1>10
<1> QED
  BY <1>3, <1>11
(***************************************************************************)
(* The heap as a whole.                                                    *)
(***************************************************************************)
\* The fields of a heap.
LEMMA HeapFields ==
  ASSUME NEW g \in Heaps
  PROVE  /\ g.st \in [Pool -> States] /\ g.begin \in [Pool -> Addr]
         /\ g.end \in [Pool -> Addr] /\ g.size \in [Pool -> Units]
         /\ g.prev \in [Nodes -> Nodes \cup {NULL}]
         /\ g.next \in [Nodes -> Nodes \cup {NULL}] /\ g.list_size \in Nat
         /\ g.ok = TRUE
BY DEF Heaps

\* An assert that holds changes nothing.
LEMMA AssertHolds ==
  ASSUME NEW g \in Heaps, NEW b, b = TRUE
  PROVE  assert(g, b) = g
<1>1. g.ok = TRUE /\ (g.ok /\ b) = TRUE
  BY HeapFields
<1>2. [g EXCEPT !.ok = TRUE] = g
  BY <1>1 DEF Heaps
<1> QED
  BY <1>1, <1>2 DEF assert

\* There is one list of the free blocks: the one the loops walk along.
LEMMA OneListing ==
  ASSUME NEW g \in Heaps, NEW v, Lists(g, v)
  PROVE  v = Listing(g) /\ Lists(g, Listing(g))
<1> DEFINE n == g.list_size
<1>1. IsChain(g.next, g.prev, v, n)
  BY DEF Lists
<1>2. \A k \in 0 .. n + 1 : Walk(g)[k] = v[k]
  BY <1>1, WalkIsChain
<1>3. v = [k \in 0 .. n + 1 |-> v[k]]
  BY <1>1 DEF IsChain
<1>4. Listing(g) = [k \in 0 .. n + 1 |-> v[k]]
  BY <1>2 DEF Listing
<1> QED
  BY <1>3, <1>4

\* What the list says of the free blocks.
LEMMA ListFacts ==
  ASSUME NEW g \in Heaps, NEW v, Lists(g, v), NEW n, n = g.list_size
  PROVE  /\ n \in Nat /\ v \in [0 .. n + 1 -> Nodes] /\ v[0] = HEAD /\ v[n + 1] = TAIL
         /\ \A k \in 1 .. n : v[k] \in Pool /\ v[k] \in Free(g)
         /\ \A j, k \in 0 .. n + 1 : v[j] = v[k] => j = k
         /\ \A k \in 0 .. n : g.next[v[k]] = v[k + 1] /\ g.prev[v[k + 1]] = v[k]
         /\ \A i \in Free(g) : i \in Pool /\ \E k \in 1 .. n : v[k] = i
         /\ \A j, k \in 1 .. n : j < k => g.begin[v[j]] < g.begin[v[k]]
<1>1. \A i \in Free(g) : i \in Pool
  BY DEF Free
<1> QED
  BY <1>1 DEF Lists, IsChain

\* free_check finds nothing wrong with such a list.
LEMMA CheckHolds ==
  ASSUME NEW g \in Heaps, NEW v, Lists(g, v)
  PROVE  free_check(g) = g
<1> DEFINE n == g.list_size
           w == Walk(g)
           B == /\ n \in 0 .. POOL_SIZE
                /\ w[n + 1] = TAIL
                /\ \A k \in 1 .. n :
                     /\ w[k] \in Pool
                     /\ g.prev[g.next[w[k]]] = w[k]
                     /\ g.next[g.prev[w[k]]] = w[k]
<1>1. IsChain(g.next, g.prev, v, n)
  BY DEF Lists
<1>2. \A k \in 0 .. n + 1 : w[k] = v[k]
  BY <1>1, WalkIsChain
<1>3. n \in Nat /\ n <= POOL_SIZE /\ POOL_SIZE \in Nat
  BY <1>1, ChainShort, NodeFacts
<1>4. /\ v[n + 1] = TAIL /\ \A k \in 1 .. n : v[k] \in Pool
      /\ \A k \in 0 .. n : g.next[v[k]] = v[k + 1] /\ g.prev[v[k + 1]] = v[k]
  BY <1>1 DEF IsChain
<1> HIDE DEF n, w
<1>5. ASSUME NEW k \in 1 .. n
      PROVE  w[k] \in Pool /\ g.prev[g.next[w[k]]] = w[k] /\ g.next[g.prev[w[k]]] = w[k]
  <2>1. k \in 0 .. n /\ k \in 0 .. n + 1 /\ k - 1 \in 0 .. n /\ (k - 1) + 1 = k
    BY <1>3
  <2>2. w[k] = v[k] /\ v[k] \in Pool
    BY <1>2, <1>4, <2>1
  <2>3. g.next[v[k]] = v[k + 1] /\ g.prev[v[k + 1]] = v[k]
    BY <1>4, <2>1
  <2>4. g.next[v[k - 1]] = v[(k - 1) + 1] /\ g.prev[v[(k - 1) + 1]] = v[k - 1]
    BY <1>4, <2>1
  <2> QED
    BY <2>1, <2>2, <2>3, <2>4
<1>6. n \in 0 .. POOL_SIZE /\ n + 1 \in 0 .. n + 1
  BY <1>3
<1>7. B = TRUE
  BY <1>2, <1>4, <1>5, <1>6
<1>8. free_check(g) = assert(g, B)
  BY DEF free_check, n, w
<1> HIDE DEF B
<1> QED
  BY <1>7, <1>8, AssertHolds

\* Two free blocks without a gap between them are neighbours in the list.
LEMMA Neighbours ==
  ASSUME NEW g \in Heaps, NEW v, Lists(g, v), Tiles(g),
         NEW i \in Free(g), NEW j \in Free(g), g.end[i] = g.begin[j]
  PROVE  g.next[i] = j /\ g.prev[j] = i /\ i # j
         /\ \E k \in 1 .. g.list_size - 1 : v[k] = i /\ v[k + 1] = j
<1> DEFINE n == g.list_size
           beg == g.begin
           fin == g.end
<1>1. /\ n \in Nat /\ \A k \in 1 .. n : v[k] \in Pool /\ v[k] \in Free(g)
      /\ \A k \in 0 .. n : g.next[v[k]] = v[k + 1] /\ g.prev[v[k + 1]] = v[k]
      /\ \A x \in Free(g) : x \in Pool /\ \E k \in 1 .. n : v[k] = x
      /\ \A x, y \in 1 .. n : x < y => beg[v[x]] < beg[v[y]]
  BY ListFacts
<1>2. beg \in [Pool -> Addr] /\ fin \in [Pool -> Addr]
  BY HeapFields
<1>3. \A x \in Pool : beg[x] \in Int /\ fin[x] \in Int
  BY <1>2, AddrFacts
<1>4. /\ \A x \in Free(g) : beg[x] < fin[x]
      /\ \A x, y \in Free(g) : x # y => fin[x] <= beg[y] \/ fin[y] <= beg[x]
  <2>1. Free(g) \subseteq InUse(g)
    BY DEF InUse
  <2>2. g.size \in [Pool -> Units]
    BY HeapFields
  <2>3. \A x \in Free(g) : g.size[x] = fin[x] - beg[x] /\ g.size[x] > 0
    BY <2>1 DEF Tiles
  <2>4. \A x \in Free(g) : beg[x] < fin[x]
    BY <1>1, <1>3, <2>3
  <2> QED
    BY <2>1, <2>4 DEF Tiles
<1>5. fin[i] = beg[j] /\ i # j
  BY <1>1, <1>3, <1>4
<1> HIDE DEF n, beg, fin
<1>6. PICK a \in 1 .. n : v[a] = i
  BY <1>1
<1>7. PICK c \in 1 .. n : v[c] = j
  BY <1>1
<1>8. beg[i] < beg[j]
  BY <1>1, <1>3, <1>4, <1>5
<1>9. a < c
  BY <1>1, <1>3, <1>5, <1>6, <1>7, <1>8
<1>10. c = a + 1
  <2> SUFFICES ASSUME c # a + 1 PROVE FALSE
    OBVIOUS
  <2> DEFINE x == v[a + 1]
  <2>1. a + 1 \in 1 .. n /\ a < a + 1 /\ a + 1 < c
    BY <1>1, <1>9
  <2>2. x \in Free(g) /\ x \in Pool /\ beg[i] < beg[x] /\ beg[x] < beg[j]
    BY <1>1, <1>6, <1>7, <2>1
  <2> HIDE DEF x
  <2> QED
    BY <1>1, <1>3, <1>4, <1>5, <2>2
<1>11. a \in 0 .. n /\ a \in 1 .. n - 1
  BY <1>1, <1>10
<1>12. g.next[v[a]] = v[a + 1] /\ g.prev[v[a + 1]] = v[a]
  BY <1>1, <1>11
<1>13. g.next[i] = j /\ g.prev[j] = i
  BY <1>6, <1>7, <1>10, <1>12
<1>14. \E k \in 1 .. n - 1 : v[k] = i /\ v[k + 1] = j
  BY <1>6, <1>7, <1>10, <1>11
<1> QED
  BY <1>5, <1>13, <1>14 DEF n
\* The list of c is that of g with b, or without b; what is in both did not move.
FreeIn(g, c, b) ==
  /\ \A i \in Pool : i \in Free(c) <=> i \in Free(g) \/ i = b
  /\ \A i \in Free(g) : c.begin[i] = g.begin[i]
Between(g, c, v, p, b) ==
  /\ p # 0 => g.begin[v[p]] < c.begin[b]
  /\ p # g.list_size => c.begin[b] < g.begin[v[p + 1]]
FreeOut(g, c, b) ==
  /\ \A i \in Pool : i \in Free(c) <=> i \in Free(g) /\ i # b
  /\ \A i \in Free(c) : c.begin[i] = g.begin[i]

\* A block that goes between its neighbours keeps the list in order.
LEMMA ListInsert ==
  ASSUME NEW g \in Heaps, NEW c \in Heaps, NEW v, Lists(g, v),
         NEW p \in 0 .. g.list_size, NEW b \in Pool, b \notin Free(g),
         c.next = NextIn(g.next, v[p], b),
         c.prev = PrevIn(g.next, g.prev, v[p], b),
         c.list_size = g.list_size + 1,
         FreeIn(g, c, b),
         Between(g, c, v, p, b)
  PROVE  Lists(c, Listing(c))
<1> DEFINE n == g.list_size
           beg == g.begin
           u == ListIn(v, n, p, b)
<1> USE DEF FreeIn, Between
<1>1. /\ n \in Nat /\ v \in [0 .. n + 1 -> Nodes]
      /\ \A k \in 1 .. n : v[k] \in Pool /\ v[k] \in Free(g)
      /\ \A i \in Free(g) : i \in Pool /\ \E k \in 1 .. n : v[k] = i
      /\ \A j, k \in 1 .. n : j < k => beg[v[j]] < beg[v[k]]
  BY ListFacts
<1>2. IsChain(g.next, g.prev, v, n) /\ NotListed(v, n, b)
  BY <1>1 DEF Lists, NotListed
<1>3. IsChain(c.next, c.prev, u, n + 1)
  <2>1. g.next \in [Nodes -> Nodes \cup {NULL}] /\ g.prev \in [Nodes -> Nodes \cup {NULL}]
    BY HeapFields
  <2> HIDE DEF n
  <2>2. p \in 0 .. n
    BY DEF n
  <2> QED
    BY <1>2, <2>1, <2>2, ChainInsert
<1>4. beg \in [Pool -> Addr] /\ c.begin \in [Pool -> Addr]
  BY HeapFields
<1>5. \A i \in Pool : beg[i] \in Int /\ c.begin[i] \in Int
  BY <1>4, AddrFacts
<1> DEFINE src(k) == IF k <= p THEN k ELSE k - 1
<1>6. ASSUME NEW k \in 1 .. n + 1, k # p + 1
      PROVE  u[k] = v[src(k)] /\ src(k) \in 1 .. n
  BY <1>1, <1>6 DEF ListIn
<1>7. u[p + 1] = b /\ p + 1 \in 1 .. n + 1
  BY <1>1 DEF ListIn
<1>8. ASSUME NEW k \in 1 .. n PROVE \E j \in 1 .. n + 1 : u[j] = v[k]
  <2>1. CASE k <= p
    <3>1. k \in 1 .. n + 1 /\ u[k] = v[k]
      BY <1>1, <2>1 DEF ListIn
    <3> QED
      BY <3>1
  <2>2. CASE k > p
    <3>1. k + 1 \in 1 .. n + 1 /\ u[k + 1] = v[k]
      BY <1>1, <2>2 DEF ListIn
    <3> QED
      BY <3>1
  <2>3. k <= p \/ k > p
    OBVIOUS
  <2> QED
    BY <2>1, <2>2, <2>3
<1>0. p \in 0 .. n /\ p \in Nat
  BY <1>1
<1> HIDE DEF u, n, beg
<1>9. \A i \in Pool : i \in Free(c) <=> \E k \in 1 .. n + 1 : u[k] = i
  <2> TAKE i \in Pool
  <2>1. ASSUME NEW k \in 1 .. n + 1, u[k] = i PROVE i \in Free(c)
    <3>1. CASE k = p + 1
      BY <1>7, <2>1, <3>1
    <3>2. CASE k # p + 1
      BY <1>1, <1>6, <2>1, <3>2
    <3> QED
      BY <3>1, <3>2
  <2>2. ASSUME i \in Free(c) PROVE \E k \in 1 .. n + 1 : u[k] = i
    <3>1. CASE i = b
      BY <1>7, <3>1
    <3>2. CASE i # b
      <4>1. PICK k \in 1 .. n : v[k] = i
        BY <1>1, <2>2, <3>2
      <4> QED
        BY <1>8, <4>1
    <3> QED
      BY <3>1, <3>2
  <2> QED
    BY <2>1, <2>2
<1>10. /\ \A k \in 1 .. n : c.begin[v[k]] = beg[v[k]] /\ beg[v[k]] \in Int
       /\ c.begin[b] \in Int
  BY <1>1, <1>5 DEF beg
<1>11. /\ \A k \in 1 .. n : k <= p => beg[v[k]] < c.begin[b]
       /\ \A k \in 1 .. n : k > p => c.begin[b] < beg[v[k]]
  <2>1. ASSUME NEW k \in 1 .. n, k <= p PROVE beg[v[k]] < c.begin[b]
    <3>1. p \in 1 .. n /\ p # 0
      BY <1>0, <1>1, <2>1
    <3>2. beg[v[p]] < c.begin[b]
      BY <3>1 DEF beg
    <3>3. k = p \/ k < p
      BY <1>1, <2>1
    <3> QED
      BY <1>1, <1>10, <3>1, <3>2, <3>3
  <2>2. ASSUME NEW k \in 1 .. n, k > p PROVE c.begin[b] < beg[v[k]]
    <3>1. p + 1 \in 1 .. n /\ p # n /\ (k = p + 1 \/ p + 1 < k)
      BY <1>0, <1>1, <2>2
    <3>2. c.begin[b] < beg[v[p + 1]]
      BY <3>1 DEF beg, n
    <3> QED
      BY <1>1, <1>10, <3>1, <3>2, SMTT(20)
  <2> QED
    BY <2>1, <2>2
<1>12. ASSUME NEW j \in 1 .. n + 1, NEW k \in 1 .. n + 1, j < k
       PROVE  c.begin[u[j]] < c.begin[u[k]]
  <2>1. CASE j = p + 1
    <3>1. k # p + 1 /\ src(k) > p
      BY <1>1, <1>12, <2>1
    <3> QED
      BY <1>6, <1>7, <1>10, <1>11, <2>1, <3>1
  <2>2. CASE k = p + 1
    <3>1. j # p + 1 /\ src(j) <= p
      BY <1>1, <1>12, <2>2
    <3> QED
      BY <1>6, <1>7, <1>10, <1>11, <2>2, <3>1
  <2>3. CASE j # p + 1 /\ k # p + 1
    <3>1. src(j) < src(k)
      BY <1>1, <1>12, <2>3
    <3> HIDE DEF src
    <3>2. u[j] = v[src(j)] /\ src(j) \in 1 .. n /\ u[k] = v[src(k)] /\ src(k) \in 1 .. n
      BY <1>6, <2>3
    <3> QED
      BY <1>1, <1>10, <3>1, <3>2, SMTT(20)
  <2> QED
    BY <2>1, <2>2, <2>3
<1>13. Lists(c, u)
  <2>1. c.list_size = n + 1
    BY DEF n
  <2> QED
    BY <1>3, <1>9, <1>12, <2>1 DEF Lists
<1> QED
  BY <1>13, OneListing

\* A block taken out leaves the others in order.
LEMMA ListRemove ==
  ASSUME NEW g \in Heaps, NEW c \in Heaps, NEW v, Lists(g, v),
         NEW b \in Free(g),
         c.next = NextOut(g.next, g.prev[b], b, g.next[b]),
         c.prev = PrevOut(g.prev, g.prev[b], b, g.next[b]),
         c.list_size = g.list_size - 1,
         FreeOut(g, c, b)
  PROVE  Lists(c, Listing(c))
<1> DEFINE n == g.list_size
           beg == g.begin
<1> USE DEF FreeOut
<1>1. /\ n \in Nat /\ v \in [0 .. n + 1 -> Nodes]
      /\ \A k \in 1 .. n : v[k] \in Pool /\ v[k] \in Free(g)
      /\ \A j, k \in 0 .. n + 1 : v[j] = v[k] => j = k
      /\ \A k \in 0 .. n : g.next[v[k]] = v[k + 1] /\ g.prev[v[k + 1]] = v[k]
      /\ \A i \in Free(g) : i \in Pool /\ \E k \in 1 .. n : v[k] = i
      /\ \A j, k \in 1 .. n : j < k => beg[v[j]] < beg[v[k]]
  <2>1. n = g.list_size
    OBVIOUS
  <2> HIDE DEF n
  <2> QED
    BY <2>1, ListFacts
<1>2. PICK r \in 1 .. n : v[r] = b
  BY <1>1
<1>3. g.next[b] = v[r + 1] /\ g.prev[b] = v[r - 1]
  <2>1. r \in 0 .. n /\ r - 1 \in 0 .. n /\ (r - 1) + 1 = r
    BY <1>1
  <2>2. g.next[v[r]] = v[r + 1]
    BY <1>1, <2>1
  <2>3. g.prev[v[(r - 1) + 1]] = v[r - 1]
    BY <1>1, <2>1
  <2> QED
    BY <1>2, <2>1, <2>2, <2>3
<1> DEFINE u == ListOut(v, n, r)
<1>4. IsChain(c.next, c.prev, u, n - 1)
  <2>1. g.next \in [Nodes -> Nodes \cup {NULL}] /\ g.prev \in [Nodes -> Nodes \cup {NULL}]
    BY HeapFields
  <2>2. IsChain(g.next, g.prev, v, n)
    BY DEF Lists
  <2>3. /\ c.next = NextOut(g.next, v[r - 1], v[r], v[r + 1])
        /\ c.prev = PrevOut(g.prev, v[r - 1], v[r], v[r + 1])
    BY <1>2, <1>3
  <2> HIDE DEF n
  <2> QED
    BY <2>1, <2>2, <2>3, ChainRemove
<1> DEFINE src(k) == IF k < r THEN k ELSE k + 1
<1>5. ASSUME NEW k \in 1 .. n - 1
      PROVE  u[k] = v[src(k)] /\ src(k) \in 1 .. n /\ src(k) # r
  BY <1>1 DEF ListOut
<1>6. ASSUME NEW k \in 1 .. n, k # r PROVE \E j \in 1 .. n - 1 : u[j] = v[k]
  <2>1. CASE k < r
    <3>1. k \in 1 .. n - 1 /\ u[k] = v[k]
      BY <1>1, <2>1 DEF ListOut
    <3> QED
      BY <3>1
  <2>2. CASE k > r
    <3>1. k - 1 \in 1 .. n - 1 /\ u[k - 1] = v[k]
      BY <1>1, <2>2 DEF ListOut
    <3> QED
      BY <3>1
  <2>3. k < r \/ k > r
    BY <1>6
  <2> QED
    BY <2>1, <2>2, <2>3
<1> HIDE DEF u, n, beg, src
<1>7. \A k \in 1 .. n : k \in 0 .. n + 1
  BY <1>1
<1>8. \A k \in 1 .. n - 1 : u[k] \in Pool /\ u[k] \in Free(c)
  <2> TAKE k \in 1 .. n - 1
  <2>1. u[k] = v[src(k)] /\ src(k) \in 1 .. n /\ src(k) # r
    BY <1>5
  <2> QED
    BY <1>1, <1>2, <1>7, <2>1
<1>9. \A i \in Pool : i \in Free(c) <=> \E k \in 1 .. n - 1 : u[k] = i
  <2> TAKE i \in Pool
  <2>1. ASSUME i \in Free(c) PROVE \E k \in 1 .. n - 1 : u[k] = i
    <3>1. PICK k \in 1 .. n : v[k] = i
      BY <1>1, <2>1
    <3>2. k # r
      BY <1>2, <2>1, <3>1
    <3> QED
      BY <1>6, <3>1, <3>2
  <2> QED
    BY <1>8, <2>1
<1>10. ASSUME NEW j \in 1 .. n - 1, NEW k \in 1 .. n - 1, j < k
       PROVE  c.begin[u[j]] < c.begin[u[k]]
  <2>1. src(j) < src(k)
    BY <1>1, <1>10 DEF src
  <2>2. /\ u[j] = v[src(j)] /\ src(j) \in 1 .. n /\ u[k] = v[src(k)] /\ src(k) \in 1 .. n
    BY <1>5
  <2>3. beg[u[j]] < beg[u[k]]
    <3>1. \A x, y \in 1 .. n : x < y => beg[v[x]] < beg[v[y]]
      BY <1>1
    <3> QED
      BY ONLY <2>1, <2>2, <3>1, Zenon
  <2>4. c.begin[u[j]] = beg[u[j]] /\ c.begin[u[k]] = beg[u[k]]
    BY <1>8 DEF beg
  <2> QED
    BY <2>3, <2>4
<1>11. Lists(c, u)
  <2>1. c.list_size = n - 1
    BY DEF n
  <2> QED
    BY <1>4, <1>9, <1>10, <2>1 DEF Lists
<1> QED
  BY <1>11, OneListing
(***************************************************************************)
(* What each operation writes.                                             *)
(***************************************************************************)
\* free_cut.
LEMMA CutFields ==
  ASSUME NEW g \in Heaps, NEW b \in Pool, NEW size \in Units, NEW new \in Pool,
         new = get_unused_block(g), g.next[b] \in Nodes,
         g.begin[b] + size \in Addr, g.size[b] - size \in Units
  PROVE  /\ free_cut(g, b, size) \in Heaps
         /\ free_cut(g, b, size).st = [g.st EXCEPT ![new] = "UNALLOCATED"]
         /\ free_cut(g, b, size).begin = [g.begin EXCEPT ![new] = g.begin[b] + size]
         /\ free_cut(g, b, size).end =
              [g.end EXCEPT ![new] = g.end[b], ![b] = g.begin[b] + size]
         /\ free_cut(g, b, size).size =
              [g.size EXCEPT ![new] = g.size[b] - size, ![b] = size]
         /\ free_cut(g, b, size).next = NextIn(g.next, b, new)
         /\ free_cut(g, b, size).prev = PrevIn(g.next, g.prev, b, new)
         /\ free_cut(g, b, size).list_size = g.list_size + 1
<1> DEFINE c == free_cut(g, b, size)
<1>1. c = [g EXCEPT !.prev = [g.prev EXCEPT ![new] = b, ![g.next[b]] = new],
                    !.next = [g.next EXCEPT ![new] = g.next[b], ![b] = new],
                    !.begin = [g.begin EXCEPT ![new] = g.begin[b] + size],
                    !.end = [g.end EXCEPT ![new] = g.end[b], ![b] = g.begin[b] + size],
                    !.size = [g.size EXCEPT ![new] = g.size[b] - size, ![b] = size],
                    !.st = [g.st EXCEPT ![new] = "UNALLOCATED"],
                    !.list_size = g.list_size + 1]
  BY DEF free_cut
<1>2. /\ g.st \in [Pool -> States] /\ g.begin \in [Pool -> Addr]
      /\ g.end \in [Pool -> Addr] /\ g.size \in [Pool -> Units]
      /\ g.prev \in [Nodes -> Nodes \cup {NULL}]
      /\ g.next \in [Nodes -> Nodes \cup {NULL}] /\ g.list_size \in Nat
  BY HeapFields
<1>3. /\ c.st = [g.st EXCEPT ![new] = "UNALLOCATED"]
      /\ c.begin = [g.begin EXCEPT ![new] = g.begin[b] + size]
      /\ c.end = [g.end EXCEPT ![new] = g.end[b], ![b] = g.begin[b] + size]
      /\ c.size = [g.size EXCEPT ![new] = g.size[b] - size, ![b] = size]
      /\ c.next = NextIn(g.next, b, new)
      /\ c.prev = PrevIn(g.next, g.prev, b, new)
      /\ c.list_size = g.list_size + 1
  BY <1>1 DEF Heaps, NextIn, PrevIn
<1>4. /\ [g.st EXCEPT ![new] = "UNALLOCATED"] \in [Pool -> States]
      /\ [g.begin EXCEPT ![new] = g.begin[b] + size] \in [Pool -> Addr]
      /\ [g.end EXCEPT ![new] = g.end[b], ![b] = g.begin[b] + size] \in [Pool -> Addr]
      /\ [g.size EXCEPT ![new] = g.size[b] - size, ![b] = size] \in [Pool -> Units]
      /\ [g.prev EXCEPT ![new] = b, ![g.next[b]] = new] \in [Nodes -> Nodes \cup {NULL}]
      /\ [g.next EXCEPT ![new] = g.next[b], ![b] = new] \in [Nodes -> Nodes \cup {NULL}]
      /\ g.list_size + 1 \in Nat
  BY <1>2, NodeFacts DEF States
<1>5. c \in Heaps
  <2> DEFINE a1 == [g.st EXCEPT ![new] = "UNALLOCATED"]
             a2 == [g.begin EXCEPT ![new] = g.begin[b] + size]
             a3 == [g.end EXCEPT ![new] = g.end[b], ![b] = g.begin[b] + size]
             a4 == [g.size EXCEPT ![new] = g.size[b] - size, ![b] = size]
             a5 == [g.prev EXCEPT ![new] = b, ![g.next[b]] = new]
             a6 == [g.next EXCEPT ![new] = g.next[b], ![b] = new]
             a7 == g.list_size + 1
  <2>1. /\ a1 \in [Pool -> States] /\ a2 \in [Pool -> Addr] /\ a3 \in [Pool -> Addr]
        /\ a4 \in [Pool -> Units] /\ a5 \in [Nodes -> Nodes \cup {NULL}]
        /\ a6 \in [Nodes -> Nodes \cup {NULL}] /\ a7 \in Nat
    BY <1>4
  <2>2. c = [g EXCEPT !.prev = a5, !.next = a6, !.begin = a2, !.end = a3, !.size = a4,
                      !.st = a1, !.list_size = a7]
    BY <1>1
  <2> HIDE DEF a1, a2, a3, a4, a5, a6, a7, c
  <2> QED
    BY <2>1, <2>2 DEF Heaps
<1> QED
  BY <1>3, <1>5

\* free_delete.
LEMMA DeleteFields ==
  ASSUME NEW g \in Heaps, NEW b \in Free(g), g.list_size - 1 \in Nat,
         g.prev[b] \in Nodes, g.next[b] \in Nodes
  PROVE  /\ free_delete(g, b) \in Heaps
         /\ free_delete(g, b).st = [g.st EXCEPT ![b] = "ALLOCATED"]
         /\ free_delete(g, b).begin = g.begin /\ free_delete(g, b).end = g.end
         /\ free_delete(g, b).size = g.size
         /\ free_delete(g, b).next = NextOut(g.next, g.prev[b], b, g.next[b])
         /\ free_delete(g, b).prev = PrevOut(g.prev, g.prev[b], b, g.next[b])
         /\ free_delete(g, b).list_size = g.list_size - 1
<1> DEFINE c == free_delete(g, b)
<1>0. b \in Pool /\ g.st[b] = "UNALLOCATED"
  BY DEF Free
<1>1. c = [g EXCEPT !.next = [g.next EXCEPT ![g.prev[b]] = g.next[b], ![b] = NULL],
                    !.prev = [g.prev EXCEPT ![g.next[b]] = g.prev[b], ![b] = NULL],
                    !.st = [g.st EXCEPT ![b] = "ALLOCATED"],
                    !.list_size = g.list_size - 1]
  <2>1. assert(g, b \in Pool /\ g.st[b] = "UNALLOCATED") = g
    <3>1. (b \in Pool /\ g.st[b] = "UNALLOCATED") = TRUE
      BY <1>0
    <3> QED
      BY <3>1, AssertHolds
  <2> QED
    BY <2>1 DEF free_delete
<1>2. /\ g.st \in [Pool -> States]
      /\ g.prev \in [Nodes -> Nodes \cup {NULL}]
      /\ g.next \in [Nodes -> Nodes \cup {NULL}] /\ g.list_size \in Nat
  BY HeapFields
<1>3. /\ c.st = [g.st EXCEPT ![b] = "ALLOCATED"]
      /\ c.begin = g.begin /\ c.end = g.end /\ c.size = g.size
      /\ c.next = NextOut(g.next, g.prev[b], b, g.next[b])
      /\ c.prev = PrevOut(g.prev, g.prev[b], b, g.next[b])
      /\ c.list_size = g.list_size - 1
  BY <1>1 DEF Heaps, NextOut, PrevOut
<1>4. /\ [g.st EXCEPT ![b] = "ALLOCATED"] \in [Pool -> States]
      /\ [g.next EXCEPT ![g.prev[b]] = g.next[b], ![b] = NULL]
           \in [Nodes -> Nodes \cup {NULL}]
      /\ [g.prev EXCEPT ![g.next[b]] = g.prev[b], ![b] = NULL]
           \in [Nodes -> Nodes \cup {NULL}]
  BY <1>0, <1>2, NodeFacts DEF States
<1>5. c \in Heaps
  BY <1>1, <1>4 DEF Heaps
<1> QED
  BY <1>3, <1>5

\* The insertion of free_insert.
LEMMA LinkFields ==
  ASSUME NEW g \in Heaps, NEW b \in Allocated(g), NEW p \in Nodes, g.next[p] \in Nodes,
         g.next[p] # TAIL => g.begin[g.next[p]] # g.begin[b]
  PROVE  /\ Link(g, p, b) \in Heaps
         /\ Link(g, p, b).st = [g.st EXCEPT ![b] = "UNALLOCATED"]
         /\ Link(g, p, b).begin = g.begin /\ Link(g, p, b).end = g.end
         /\ Link(g, p, b).size = g.size
         /\ Link(g, p, b).next = NextIn(g.next, p, b)
         /\ Link(g, p, b).prev = PrevIn(g.next, g.prev, p, b)
         /\ Link(g, p, b).list_size = g.list_size + 1
<1> DEFINE c == Link(g, p, b)
           B == /\ g.st[b] = "ALLOCATED"
                /\ g.next[p] # TAIL => g.begin[g.next[p]] # g.begin[b]
<1>0. b \in Pool /\ g.st[b] = "ALLOCATED"
  BY DEF Allocated
<1>1. c = [g EXCEPT !.prev = [g.prev EXCEPT ![b] = p, ![g.next[p]] = b],
                    !.next = [g.next EXCEPT ![b] = g.next[p], ![p] = b],
                    !.st = [g.st EXCEPT ![b] = "UNALLOCATED"],
                    !.list_size = g.list_size + 1]
  <2>1. assert(g, B) = g
    <3>1. B = TRUE
      BY <1>0
    <3> HIDE DEF B
    <3> QED
      BY <3>1, AssertHolds
  <2> QED
    BY <2>1 DEF Link
<1>2. /\ g.st \in [Pool -> States]
      /\ g.prev \in [Nodes -> Nodes \cup {NULL}]
      /\ g.next \in [Nodes -> Nodes \cup {NULL}] /\ g.list_size \in Nat
  BY HeapFields
<1>3. /\ c.st = [g.st EXCEPT ![b] = "UNALLOCATED"]
      /\ c.begin = g.begin /\ c.end = g.end /\ c.size = g.size
      /\ c.next = NextIn(g.next, p, b) /\ c.prev = PrevIn(g.next, g.prev, p, b)
      /\ c.list_size = g.list_size + 1
  BY <1>1 DEF Heaps, NextIn, PrevIn
<1>4. /\ [g.st EXCEPT ![b] = "UNALLOCATED"] \in [Pool -> States]
      /\ [g.next EXCEPT ![b] = g.next[p], ![p] = b] \in [Nodes -> Nodes \cup {NULL}]
      /\ [g.prev EXCEPT ![b] = p, ![g.next[p]] = b] \in [Nodes -> Nodes \cup {NULL}]
      /\ g.list_size + 1 \in Nat
  BY <1>0, <1>2, NodeFacts DEF States
<1>5. c \in Heaps
  BY <1>1, <1>4 DEF Heaps
<1> QED
  BY <1>3, <1>5

\* free_merge, up to its free_check.
Merged(g, p, q) ==
  [g EXCEPT !.next = [g.next EXCEPT ![p] = g.next[q], ![q] = NULL],
            !.prev = [g.prev EXCEPT ![g.next[q]] = p, ![q] = NULL],
            !.begin = [g.begin EXCEPT ![q] = 0],
            !.end = [g.end EXCEPT ![p] = g.end[q], ![q] = 0],
            !.size = [g.size EXCEPT ![p] = g.end[q] - g.begin[p], ![q] = 0],
            !.st = [g.st EXCEPT ![q] = "UNUSED"],
            !.list_size = g.list_size - 1]

\* free_merge may be called on p and q; c is what it makes of g.
CanMerge(g, p, q) ==
  /\ g \in Heaps /\ p \in Free(g) /\ q \in Free(g) /\ g.list_size - 1 \in Nat
  /\ g.next[q] \in Nodes /\ g.prev[q] = p
  /\ g.end[q] - g.begin[p] = g.size[p] + g.size[q] /\ g.end[q] - g.begin[p] \in Units
IsMerge(g, p, q, c) ==
  /\ c \in Heaps
  /\ c.st = [g.st EXCEPT ![q] = "UNUSED"]
  /\ c.begin = [g.begin EXCEPT ![q] = 0]
  /\ c.end = [g.end EXCEPT ![p] = g.end[q], ![q] = 0]
  /\ c.size = [g.size EXCEPT ![p] = g.end[q] - g.begin[p], ![q] = 0]
  /\ c.next = NextOut(g.next, g.prev[q], q, g.next[q])
  /\ c.prev = PrevOut(g.prev, g.prev[q], q, g.next[q])
  /\ c.list_size = g.list_size - 1

\* free_merge.
LEMMA MergeFields ==
  ASSUME NEW g, NEW p, NEW q, CanMerge(g, p, q)
  PROVE  /\ free_merge(g, p, q) = free_check(Merged(g, p, q))
         /\ IsMerge(g, p, q, Merged(g, p, q))
<1> USE DEF CanMerge
<1> DEFINE c == Merged(g, p, q)
           B == /\ g.st[p] = "UNALLOCATED" /\ g.st[q] = "UNALLOCATED"
                /\ g.end[q] - g.begin[p] = g.size[p] + g.size[q]
<1>0. p \in Pool /\ q \in Pool /\ g.st[p] = "UNALLOCATED" /\ g.st[q] = "UNALLOCATED"
  BY DEF Free
<1>1. free_merge(g, p, q) = free_check(c)
  <2>1. assert(g, B) = g
    <3>1. B = TRUE
      BY <1>0
    <3> HIDE DEF B
    <3> QED
      BY <3>1, AssertHolds
  <2> QED
    BY <2>1, ZenonT(40) DEF free_merge, Merged
<1>2. /\ g.st \in [Pool -> States] /\ g.begin \in [Pool -> Addr]
      /\ g.end \in [Pool -> Addr] /\ g.size \in [Pool -> Units]
      /\ g.prev \in [Nodes -> Nodes \cup {NULL}]
      /\ g.next \in [Nodes -> Nodes \cup {NULL}] /\ g.list_size \in Nat
  BY HeapFields
<1>3. /\ c.st = [g.st EXCEPT ![q] = "UNUSED"]
      /\ c.begin = [g.begin EXCEPT ![q] = 0]
      /\ c.end = [g.end EXCEPT ![p] = g.end[q], ![q] = 0]
      /\ c.size = [g.size EXCEPT ![p] = g.end[q] - g.begin[p], ![q] = 0]
      /\ c.next = NextOut(g.next, g.prev[q], q, g.next[q])
      /\ c.prev = PrevOut(g.prev, g.prev[q], q, g.next[q])
      /\ c.list_size = g.list_size - 1
  BY DEF Heaps, Merged, NextOut, PrevOut
<1>4. /\ [g.st EXCEPT ![q] = "UNUSED"] \in [Pool -> States]
      /\ [g.begin EXCEPT ![q] = 0] \in [Pool -> Addr]
      /\ [g.end EXCEPT ![p] = g.end[q], ![q] = 0] \in [Pool -> Addr]
      /\ [g.size EXCEPT ![p] = g.end[q] - g.begin[p], ![q] = 0] \in [Pool -> Units]
      /\ [g.next EXCEPT ![p] = g.next[q], ![q] = NULL] \in [Nodes -> Nodes \cup {NULL}]
      /\ [g.prev EXCEPT ![g.next[q]] = p, ![q] = NULL] \in [Nodes -> Nodes \cup {NULL}]
  <2>1. 0 \in Addr /\ 0 \in Units
    BY AddrFacts
  <2> QED
    BY <1>0, <1>2, <2>1, NodeFacts DEF States
<1>5. c \in Heaps
  BY <1>4 DEF Heaps, Merged
<1> QED
  BY <1>1, <1>3, <1>5 DEF IsMerge
(***************************************************************************)
(* Cutting and joining blocks.                                             *)
(***************************************************************************)
\* The blocks in use are descriptors, finitely many, with integer fields.
LEMMA BlockFacts ==
  ASSUME NEW g \in Heaps
  PROVE  /\ IsFiniteSet(InUse(g)) /\ InUse(g) \subseteq Pool
         /\ \A i \in Pool : /\ g.begin[i] \in Int /\ g.end[i] \in Int
                            /\ g.size[i] \in Int /\ g.size[i] \in Nat
         /\ \A i \in Pool : i \in InUse(g) <=> i \notin Unused(g)
         /\ \A i \in Pool : i \in InUse(g) <=> i \in Free(g) \/ i \in Allocated(g)
         /\ \A i \in Pool : ~ (i \in Free(g) /\ i \in Allocated(g))
         /\ Free(g) \subseteq InUse(g) /\ Allocated(g) \subseteq InUse(g)
<1>1. /\ g.begin \in [Pool -> Addr] /\ g.end \in [Pool -> Addr]
      /\ g.size \in [Pool -> Units] /\ g.st \in [Pool -> States]
  BY HeapFields
<1>2. IsFiniteSet(Pool)
  BY NodeFacts, FS_Interval DEF Pool
<1>3. InUse(g) \subseteq Pool
  BY DEF InUse, Free, Allocated
<1>4. IsFiniteSet(InUse(g))
  BY <1>2, <1>3, FS_Subset
<1>5. \A i \in Pool : /\ g.begin[i] \in Int /\ g.end[i] \in Int
                      /\ g.size[i] \in Int /\ g.size[i] \in Nat
  BY <1>1, AddrFacts
<1>6. \A i \in Pool : i \in InUse(g) <=> i \notin Unused(g)
  BY <1>1 DEF States, InUse, Free, Allocated, Unused
<1>7. /\ \A i \in Pool : ~ (i \in Free(g) /\ i \in Allocated(g))
      /\ Free(g) \subseteq InUse(g) /\ Allocated(g) \subseteq InUse(g)
      /\ \A i \in Pool : i \in InUse(g) <=> i \in Free(g) \/ i \in Allocated(g)
  BY DEF InUse, Free, Allocated
<1> QED
  BY <1>3, <1>4, <1>5, <1>6, <1>7

\* A part that is divided in two leaves the sum as it was.
LEMMA SumSplit ==
  ASSUME NEW S, IsFiniteSet(S), NEW b \in S, NEW x, x \notin S, NEW f, NEW e,
         IntegersOn(f, S), IntegersOn(e, S \cup {x}), SameOn(e, f, S \ {b}),
         e[b] + e[x] = f[b]
  PROVE  SumOver(e, S \cup {x}) = SumOver(f, S)
<1> DEFINE R == S \ {b}
<1> USE DEF IntegersOn, SameOn
<1>1. IsFiniteSet(R)
  BY FS_Subset
<1>2. SumOver(f, S) = f[b] + SumOver(f, R) /\ SumOver(f, R) \in Int
  BY SumRemove
<1>3. SumOver(e, S) = e[b] + SumOver(e, R) /\ SumOver(e, R) \in Int
  <2>1. \A i \in S : e[i] \in Int
    OBVIOUS
  <2> QED
    BY <2>1, SumRemove
<1>4. SumOver(e, S \cup {x}) = e[x] + SumOver(e, S)
  BY SumAdd
<1>5. SumOver(e, R) = SumOver(f, R)
  <2>1. \A i \in R : e[i] = f[i]
    OBVIOUS
  <2> HIDE DEF R
  <2> QED
    BY <1>1, <2>1, SumSame
<1>6. e[b] \in Int /\ e[x] \in Int /\ f[b] \in Int
  OBVIOUS
<1> HIDE DEF R
<1> QED
  BY <1>2, <1>3, <1>4, <1>5, <1>6

\* Block b of g is blocks b and x of c; the others are the same in both.
Divides(g, c, b, x) ==
  /\ b \in InUse(g) /\ x \in Pool /\ x \notin InUse(g)
  /\ \A i \in Pool : i \in InUse(c) <=> i \in InUse(g) \/ i = x
  /\ \A i \in InUse(g) : i # b => /\ c.begin[i] = g.begin[i] /\ c.end[i] = g.end[i]
                                  /\ c.size[i] = g.size[i]
  /\ c.begin[b] = g.begin[b] /\ c.end[b] = c.begin[x] /\ c.end[x] = g.end[b]

\* Cutting a block in two keeps the tiling and the sum of the sizes.
LEMMA DivideTiles ==
  ASSUME NEW g \in Heaps, NEW c \in Heaps, NEW b, NEW x, Divides(g, c, b, x),
         Tiles(g), Total(g),
         c.size[b] = c.end[b] - c.begin[b], c.size[x] = c.end[x] - c.begin[x],
         c.begin[b] < c.end[b], c.begin[x] < c.end[x]
  PROVE  Tiles(c) /\ Total(c)
<1>1. /\ b \in InUse(g) /\ x \in Pool /\ x \notin InUse(g) /\ b # x
      /\ \A i \in Pool : i \in InUse(c) <=> i \in InUse(g) \/ i = x
      /\ \A i \in InUse(g) : i # b => /\ c.begin[i] = g.begin[i] /\ c.end[i] = g.end[i]
                                      /\ c.size[i] = g.size[i]
      /\ c.begin[b] = g.begin[b] /\ c.end[b] = c.begin[x] /\ c.end[x] = g.end[b]
  BY DEF Divides
<1>2. /\ IsFiniteSet(InUse(g)) /\ InUse(g) \subseteq Pool /\ InUse(c) \subseteq Pool
      /\ \A i \in Pool : g.begin[i] \in Int /\ g.end[i] \in Int /\ g.size[i] \in Int
      /\ \A i \in Pool : c.begin[i] \in Int /\ c.end[i] \in Int /\ c.size[i] \in Int
  BY BlockFacts
<1>3. /\ \A i \in InUse(g) : /\ g.size[i] = g.end[i] - g.begin[i] /\ g.size[i] > 0
                             /\ PmStart <= g.begin[i] /\ g.end[i] <= PmEnd
      /\ \A i, j \in InUse(g) : i # j => g.end[i] <= g.begin[j] \/ g.end[j] <= g.begin[i]
      /\ \A a \in PmStart .. PmEnd - 1 :
           \E i \in InUse(g) : g.begin[i] <= a /\ a < g.end[i]
  BY DEF Tiles
<1>4. PmStart \in Int /\ PmEnd \in Int
  BY AddrFacts
<1>5. ASSUME NEW i \in InUse(c)
      PROVE  /\ c.size[i] = c.end[i] - c.begin[i] /\ c.size[i] > 0
             /\ PmStart <= c.begin[i] /\ c.end[i] <= PmEnd
  <2>1. CASE i = x \/ i = b
    BY <1>1, <1>2, <1>3, <1>4, <2>1
  <2>2. CASE i # x /\ i # b
    <3>1. i \in InUse(g)
      BY <1>1, <1>2, <2>2
    <3> QED
      BY <1>1, <1>3, <2>2, <3>1
  <2> QED
    BY <2>1, <2>2
<1>6. ASSUME NEW i \in InUse(g), i # b
      PROVE  (c.end[i] <= c.begin[b] \/ c.end[x] <= c.begin[i]) /\ i # x
  BY <1>1, <1>3, <1>6
<1>7. ASSUME NEW i \in InUse(c), NEW j \in InUse(c), i # j
      PROVE  c.end[i] <= c.begin[j] \/ c.end[j] <= c.begin[i]
  <2>1. i \in Pool /\ j \in Pool /\ b \in Pool
    BY <1>1, <1>2
  <2>2. CASE i \in {b, x} /\ j \in {b, x}
    BY <1>1, <1>2, <1>7, <2>1, <2>2
  <2>3. CASE i \in {b, x} /\ j \notin {b, x}
    <3>1. j \in InUse(g) /\ j # b
      BY <1>1, <2>1, <2>3
    <3>2. c.end[j] <= c.begin[b] \/ c.end[x] <= c.begin[j]
      BY <1>6, <3>1
    <3> QED
      BY <1>1, <1>2, <2>1, <2>3, <3>2
  <2>4. CASE i \notin {b, x} /\ j \in {b, x}
    <3>1. i \in InUse(g) /\ i # b
      BY <1>1, <2>1, <2>4
    <3>2. c.end[i] <= c.begin[b] \/ c.end[x] <= c.begin[i]
      BY <1>6, <3>1
    <3> QED
      BY <1>1, <1>2, <2>1, <2>4, <3>2
  <2>5. CASE i \notin {b, x} /\ j \notin {b, x}
    <3>1. i \in InUse(g) /\ j \in InUse(g) /\ i # b /\ j # b
      BY <1>1, <2>1, <2>5
    <3> QED
      BY <1>1, <1>3, <1>7, <3>1
  <2> QED
    BY <2>2, <2>3, <2>4, <2>5
<1>8. ASSUME NEW a \in PmStart .. PmEnd - 1
      PROVE  \E i \in InUse(c) : c.begin[i] <= a /\ a < c.end[i]
  <2>1. PICK i \in InUse(g) : g.begin[i] <= a /\ a < g.end[i]
    BY <1>3
  <2>2. i \in Pool /\ i \in InUse(c) /\ x \in InUse(c) /\ b \in InUse(c) /\ b \in Pool
    BY <1>1, <1>2
  <2>3. CASE i # b
    BY <1>1, <2>1, <2>2, <2>3
  <2>4. CASE i = b
    <3>1. a < c.begin[x] \/ c.begin[x] <= a
      BY <1>1, <1>2, <1>4
    <3> QED
      BY <1>1, <2>1, <2>2, <2>4, <3>1
  <2> QED
    BY <2>3, <2>4
<1>9. Tiles(c)
  BY <1>5, <1>7, <1>8 DEF Tiles
<1>10. Total(c)
  <2>1. InUse(c) = InUse(g) \cup {x}
    BY <1>1, <1>2
  <2>2. b \in Pool /\ c.size[b] + c.size[x] = g.size[b]
    BY <1>1, <1>2, <1>3
  <2> DEFINE S == InUse(g)
             f == g.size
             e == c.size
  <2>3. /\ IsFiniteSet(S) /\ b \in S /\ x \notin S /\ e[b] + e[x] = f[b]
        /\ IntegersOn(f, S) /\ IntegersOn(e, S \cup {x}) /\ SameOn(e, f, S \ {b})
    BY <1>1, <1>2, <2>2 DEF IntegersOn, SameOn
  <2>4. SumOver(f, S) = PmEnd - PmStart
    BY DEF Total
  <2> HIDE DEF S, f, e
  <2>5. SumOver(e, S \cup {x}) = SumOver(f, S)
    BY <2>3, SumSplit
  <2> QED
    BY <2>1, <2>4, <2>5 DEF Total, S, e
<1> QED
  BY <1>9, <1>10

\* Joining two blocks does, too.
LEMMA JoinTiles ==
  ASSUME NEW g \in Heaps, NEW c \in Heaps, NEW b, NEW x, Divides(c, g, b, x),
         Tiles(g), Total(g), c.size[b] = c.end[b] - c.begin[b]
  PROVE  Tiles(c) /\ Total(c)
<1>1. /\ b \in InUse(c) /\ x \in Pool /\ x \notin InUse(c) /\ b # x
      /\ \A i \in Pool : i \in InUse(g) <=> i \in InUse(c) \/ i = x
      /\ \A i \in InUse(c) : i # b => /\ g.begin[i] = c.begin[i] /\ g.end[i] = c.end[i]
                                      /\ g.size[i] = c.size[i]
      /\ g.begin[b] = c.begin[b] /\ g.end[b] = g.begin[x] /\ g.end[x] = c.end[b]
  BY DEF Divides
<1>2. /\ IsFiniteSet(InUse(c)) /\ InUse(g) \subseteq Pool /\ InUse(c) \subseteq Pool
      /\ \A i \in Pool : g.begin[i] \in Int /\ g.end[i] \in Int /\ g.size[i] \in Int
      /\ \A i \in Pool : c.begin[i] \in Int /\ c.end[i] \in Int /\ c.size[i] \in Int
  BY BlockFacts
<1>3. /\ \A i \in InUse(g) : /\ g.size[i] = g.end[i] - g.begin[i] /\ g.size[i] > 0
                             /\ PmStart <= g.begin[i] /\ g.end[i] <= PmEnd
      /\ \A i, j \in InUse(g) : i # j => g.end[i] <= g.begin[j] \/ g.end[j] <= g.begin[i]
      /\ \A a \in PmStart .. PmEnd - 1 :
           \E i \in InUse(g) : g.begin[i] <= a /\ a < g.end[i]
  BY DEF Tiles
<1>4. PmStart \in Int /\ PmEnd \in Int
  BY AddrFacts
<1>5. /\ b \in Pool /\ b \in InUse(g) /\ x \in InUse(g)
      /\ \A i \in InUse(c) : i \in InUse(g) /\ i \in Pool /\ i # x
  BY <1>1, <1>2
<1>6. ASSUME NEW i \in InUse(c)
      PROVE  /\ c.size[i] = c.end[i] - c.begin[i] /\ c.size[i] > 0
             /\ PmStart <= c.begin[i] /\ c.end[i] <= PmEnd
  <2>1. CASE i = b
    BY <1>1, <1>2, <1>3, <1>4, <1>5, <2>1
  <2>2. CASE i # b
    BY <1>1, <1>3, <1>5, <2>2
  <2> QED
    BY <2>1, <2>2
<1>7. ASSUME NEW i \in InUse(c), i # b
      PROVE  c.end[i] <= c.begin[b] \/ c.end[b] <= c.begin[i]
  <2>1. /\ g.end[i] <= g.begin[b] \/ g.end[b] <= g.begin[i]
        /\ g.end[i] <= g.begin[x] \/ g.end[x] <= g.begin[i]
    BY <1>3, <1>5, <1>7
  <2>2. g.begin[i] < g.end[i] /\ g.begin[x] < g.end[x]
    BY <1>1, <1>2, <1>3, <1>5
  <2> QED
    BY <1>1, <1>2, <1>5, <1>7, <2>1, <2>2
<1>8. ASSUME NEW i \in InUse(c), NEW j \in InUse(c), i # j
      PROVE  c.end[i] <= c.begin[j] \/ c.end[j] <= c.begin[i]
  <2>1. CASE i = b \/ j = b
    BY <1>7, <1>8, <2>1
  <2>2. CASE i # b /\ j # b
    BY <1>1, <1>3, <1>5, <1>8, <2>2
  <2> QED
    BY <2>1, <2>2
<1>9. ASSUME NEW a \in PmStart .. PmEnd - 1
      PROVE  \E i \in InUse(c) : c.begin[i] <= a /\ a < c.end[i]
  <2>1. PICK i \in InUse(g) : g.begin[i] <= a /\ a < g.end[i]
    BY <1>3
  <2>2. CASE i = b \/ i = x
    <3>1. g.begin[x] < g.end[x] /\ g.begin[b] < g.end[b]
      BY <1>1, <1>2, <1>3, <1>5
    <3>2. c.begin[b] <= a /\ a < c.end[b]
      BY <1>1, <1>2, <1>4, <1>5, <2>1, <2>2, <3>1
    <3> QED
      BY <1>1, <3>2
  <2>3. CASE i # b /\ i # x
    BY <1>1, <1>2, <2>1, <2>3
  <2> QED
    BY <2>2, <2>3
<1>10. Tiles(c)
  BY <1>6, <1>8, <1>9 DEF Tiles
<1>11. Total(c)
  <2>1. InUse(g) = InUse(c) \cup {x}
    BY <1>1, <1>2
  <2>2. g.size[b] + g.size[x] = c.size[b]
    BY <1>1, <1>2, <1>3, <1>5
  <2> DEFINE S == InUse(c)
             f == c.size
             e == g.size
  <2>3. /\ IsFiniteSet(S) /\ b \in S /\ x \notin S /\ e[b] + e[x] = f[b]
        /\ IntegersOn(f, S) /\ IntegersOn(e, S \cup {x}) /\ SameOn(e, f, S \ {b})
    BY <1>1, <1>2, <2>2 DEF IntegersOn, SameOn
  <2>4. SumOver(e, S \cup {x}) = PmEnd - PmStart
    BY <2>1 DEF Total
  <2> HIDE DEF S, f, e
  <2>5. SumOver(e, S \cup {x}) = SumOver(f, S)
    BY <2>3, SumSplit
  <2> QED
    BY <2>4, <2>5 DEF Total, S, f
<1> QED
  BY <1>10, <1>11

\* A block that changes hands leaves the tiling alone.
LEMMA SameTiles ==
  ASSUME NEW g \in Heaps, NEW c \in Heaps, Tiles(g), Total(g),
         \A i \in Pool : i \in InUse(c) <=> i \in InUse(g),
         c.begin = g.begin, c.end = g.end, c.size = g.size
  PROVE  Tiles(c) /\ Total(c)
<1>1. InUse(c) = InUse(g)
  BY BlockFacts
<1> QED
  BY <1>1 DEF Tiles, Total
(***************************************************************************)
(* Each operation keeps the heap in order.                                 *)
(***************************************************************************)
\* What is around a block of the list.
LEMMA Around ==
  ASSUME NEW g \in Heaps, NEW v, Lists(g, v), NEW b \in Free(g)
  PROVE  /\ g.next[b] \in Free(g) \cup {TAIL} /\ g.prev[b] \in Free(g) \cup {HEAD}
         /\ g.next[b] \in Nodes /\ g.prev[b] \in Nodes /\ b \in Pool
         /\ g.list_size - 1 \in Nat
         /\ \E k \in 1 .. g.list_size :
              v[k] = b /\ g.next[b] = v[k + 1] /\ g.prev[b] = v[k - 1]
<1> DEFINE n == g.list_size
<1>1. /\ n \in Nat /\ v \in [0 .. n + 1 -> Nodes] /\ v[0] = HEAD /\ v[n + 1] = TAIL
      /\ \A k \in 1 .. n : v[k] \in Pool /\ v[k] \in Free(g)
      /\ \A k \in 0 .. n : g.next[v[k]] = v[k + 1] /\ g.prev[v[k + 1]] = v[k]
      /\ \A i \in Free(g) : i \in Pool /\ \E k \in 1 .. n : v[k] = i
  <2>1. n = g.list_size
    OBVIOUS
  <2> HIDE DEF n
  <2> QED
    BY <2>1, ListFacts
<1> HIDE DEF n
<1>2. PICK k \in 1 .. n : v[k] = b
  BY <1>1
<1>3. /\ k \in 0 .. n /\ k - 1 \in 0 .. n /\ (k - 1) + 1 = k /\ n - 1 \in Nat
      /\ k + 1 \in 0 .. n + 1 /\ k - 1 \in 0 .. n + 1
      /\ (k + 1 = n + 1 \/ k + 1 \in 1 .. n) /\ (k - 1 = 0 \/ k - 1 \in 1 .. n)
  BY <1>1
<1>4. g.next[b] = v[k + 1]
  BY <1>1, <1>2, <1>3
<1>5. g.prev[b] = v[k - 1]
  <2>1. g.prev[v[(k - 1) + 1]] = v[k - 1]
    BY <1>1, <1>3
  <2> QED
    BY <1>2, <1>3, <2>1
<1>6. v[k + 1] \in Nodes /\ v[k + 1] \in Free(g) \cup {TAIL}
  BY <1>1, <1>3
<1>7. v[k - 1] \in Nodes /\ v[k - 1] \in Free(g) \cup {HEAD}
  BY <1>1, <1>3
<1>8. \E kk \in 1 .. n : v[kk] = b /\ g.next[b] = v[kk + 1] /\ g.prev[b] = v[kk - 1]
  BY <1>2, <1>4, <1>5
<1> QED
  BY <1>1, <1>3, <1>4, <1>5, <1>6, <1>7, <1>8 DEF n

\* The pointers of descriptors that are not in the list.
Loose(g) ==
  /\ \A i \in Pool : i \notin Free(g) => g.prev[i] = NULL /\ g.next[i] = NULL
  /\ g.prev[HEAD] = NULL /\ g.next[TAIL] = NULL

\* An insertion writes only pointers of the list.
LEMMA LooseIn ==
  ASSUME NEW g \in Heaps, NEW c \in Heaps, NEW b \in Pool, NEW x \in Free(g) \cup {HEAD},
         g.next[x] \in Free(g) \cup {TAIL},
         c.next = NextIn(g.next, x, b), c.prev = PrevIn(g.next, g.prev, x, b),
         FreeIn(g, c, b), Loose(g)
  PROVE  Loose(c)
<1> DEFINE nx == g.next
           pv == g.prev
<1>1. nx \in [Nodes -> Nodes \cup {NULL}] /\ pv \in [Nodes -> Nodes \cup {NULL}]
  BY HeapFields
<1>2. Free(g) \subseteq Pool
  BY DEF Free
<1>3. /\ \A i \in Nodes : i # b /\ i # x => c.next[i] = nx[i]
      /\ \A i \in Nodes : i # b /\ i # nx[x] => c.prev[i] = pv[i]
  BY <1>1 DEF NextIn, PrevIn
<1> QED
  BY <1>2, <1>3, NodeFacts DEF Loose, FreeIn

\* So does a removal.
LEMMA LooseOut ==
  ASSUME NEW g \in Heaps, NEW c \in Heaps, NEW b \in Free(g),
         g.next[b] \in Free(g) \cup {TAIL}, g.prev[b] \in Free(g) \cup {HEAD},
         c.next = NextOut(g.next, g.prev[b], b, g.next[b]),
         c.prev = PrevOut(g.prev, g.prev[b], b, g.next[b]),
         FreeOut(g, c, b), Loose(g)
  PROVE  Loose(c)
<1> DEFINE nx == g.next
           pv == g.prev
<1>1. nx \in [Nodes -> Nodes \cup {NULL}] /\ pv \in [Nodes -> Nodes \cup {NULL}]
  BY HeapFields
<1>2. Free(g) \subseteq Pool
  BY DEF Free
<1>3. /\ \A i \in Nodes : i # b /\ i # pv[b] => c.next[i] = nx[i]
      /\ \A i \in Nodes : i # b /\ i # nx[b] => c.prev[i] = pv[i]
      /\ c.next[b] = NULL /\ c.prev[b] = NULL
  BY <1>1, <1>2, NodeFacts DEF NextOut, PrevOut
<1> QED
  BY <1>2, <1>3, NodeFacts DEF Loose, FreeOut

\* c is g with what block b has beyond size in block x.
IsCut(g, b, size, x, c) ==
  /\ c.st = [g.st EXCEPT ![x] = "UNALLOCATED"]
  /\ c.begin = [g.begin EXCEPT ![x] = g.begin[b] + size]
  /\ c.end = [g.end EXCEPT ![x] = g.end[b], ![b] = g.begin[b] + size]
  /\ c.size = [g.size EXCEPT ![x] = g.size[b] - size, ![b] = size]

\* Cutting a free block.
LEMMA CutKeeps ==
  ASSUME NEW g, HeapInv(g), NEW b \in Free(g), Unused(g) # {}, NEW size \in Nat,
         0 < size, size < g.size[b]
  PROVE  /\ HeapInv(free_cut(g, b, size))
         /\ \E x \in Unused(g) : IsCut(g, b, size, x, free_cut(g, b, size))
<1> DEFINE c == free_cut(g, b, size)
           x == get_unused_block(g)
<1>1. g \in Heaps /\ Lists(g, Listing(g)) /\ Tiles(g) /\ Tidy(g) /\ Total(g)
  BY DEF HeapInv
<1>2. x \in Unused(g) /\ x \in Pool
  <2>1. Unused(g) \subseteq Pool
    BY DEF Unused
  <2>2. Unused(g) \in SUBSET Nat
    BY <2>1, NodeFacts DEF Pool
  <2>3. \E m \in Unused(g) : \A k \in Unused(g) : m <= k
    BY <2>2, LeastNatural
  <2> QED
    BY <2>1, <2>3 DEF get_unused_block, Min
<1>3. /\ g.next[b] \in Free(g) \cup {TAIL} /\ g.next[b] \in Nodes /\ b \in Pool
      /\ \E k \in 1 .. g.list_size : Listing(g)[k] = b /\ g.next[b] = Listing(g)[k + 1]
  BY <1>1, Around
<1>4. /\ InUse(g) \subseteq Pool
      /\ \A i \in Pool : /\ g.begin[i] \in Int /\ g.end[i] \in Int
                         /\ g.size[i] \in Int /\ g.size[i] \in Nat
      /\ \A i \in Pool : i \in InUse(g) <=> i \notin Unused(g)
      /\ Free(g) \subseteq InUse(g)
  BY <1>1, BlockFacts
<1>5. /\ g.size[b] = g.end[b] - g.begin[b] /\ PmStart <= g.begin[b] /\ g.end[b] <= PmEnd
      /\ b \in InUse(g) /\ x \notin InUse(g) /\ b # x /\ x \notin Free(g)
  BY <1>1, <1>2, <1>4 DEF Tiles
<1>6. /\ size \in Units /\ g.begin[b] + size \in Addr /\ g.size[b] - size \in Units
  <2>1. g.begin[b] \in Int /\ g.end[b] \in Int /\ g.size[b] \in Int
    BY <1>3, <1>4
  <2> QED
    BY <1>5, <2>1, AddrFacts
<1> HIDE DEF x
<1>7. /\ c \in Heaps
      /\ c.st = [g.st EXCEPT ![x] = "UNALLOCATED"]
      /\ c.begin = [g.begin EXCEPT ![x] = g.begin[b] + size]
      /\ c.end = [g.end EXCEPT ![x] = g.end[b], ![b] = g.begin[b] + size]
      /\ c.size = [g.size EXCEPT ![x] = g.size[b] - size, ![b] = size]
      /\ c.next = NextIn(g.next, b, x) /\ c.prev = PrevIn(g.next, g.prev, b, x)
      /\ c.list_size = g.list_size + 1
  <2>1. x = get_unused_block(g)
    BY DEF x
  <2> QED
    BY <1>1, <1>2, <1>3, <1>6, <2>1, CutFields
<1> HIDE DEF c
<1>8. /\ g.st \in [Pool -> States] /\ g.begin \in [Pool -> Addr]
      /\ g.end \in [Pool -> Addr] /\ g.size \in [Pool -> Units]
  BY <1>1, HeapFields
<1>9. \A i \in Pool : /\ i \in Free(c) <=> i \in Free(g) \/ i = x
                      /\ i \in InUse(c) <=> i \in InUse(g) \/ i = x
                      /\ i \in Unused(c) <=> i \in Unused(g) /\ i # x
  BY <1>2, <1>7, <1>8 DEF Free, InUse, Allocated, Unused
<1>10. /\ \A i \in Pool : i # x => c.begin[i] = g.begin[i]
       /\ \A i \in Pool : i # x /\ i # b => c.end[i] = g.end[i] /\ c.size[i] = g.size[i]
       /\ c.begin[x] = g.begin[b] + size /\ c.end[x] = g.end[b] /\ c.end[b] = c.begin[x]
       /\ c.size[x] = g.size[b] - size /\ c.size[b] = size
  BY <1>2, <1>3, <1>5, <1>7, <1>8
<1>11. g.begin[b] < c.begin[x] /\ c.begin[x] < g.end[b]
  BY <1>3, <1>4, <1>5, <1>10
<1>16. FreeIn(g, c, x)
  BY <1>4, <1>5, <1>9, <1>10 DEF FreeIn
<1>12. Lists(c, Listing(c))
  <2> DEFINE v == Listing(g)
  <2>1. PICK k \in 1 .. g.list_size : v[k] = b /\ g.next[b] = v[k + 1]
    BY <1>3
  <2>2. /\ g.list_size \in Nat /\ \A j \in 1 .. g.list_size : v[j] \in Free(g) /\ v[j] \in Pool
        /\ \A i, j \in 1 .. g.list_size : i < j => g.begin[v[i]] < g.begin[v[j]]
    BY <1>1, ListFacts
  <2>3. k \in 0 .. g.list_size
    BY <2>2
  <2>4. Lists(g, v)
    BY <1>1
  <2> HIDE DEF v
  <2>5. g.begin[v[k]] < c.begin[x]
    BY <1>11, <2>1
  <2>6. k # g.list_size => c.begin[x] < g.begin[v[k + 1]]
    <3> SUFFICES ASSUME k # g.list_size PROVE c.begin[x] < g.begin[v[k + 1]]
      OBVIOUS
    <3> DEFINE j == v[k + 1]
    <3>1. k + 1 \in 1 .. g.list_size /\ k < k + 1
      BY <2>2
    <3>2. j \in Free(g) /\ j \in Pool /\ g.begin[b] < g.begin[j]
      BY <2>1, <2>2, <3>1
    <3> HIDE DEF j
    <3>3. j \in InUse(g) /\ j # b
      BY <1>3, <1>4, <3>2
    <3>4. g.end[b] <= g.begin[j] \/ g.end[j] <= g.begin[b]
      BY <1>1, <1>5, <3>3 DEF Tiles
    <3>5. g.size[j] = g.end[j] - g.begin[j] /\ g.size[j] > 0
      BY <1>1, <3>3 DEF Tiles
    <3>6. c.begin[x] < g.begin[j]
      <4>1. /\ g.begin[b] \in Int /\ g.end[b] \in Int /\ g.begin[j] \in Int
            /\ g.end[j] \in Int /\ c.begin[x] \in Int
        BY <1>3, <1>4, <1>10, <3>2
      <4> QED
        BY <1>11, <3>2, <3>4, <3>5, <4>1
    <3> QED
      BY <3>6 DEF j
  <2>8. c.next = NextIn(g.next, v[k], x) /\ c.prev = PrevIn(g.next, g.prev, v[k], x)
    BY <1>7, <2>1
  <2>9. Between(g, c, v, k, x)
    BY <2>5, <2>6 DEF Between
  <2> QED
    BY ONLY <1>1, <1>2, <1>5, <1>7, <1>16, <2>3, <2>4, <2>8, <2>9, ListInsert
<1>13. Tiles(c) /\ Total(c)
  <2>1. Divides(g, c, b, x)
    BY <1>2, <1>4, <1>5, <1>9, <1>10, <1>3 DEF Divides
  <2>2. /\ c.size[b] = c.end[b] - c.begin[b] /\ c.size[x] = c.end[x] - c.begin[x]
        /\ c.begin[b] < c.end[b] /\ c.begin[x] < c.end[x]
    BY <1>3, <1>4, <1>5, <1>10, <1>11
  <2> QED
    BY <1>1, <1>7, <2>1, <2>2, DivideTiles
<1>14. Tidy(c)
  <2>1. Loose(g)
    BY <1>1 DEF Tidy, Loose
  <2>2. Loose(c)
    <3>1. b \in Free(g) \cup {HEAD}
      OBVIOUS
    <3> QED
      BY <1>1, <1>2, <1>3, <1>7, <1>16, <2>1, <3>1, LooseIn
  <2>3. /\ 0 \in InUse(g) /\ g.begin[0] = PmStart /\ 0 \in Pool
        /\ \A i \in Unused(g) : g.begin[i] = 0 /\ g.end[i] = 0 /\ g.size[i] = 0
    BY <1>1, NodeFacts DEF Tidy
  <2>4. 0 \in InUse(c) /\ c.begin[0] = PmStart
    BY <1>5, <1>9, <1>10, <2>3
  <2>5. \A i \in Unused(c) : c.begin[i] = 0 /\ c.end[i] = 0 /\ c.size[i] = 0
    <3> TAKE i \in Unused(c)
    <3>1. i \in Pool /\ i \in Unused(g) /\ i # x
      BY <1>9 DEF Unused
    <3>2. i # b
      BY <1>4, <1>5, <3>1
    <3> QED
      BY <1>10, <2>3, <3>1, <3>2
  <2> QED
    BY <2>2, <2>4, <2>5 DEF Tidy, Loose
<1>15. HeapInv(c)
  BY <1>7, <1>12, <1>13, <1>14 DEF HeapInv
<1> QED
  BY <1>2, <1>7, <1>15 DEF c, IsCut
\* Handing out a free block.
LEMMA DeleteKeeps ==
  ASSUME NEW g, HeapInv(g), NEW b \in Free(g)
  PROVE  /\ HeapInv(free_delete(g, b))
         /\ free_delete(g, b).st = [g.st EXCEPT ![b] = "ALLOCATED"]
         /\ free_delete(g, b).begin = g.begin /\ free_delete(g, b).end = g.end
         /\ free_delete(g, b).size = g.size
<1> DEFINE c == free_delete(g, b)
<1>1. g \in Heaps /\ Lists(g, Listing(g)) /\ Tiles(g) /\ Tidy(g) /\ Total(g)
  BY DEF HeapInv
<1>2. /\ g.next[b] \in Free(g) \cup {TAIL} /\ g.prev[b] \in Free(g) \cup {HEAD}
      /\ g.next[b] \in Nodes /\ g.prev[b] \in Nodes /\ b \in Pool /\ g.list_size - 1 \in Nat
  BY <1>1, Around
<1>3. /\ c \in Heaps
      /\ c.st = [g.st EXCEPT ![b] = "ALLOCATED"]
      /\ c.begin = g.begin /\ c.end = g.end /\ c.size = g.size
      /\ c.next = NextOut(g.next, g.prev[b], b, g.next[b])
      /\ c.prev = PrevOut(g.prev, g.prev[b], b, g.next[b])
      /\ c.list_size = g.list_size - 1
  BY <1>1, <1>2, DeleteFields
<1> HIDE DEF c
<1>4. g.st \in [Pool -> States] /\ g.st[b] = "UNALLOCATED"
  BY <1>1, HeapFields DEF Free
<1>5. \A i \in Pool : /\ i \in Free(c) <=> i \in Free(g) /\ i # b
                      /\ i \in InUse(c) <=> i \in InUse(g)
                      /\ i \in Unused(c) <=> i \in Unused(g)
  BY <1>2, <1>3, <1>4 DEF Free, InUse, Allocated, Unused
<1>6. FreeOut(g, c, b)
  BY <1>3, <1>5 DEF FreeOut
<1>7. Lists(c, Listing(c))
  BY ONLY <1>1, <1>3, <1>6, b \in Free(g), ListRemove
<1>8. Tiles(c) /\ Total(c)
  BY <1>1, <1>3, <1>5, SameTiles
<1>9. Tidy(c)
  <2>1. Loose(g)
    BY <1>1 DEF Tidy, Loose
  <2>2. Loose(c)
    BY <1>1, <1>2, <1>3, <1>6, <2>1, LooseOut
  <2>3. 0 \in InUse(c) /\ c.begin[0] = PmStart
    BY <1>1, <1>3, <1>5, NodeFacts DEF Tidy
  <2>4. \A i \in Unused(c) : i \in Unused(g)
    BY <1>5 DEF Unused
  <2>5. \A i \in Unused(c) : c.begin[i] = 0 /\ c.end[i] = 0 /\ c.size[i] = 0
    BY <1>1, <1>3, <2>4 DEF Tidy
  <2> QED
    BY <2>2, <2>3, <2>5 DEF Tidy, Loose
<1>10. HeapInv(c)
  BY <1>3, <1>7, <1>8, <1>9 DEF HeapInv
<1> QED
  BY <1>3, <1>10 DEF c

\* Where the block that is freed goes: in front of the first that begins behind it.
LEMMA FormerFits ==
  ASSUME NEW g, HeapInv(g), NEW b \in Allocated(g)
  PROVE  \E p \in 0 .. g.list_size :
           /\ Former(g, b) = Listing(g)[p]
           /\ p # 0 => g.begin[Listing(g)[p]] < g.begin[b]
           /\ p # g.list_size => g.begin[b] < g.begin[Listing(g)[p + 1]]
<1> DEFINE n == g.list_size
           v == Listing(g)
           w == Walk(g)
           K == {k \in 0 .. POOL_SIZE :
                   w[k] # TAIL /\ free_cmp(g, w[k], b) /\ free_cmp(g, b, w[k + 1])}
           beg == g.begin
           Late == {k \in 0 .. n : v[k + 1] = TAIL \/ beg[b] < beg[v[k + 1]]}
<1>1. g \in Heaps /\ Lists(g, v) /\ Tiles(g)
  BY DEF HeapInv
<1>2. /\ n \in Nat /\ v[0] = HEAD /\ v[n + 1] = TAIL
      /\ \A k \in 1 .. n : v[k] \in Pool /\ v[k] \in Free(g)
  <2> HIDE DEF v
  <2> QED
    BY <1>1, ListFacts
<1>3. /\ \A k \in 0 .. n + 1 : w[k] = v[k]
      /\ \A k \in 0 .. POOL_SIZE + 1 : k > n => w[k] = TAIL
      /\ n <= POOL_SIZE /\ POOL_SIZE \in Nat
  <2> HIDE DEF v
  <2>1. IsChain(g.next, g.prev, v, n)
    BY <1>1 DEF Lists
  <2> QED
    BY <2>1, WalkIsChain, ChainShort, NodeFacts
<1>4. b \in Pool /\ b \in InUse(g) /\ b \notin Free(g) /\ beg[b] \in Int
      /\ \A i \in Pool : beg[i] \in Int
  BY <1>1, BlockFacts DEF Allocated
<1>5. \A i \in Free(g) : i \in InUse(g) /\ i # b /\ beg[i] # beg[b]
  <2> TAKE i \in Free(g)
  <2>1. i \in InUse(g) /\ i # b /\ i \in Pool
    BY <1>1, <1>4, BlockFacts
  <2>2. g.end[i] <= beg[b] \/ g.end[b] <= beg[i]
    BY <1>1, <1>4, <2>1 DEF Tiles
  <2>3. /\ g.size[i] = g.end[i] - beg[i] /\ g.size[i] > 0
        /\ g.size[b] = g.end[b] - beg[b] /\ g.size[b] > 0
    BY <1>1, <1>4, <2>1 DEF Tiles
  <2>4. beg[i] \in Int /\ g.end[i] \in Int /\ g.end[b] \in Int
    BY <1>1, <1>4, <2>1, BlockFacts
  <2> QED
    BY <1>4, <2>1, <2>2, <2>3, <2>4
<1>6. Former(g, b) = w[Min(K)]
  BY DEF Former
<1>7. \A x, y : free_cmp(g, x, y) <=> x = HEAD \/ y = TAIL \/ beg[x] < beg[y]
  BY DEF free_cmp
<1> HIDE DEF n, v, w, beg
<1>8. PICK m \in Late : \A k \in Late : m <= k
  <2>1. Late \in SUBSET Nat /\ n \in Late
    BY <1>2
  <2> QED
    BY <2>1, LeastNatural
<1>9. m \in K
  <2>1. m \in 0 .. n /\ m \in 0 .. POOL_SIZE /\ m \in 0 .. n + 1 /\ m + 1 \in 0 .. n + 1
    BY <1>2, <1>3
  <2>2. w[m] = v[m] /\ w[m + 1] = v[m + 1]
    BY <1>3, <2>1
  <2>3. b # HEAD /\ b # TAIL
    BY <1>4, NodeFacts
  <2>4. free_cmp(g, b, w[m + 1])
    BY <1>7, <2>2
  <2>5. w[m] # TAIL /\ free_cmp(g, w[m], b)
    <3>1. CASE m = 0
      BY <1>2, <1>7, <2>2, <3>1, NodeFacts
    <3>2. CASE m # 0
      <4>1. m - 1 \in 0 .. n /\ (m - 1) + 1 = m /\ m \in 1 .. n /\ m - 1 < m
        BY <1>2, <2>1, <3>2
      <4>2. m - 1 \notin Late
        BY <1>2, <1>8, <2>1, <4>1
      <4>3. ~ (beg[b] < beg[v[m]])
        BY <4>1, <4>2
      <4>4. v[m] \in Pool /\ v[m] \in Free(g) /\ beg[v[m]] # beg[b]
        BY <1>2, <1>5, <4>1
      <4>5. beg[v[m]] < beg[b] /\ v[m] # TAIL
        BY <1>4, <4>3, <4>4, NodeFacts
      <4> QED
        BY <1>7, <2>2, <4>5
    <3> QED
      BY <3>1, <3>2
  <2> QED
    BY <2>1, <2>4, <2>5
<1> DEFINE p == Min(K)
<1>10. p \in K
  <2>1. K \in SUBSET Nat
    BY <1>3
  <2>2. K # {}
    BY <1>9
  <2> HIDE DEF K
  <2>3. \E x \in K : \A y \in K : x <= y
    BY <2>1, <2>2, LeastNatural
  <2> QED
    BY <2>3 DEF Min
<1>11. p \in 0 .. POOL_SIZE /\ w[p] # TAIL /\ free_cmp(g, w[p], b) /\ free_cmp(g, b, w[p + 1])
  BY <1>10
<1> HIDE DEF p, K
<1>12. /\ p \in 0 .. n /\ p \in 0 .. n + 1 /\ p + 1 \in 0 .. n + 1
  BY <1>2, <1>3, <1>11
<1>13. w[p] = v[p] /\ w[p + 1] = v[p + 1]
  BY <1>3, <1>12
<1>14. p # 0 => beg[v[p]] < beg[b]
  <2> SUFFICES ASSUME p # 0 PROVE beg[v[p]] < beg[b]
    OBVIOUS
  <2>1. p \in 1 .. n
    BY <1>2, <1>12
  <2> QED
    BY <1>2, <1>4, <1>7, <1>11, <1>13, <2>1, NodeFacts
<1>15. p # n => beg[b] < beg[v[p + 1]]
  <2> SUFFICES ASSUME p # n PROVE beg[b] < beg[v[p + 1]]
    OBVIOUS
  <2>1. p + 1 \in 1 .. n
    BY <1>2, <1>12
  <2> QED
    BY <1>2, <1>4, <1>7, <1>11, <1>13, <2>1, NodeFacts
<1>16. Former(g, b) = v[p]
  BY <1>6, <1>13 DEF p
<1> QED
  BY <1>12, <1>14, <1>15, <1>16 DEF v, n, beg

\* Putting a block back into the list.
LEMMA LinkKeeps ==
  ASSUME NEW g, HeapInv(g), NEW b \in Allocated(g)
  PROVE  LET c == Link(g, Former(g, b), b) IN
         /\ HeapInv(c)
         /\ c.st = [g.st EXCEPT ![b] = "UNALLOCATED"]
         /\ c.begin = g.begin /\ c.end = g.end /\ c.size = g.size
         /\ c.prev[b] = Former(g, b) /\ Former(g, b) \in Free(g) \cup {HEAD}
<1> DEFINE f == Former(g, b)
           c == Link(g, f, b)
           v == Listing(g)
           n == g.list_size
<1>1. g \in Heaps /\ Lists(g, v) /\ Tiles(g) /\ Tidy(g) /\ Total(g)
  BY DEF HeapInv
<1>2. PICK p \in 0 .. n : /\ f = v[p]
                          /\ p # 0 => g.begin[v[p]] < g.begin[b]
                          /\ p # n => g.begin[b] < g.begin[v[p + 1]]
  BY FormerFits
<1>3. /\ n \in Nat /\ v \in [0 .. n + 1 -> Nodes] /\ v[0] = HEAD /\ v[n + 1] = TAIL
      /\ \A k \in 1 .. n : v[k] \in Pool /\ v[k] \in Free(g)
      /\ \A k \in 0 .. n : g.next[v[k]] = v[k + 1]
  <2>1. n = g.list_size
    OBVIOUS
  <2> HIDE DEF n, v
  <2> QED
    BY <1>1, <2>1, ListFacts
<1>4. b \in Pool /\ b \in InUse(g) /\ b \notin Free(g) /\ g.st[b] = "ALLOCATED"
      /\ \A i \in Pool : g.begin[i] \in Int
  BY <1>1, BlockFacts DEF Allocated
<1> HIDE DEF v, f
<1>5. /\ f \in Nodes /\ g.next[f] = v[p + 1] /\ g.next[f] \in Nodes
      /\ f \in Free(g) \cup {HEAD} /\ g.next[f] \in Free(g) \cup {TAIL}
  <2>1. /\ p \in 0 .. n /\ p \in 0 .. n + 1 /\ p + 1 \in 0 .. n + 1
        /\ (p = 0 \/ p \in 1 .. n) /\ (p + 1 = n + 1 \/ p + 1 \in 1 .. n)
    BY <1>3
  <2> QED
    BY <1>2, <1>3, <2>1
<1>6. g.next[f] # TAIL => g.begin[g.next[f]] # g.begin[b]
  <2> SUFFICES ASSUME g.next[f] # TAIL PROVE g.begin[g.next[f]] # g.begin[b]
    OBVIOUS
  <2>1. p # n /\ p + 1 \in 1 .. n
    BY <1>3, <1>5
  <2>2. g.begin[b] < g.begin[v[p + 1]] /\ v[p + 1] \in Pool
    BY <1>2, <1>3, <2>1
  <2> QED
    BY <1>4, <1>5, <2>2
<1>7. /\ c \in Heaps
      /\ c.st = [g.st EXCEPT ![b] = "UNALLOCATED"]
      /\ c.begin = g.begin /\ c.end = g.end /\ c.size = g.size
      /\ c.next = NextIn(g.next, f, b) /\ c.prev = PrevIn(g.next, g.prev, f, b)
      /\ c.list_size = g.list_size + 1
  BY <1>1, <1>5, <1>6, LinkFields
<1> HIDE DEF c
<1>8. g.st \in [Pool -> States] /\ g.prev \in [Nodes -> Nodes \cup {NULL}]
  BY <1>1, HeapFields
<1>9. \A i \in Pool : /\ i \in Free(c) <=> i \in Free(g) \/ i = b
                      /\ i \in InUse(c) <=> i \in InUse(g)
                      /\ i \in Unused(c) <=> i \in Unused(g)
  BY <1>4, <1>7, <1>8 DEF Free, InUse, Allocated, Unused
<1>10. FreeIn(g, c, b)
  BY <1>7, <1>9 DEF FreeIn
<1>11. Lists(c, Listing(c))
  <2>1. Between(g, c, v, p, b)
    BY <1>2, <1>7 DEF Between
  <2>2. /\ c.next = NextIn(g.next, v[p], b) /\ c.prev = PrevIn(g.next, g.prev, v[p], b)
        /\ p \in 0 .. g.list_size
    BY <1>2, <1>7
  <2> QED
    BY ONLY <1>1, <1>4, <1>7, <1>10, <2>1, <2>2, ListInsert
<1>12. Tiles(c) /\ Total(c)
  BY <1>1, <1>7, <1>9, SameTiles
<1>13. Tidy(c)
  <2>1. Loose(g)
    BY <1>1 DEF Tidy, Loose
  <2>2. Loose(c)
    BY <1>1, <1>4, <1>5, <1>7, <1>10, <2>1, LooseIn
  <2>3. 0 \in InUse(c) /\ c.begin[0] = PmStart
    BY <1>1, <1>7, <1>9, NodeFacts DEF Tidy
  <2>4. \A i \in Unused(c) : i \in Unused(g)
    BY <1>9 DEF Unused
  <2>5. \A i \in Unused(c) : c.begin[i] = 0 /\ c.end[i] = 0 /\ c.size[i] = 0
    BY <1>1, <1>7, <2>4 DEF Tidy
  <2> QED
    BY <2>2, <2>3, <2>5 DEF Tidy, Loose
<1>14. HeapInv(c)
  BY <1>7, <1>11, <1>12, <1>13 DEF HeapInv
<1>15. c.prev[b] = f
  <2>1. b # g.next[f] /\ b \in Nodes
    BY <1>4, <1>5, NodeFacts
  <2> QED
    BY <1>7, <1>8, <2>1 DEF PrevIn
<1> QED
  BY <1>5, <1>7, <1>14, <1>15 DEF c, f
\* Merging a free block with the free block behind it.
LEMMA MergeKeeps ==
  ASSUME NEW g, HeapInv(g), NEW p \in Free(g), NEW q \in Free(g), g.end[p] = g.begin[q]
  PROVE  /\ HeapInv(free_merge(g, p, q))
         /\ free_merge(g, p, q).st = [g.st EXCEPT ![q] = "UNUSED"]
         /\ free_merge(g, p, q).begin = [g.begin EXCEPT ![q] = 0]
         /\ free_merge(g, p, q).end = [g.end EXCEPT ![p] = g.end[q], ![q] = 0]
         /\ free_merge(g, p, q).size =
              [g.size EXCEPT ![p] = g.end[q] - g.begin[p], ![q] = 0]
         /\ p # q
<1> DEFINE c == Merged(g, p, q)
<1>1. g \in Heaps /\ Lists(g, Listing(g)) /\ Tiles(g) /\ Tidy(g) /\ Total(g)
  BY DEF HeapInv
<1>2. g.next[p] = q /\ g.prev[q] = p /\ p # q
  BY <1>1, Neighbours
<1>3. /\ g.next[q] \in Free(g) \cup {TAIL} /\ g.prev[q] \in Free(g) \cup {HEAD}
      /\ g.next[q] \in Nodes /\ p \in Pool /\ q \in Pool /\ g.list_size - 1 \in Nat
  BY <1>1, Around DEF Free
<1>4. /\ \A i \in Pool : /\ g.begin[i] \in Int /\ g.end[i] \in Int /\ g.size[i] \in Int
      /\ p \in InUse(g) /\ q \in InUse(g)
  BY <1>1, BlockFacts
<1>5. /\ g.size[p] = g.end[p] - g.begin[p] /\ g.size[q] = g.end[q] - g.begin[q]
      /\ g.size[p] > 0 /\ g.size[q] > 0 /\ PmStart <= g.begin[p] /\ g.end[q] <= PmEnd
  BY <1>1, <1>4 DEF Tiles
<1>6. /\ g.begin[p] \in Int /\ g.end[p] \in Int /\ g.begin[q] \in Int /\ g.end[q] \in Int
      /\ g.size[p] \in Int /\ g.size[q] \in Int
  BY <1>3, <1>4
<1>7. /\ g.end[q] - g.begin[p] = g.size[p] + g.size[q] /\ g.end[q] - g.begin[p] \in Units
  BY <1>5, <1>6, AddrFacts
<1>8. /\ free_merge(g, p, q) = free_check(c)
      /\ c \in Heaps
      /\ c.st = [g.st EXCEPT ![q] = "UNUSED"]
      /\ c.begin = [g.begin EXCEPT ![q] = 0]
      /\ c.end = [g.end EXCEPT ![p] = g.end[q], ![q] = 0]
      /\ c.size = [g.size EXCEPT ![p] = g.end[q] - g.begin[p], ![q] = 0]
      /\ c.next = NextOut(g.next, g.prev[q], q, g.next[q])
      /\ c.prev = PrevOut(g.prev, g.prev[q], q, g.next[q])
      /\ c.list_size = g.list_size - 1
  <2>1. CanMerge(g, p, q)
    BY <1>1, <1>2, <1>3, <1>7 DEF CanMerge
  <2>2. free_merge(g, p, q) = free_check(c) /\ IsMerge(g, p, q, c)
    BY <2>1, MergeFields
  <2> QED
    BY <2>2 DEF IsMerge
<1> HIDE DEF c
<1>9. /\ g.st \in [Pool -> States] /\ g.begin \in [Pool -> Addr]
      /\ g.end \in [Pool -> Addr] /\ g.size \in [Pool -> Units]
      /\ g.st[q] = "UNALLOCATED" /\ g.st[p] = "UNALLOCATED"
  BY <1>1, HeapFields DEF Free
<1>10. \A i \in Pool : /\ i \in Free(c) <=> i \in Free(g) /\ i # q
                       /\ i \in InUse(c) <=> i \in InUse(g) /\ i # q
                       /\ i \in Unused(c) <=> i \in Unused(g) \/ i = q
  BY <1>3, <1>8, <1>9 DEF Free, InUse, Allocated, Unused
<1>11. /\ \A i \in Pool : i # q => c.begin[i] = g.begin[i]
       /\ \A i \in Pool : i # p /\ i # q => c.end[i] = g.end[i] /\ c.size[i] = g.size[i]
       /\ c.end[p] = g.end[q] /\ c.size[p] = g.end[q] - g.begin[p]
       /\ c.begin[q] = 0 /\ c.end[q] = 0 /\ c.size[q] = 0
  BY <1>2, <1>3, <1>8, <1>9
<1>12. FreeOut(g, c, q)
  <2>1. \A i \in Free(c) : i \in Pool
    BY DEF Free
  <2> QED
    BY <1>10, <1>11, <2>1 DEF FreeOut
<1>13. Lists(c, Listing(c))
  BY ONLY <1>1, <1>8, <1>12, q \in Free(g), ListRemove
<1>14. Tiles(c) /\ Total(c)
  <2>1. InUse(c) \subseteq Pool
    BY <1>8, BlockFacts
  <2>2. Divides(c, g, p, q)
    BY <1>2, <1>3, <1>4, <1>10, <1>11, <2>1 DEF Divides
  <2>3. c.size[p] = c.end[p] - c.begin[p]
    BY <1>2, <1>3, <1>11
  <2> QED
    BY <1>1, <1>8, <2>2, <2>3, JoinTiles
<1>15. Tidy(c)
  <2>1. Loose(g)
    BY <1>1 DEF Tidy, Loose
  <2>2. Loose(c)
    BY <1>1, <1>3, <1>8, <1>12, <2>1, LooseOut
  <2>3. 0 \in InUse(g) /\ g.begin[0] = PmStart /\ 0 \in Pool
    BY <1>1, NodeFacts DEF Tidy
  <2>4. q # 0
    BY <1>5, <1>6, <2>3, AddrFacts
  <2>5. 0 \in InUse(c) /\ c.begin[0] = PmStart
    BY <1>10, <1>11, <2>3, <2>4
  <2>6. \A i \in Unused(c) : c.begin[i] = 0 /\ c.end[i] = 0 /\ c.size[i] = 0
    <3> TAKE i \in Unused(c)
    <3>1. i \in Pool /\ (i \in Unused(g) \/ i = q)
      BY <1>10 DEF Unused
    <3>2. CASE i = q
      BY <1>11, <3>2
    <3>3. CASE i # q
      <4>1. i # p
        BY <1>9, <3>1, <3>3 DEF Unused
      <4>2. g.begin[i] = 0 /\ g.end[i] = 0 /\ g.size[i] = 0
        BY <1>1, <3>1, <3>3 DEF Tidy
      <4> QED
        BY <1>11, <3>1, <3>3, <4>1, <4>2
    <3> QED
      BY <3>2, <3>3
  <2> QED
    BY <2>2, <2>5, <2>6 DEF Tidy, Loose
<1>16. HeapInv(c)
  BY <1>8, <1>13, <1>14, <1>15 DEF HeapInv
<1>17. free_merge(g, p, q) = c
  BY <1>8, <1>13, CheckHolds
<1> QED
  BY <1>2, <1>8, <1>16, <1>17

\* The blocks that c hands out are those of g, unmoved, except perhaps b.
SameLive(g, c, b) ==
  /\ \A i \in Pool : i \in Allocated(c) <=> i \in Allocated(g) /\ i # b
  /\ \A i \in Allocated(c) : /\ c.begin[i] = g.begin[i] /\ c.end[i] = g.end[i]
                             /\ c.size[i] = g.size[i]

\* Freeing a block: the list takes it, and no two free blocks stay apart.
LEMMA InsertKeeps ==
  ASSUME NEW g, HeapInv(g), Apart(g), NEW b \in Allocated(g)
  PROVE  /\ HeapInv(free_insert(g, b)) /\ Apart(free_insert(g, b))
         /\ SameLive(g, free_insert(g, b), b)
<1> DEFINE former == Former(g, b)
           linked == Link(g, former, b)
           latter == linked.next[b]
           right  == IF free_adjcent(linked, b, latter)
                     THEN free_merge(linked, b, latter) ELSE linked
           both   == IF free_adjcent(right, former, b)
                     THEN free_merge(right, former, b) ELSE right
<1>1. free_insert(g, b) = free_check(both)
  BY DEF free_insert
<1>2. g \in Heaps /\ g.st \in [Pool -> States] /\ b \in Pool /\ g.st[b] = "ALLOCATED"
  BY HeapFields DEF HeapInv, Allocated
<1>3. /\ HeapInv(linked)
      /\ linked.st = [g.st EXCEPT ![b] = "UNALLOCATED"]
      /\ linked.begin = g.begin /\ linked.end = g.end /\ linked.size = g.size
      /\ linked.prev[b] = former /\ former \in Free(g) \cup {HEAD}
  BY LinkKeeps
<1> HIDE DEF former, linked
<1>4. /\ linked \in Heaps /\ Lists(linked, Listing(linked)) /\ Tiles(linked)
      /\ linked.st \in [Pool -> States]
  BY <1>3, HeapFields DEF HeapInv
<1>5. /\ \A i \in Pool : i \in Free(linked) <=> i \in Free(g) \/ i = b
      /\ \A i \in Pool : i \in Allocated(linked) <=> i \in Allocated(g) /\ i # b
      /\ b \in Free(linked) /\ \A i \in Free(linked) : i \in Pool
  BY <1>2, <1>3 DEF Free, Allocated
<1>6. latter \in Free(linked) \cup {TAIL}
  BY <1>4, <1>5, Around
<1>7. ASSUME NEW i \in Free(linked), NEW j \in Free(linked), linked.end[i] = linked.begin[j]
      PROVE  (i = b /\ j = latter /\ j # b) \/ (j = b /\ i = former /\ i # b)
  <2>1. linked.next[i] = j /\ linked.prev[j] = i /\ i # j
    BY <1>4, <1>7, Neighbours
  <2>2. i = b \/ j = b
    BY <1>3, <1>5, <1>7 DEF Apart
  <2> QED
    BY <1>3, <2>1, <2>2
<1>8. /\ HeapInv(right) /\ b \in Free(right) /\ SameLive(g, right, b)
      /\ right.begin[b] = g.begin[b]
      /\ \A i \in Free(right) : i \in Free(linked)
      /\ former \in Free(g) => former \in Free(right) \/ former = latter
      /\ \A i, j \in Free(right) : right.end[i] = right.begin[j] => j = b /\ i = former
  <2> DEFINE adj == free_adjcent(linked, b, latter)
  <2>0. adj <=> latter # TAIL /\ linked.end[b] = linked.begin[latter]
    BY <1>2, NodeFacts DEF free_adjcent
  <2>1. CASE ~ adj
    <3>1. right = linked
      BY <2>1
    <3>2. SameLive(g, linked, b)
      BY <1>3, <1>5 DEF SameLive
    <3>3. former \in Free(g) => former \in Free(linked)
      BY <1>5 DEF Free
    <3>4. latter = TAIL => latter \notin Free(linked)
      BY <1>5, NodeFacts
    <3> HIDE DEF latter, adj, right
    <3>5. \A i, j \in Free(linked) : linked.end[i] = linked.begin[j] => j = b /\ i = former
      BY <1>7, <2>0, <2>1, <3>4
    <3> QED
      BY <1>3, <1>5, <3>1, <3>2, <3>3, <3>5
  <2>2. CASE adj
    <3>1. latter \in Free(linked) /\ linked.end[b] = linked.begin[latter]
      BY <1>6, <2>0, <2>2
    <3>2. right = free_merge(linked, b, latter)
      BY <2>2
    <3> HIDE DEF latter, adj, right
    <3>3. /\ HeapInv(right)
          /\ right.st = [linked.st EXCEPT ![latter] = "UNUSED"]
          /\ right.begin = [linked.begin EXCEPT ![latter] = 0]
          /\ right.end = [linked.end EXCEPT ![b] = linked.end[latter], ![latter] = 0]
          /\ right.size = [linked.size EXCEPT
                             ![b] = linked.end[latter] - linked.begin[b], ![latter] = 0]
          /\ b # latter
      <4>1. HeapInv(linked) /\ b \in Free(linked)
        BY <1>3, <1>5
      <4> QED
        BY ONLY <3>1, <3>2, <4>1, MergeKeeps
    <3>4. latter \in Pool /\ linked.st[latter] = "UNALLOCATED"
      BY <3>1 DEF Free
    <3>5. \A i \in Pool : /\ i \in Free(right) <=> i \in Free(linked) /\ i # latter
                          /\ i \in Allocated(right) <=> i \in Allocated(linked)
      BY <1>4, <3>3, <3>4 DEF Free, Allocated
    <3>6. /\ linked.begin \in [Pool -> Addr] /\ linked.end \in [Pool -> Addr]
          /\ linked.size \in [Pool -> Units]
      BY <1>4, HeapFields
    <3>7. /\ \A i \in Pool : i # latter => right.begin[i] = g.begin[i]
          /\ \A i \in Pool : i # latter /\ i # b =>
               right.end[i] = g.end[i] /\ right.size[i] = g.size[i]
          /\ right.end[b] = g.end[latter]
      BY <1>2, <1>3, <3>3, <3>4, <3>6
    <3>8. \A i \in Free(right) : i \in Pool /\ i \in Free(linked) /\ i # latter
      BY <3>5 DEF Free
    <3>9. SameLive(g, right, b)
      <4>1. \A i \in Allocated(right) : i \in Pool /\ i # b /\ i # latter
        BY <1>5, <3>4, <3>5 DEF Allocated
      <4> QED
        BY <1>5, <3>5, <3>7, <4>1 DEF SameLive
    <3>10. former \in Free(g) => former \in Free(right) \/ former = latter
      BY <1>5, <3>5 DEF Free
    <3>11. latter \in Free(g)
      BY <1>5, <3>3, <3>4, <3>1
    <3>12. ASSUME NEW i \in Free(right), NEW j \in Free(right), right.end[i] = right.begin[j]
           PROVE  j = b /\ i = former
      <4>1. /\ i \in Pool /\ j \in Pool /\ i \in Free(linked) /\ j \in Free(linked)
            /\ i # latter /\ j # latter /\ right.begin[j] = g.begin[j]
        BY <3>7, <3>8
      <4>2. CASE i = b
        <5>1. g.end[latter] = g.begin[j]
          BY <3>7, <3>12, <4>1, <4>2
        <5>2. j \notin Free(g)
          BY <3>11, <5>1 DEF Apart
        <5>3. j = b
          BY <1>5, <4>1, <5>2
        <5>4. Tiles(right) /\ right \in Heaps /\ Lists(right, Listing(right))
          BY <3>3 DEF HeapInv
        <5>5. i # j
          BY <3>12, <5>4, Neighbours
        <5> QED
          BY <4>2, <5>3, <5>5
      <4>3. CASE i # b
        <5>1. linked.end[i] = linked.begin[j]
          BY <1>3, <3>7, <3>12, <4>1, <4>3
        <5> QED
          BY <1>7, <4>1, <4>3, <5>1
      <4> QED
        BY <4>2, <4>3
    <3>13. b \in Free(right) /\ right.begin[b] = g.begin[b]
      BY <1>2, <1>5, <3>3, <3>5, <3>7
    <3> QED
      BY <3>3, <3>8, <3>9, <3>10, <3>12, <3>13
  <2> QED
    BY <2>1, <2>2
<1> HIDE DEF right
<1>9. HeapInv(both) /\ Apart(both) /\ SameLive(g, both, b)
  <2> DEFINE adj == free_adjcent(right, former, b)
  <2>0. adj <=> former # HEAD /\ right.end[former] = right.begin[b]
    BY <1>2, NodeFacts DEF free_adjcent
  <2>1. CASE ~ adj
    <3>1. both = right
      BY <2>1
    <3>2. \A i \in Free(right) : i # HEAD
      BY NodeFacts DEF Free
    <3> HIDE DEF adj, both
    <3>3. Apart(right)
      BY <1>8, <2>0, <2>1, <3>2 DEF Apart
    <3> QED
      BY <1>8, <3>1, <3>3
  <2>2. CASE adj
    <3>1. both = free_merge(right, former, b)
      BY <2>2
    <3>2. former \in Free(g) /\ former # HEAD /\ right.end[former] = right.begin[b]
      BY <1>3, <2>0, <2>2
    <3>3. former \in Free(right)
      <4> SUFFICES ASSUME former \notin Free(right) PROVE FALSE
        OBVIOUS
      <4>1. former = latter
        BY <1>8, <3>2
      <4>2. linked.prev[b] = linked.next[b]
        BY <1>3, <4>1
      <4>3. /\ linked.list_size \in Nat
            /\ \E k \in 1 .. linked.list_size :
                 linked.next[b] = Listing(linked)[k + 1] /\ linked.prev[b] = Listing(linked)[k - 1]
            /\ \A j, k \in 0 .. linked.list_size + 1 :
                 Listing(linked)[j] = Listing(linked)[k] => j = k
        BY <1>4, <1>5, Around, ListFacts, SMTT(20)
      <4>4. PICK k \in 1 .. linked.list_size :
               linked.next[b] = Listing(linked)[k + 1] /\ linked.prev[b] = Listing(linked)[k - 1]
        BY <4>3
      <4>5. k + 1 \in 0 .. linked.list_size + 1 /\ k - 1 \in 0 .. linked.list_size + 1
        BY <4>3
      <4>6. k + 1 = k - 1
        BY <4>2, <4>3, <4>4, <4>5
      <4> QED
        BY <4>6
    <3> HIDE DEF adj, both
    <3>4. /\ HeapInv(both)
          /\ both.st = [right.st EXCEPT ![b] = "UNUSED"]
          /\ both.begin = [right.begin EXCEPT ![b] = 0]
          /\ both.end = [right.end EXCEPT ![former] = right.end[b], ![b] = 0]
          /\ both.size = [right.size EXCEPT
                            ![former] = right.end[b] - right.begin[former], ![b] = 0]
          /\ former # b
      <4>1. HeapInv(right) /\ b \in Free(right)
        BY <1>8
      <4> QED
        BY ONLY <3>1, <3>2, <3>3, <4>1, MergeKeeps, SMTT(30)
    <3>5. /\ right \in Heaps /\ right.st \in [Pool -> States] /\ right.begin \in [Pool -> Addr]
          /\ right.end \in [Pool -> Addr] /\ right.size \in [Pool -> Units]
      BY <1>8, HeapFields DEF HeapInv
    <3>6. former \in Pool /\ right.st[b] = "UNALLOCATED" /\ right.st[former] = "UNALLOCATED"
      BY <1>8, <3>3 DEF Free
    <3>7. \A i \in Pool : /\ i \in Free(both) <=> i \in Free(right) /\ i # b
                          /\ i \in Allocated(both) <=> i \in Allocated(right)
      BY <1>2, <3>4, <3>5, <3>6 DEF Free, Allocated
    <3>8. /\ \A i \in Pool : i # b => both.begin[i] = right.begin[i]
          /\ \A i \in Pool : i # former /\ i # b =>
               both.end[i] = right.end[i] /\ both.size[i] = right.size[i]
          /\ both.end[former] = right.end[b]
      BY <1>2, <3>4, <3>5, <3>6
    <3>9. SameLive(g, both, b)
      <4>1. \A i \in Allocated(both) : i \in Pool /\ i \in Allocated(right) /\ i # b /\ i # former
        BY <3>6, <3>7 DEF Allocated
      <4> QED
        BY <1>8, <3>7, <3>8, <4>1 DEF SameLive
    <3>10. Apart(both)
      <4> SUFFICES ASSUME NEW i \in Free(both), NEW j \in Free(both),
                          both.end[i] = both.begin[j]
                   PROVE  FALSE
        BY DEF Apart
      <4>1. /\ i \in Pool /\ j \in Pool /\ i \in Free(right) /\ j \in Free(right)
            /\ i # b /\ j # b /\ both.begin[j] = right.begin[j]
        BY <3>7, <3>8 DEF Free
      <4>2. CASE i = former
        <5>1. right.end[b] = right.begin[j]
          BY <3>8, <4>1, <4>2
        <5> QED
          BY <1>8, <4>1, <5>1
      <4>3. CASE i # former
        <5>1. right.end[i] = right.begin[j]
          BY <3>8, <4>1, <4>3
        <5> QED
          BY <1>8, <4>1, <5>1
      <4> QED
        BY <4>2, <4>3
    <3> QED
      BY <3>4, <3>9, <3>10
  <2> QED
    BY <2>1, <2>2
<1> HIDE DEF both
<1>10. free_check(both) = both
  BY <1>9, CheckHolds DEF HeapInv
<1> QED
  BY <1>1, <1>9, <1>10
(***************************************************************************)
(* The interface.                                                          *)
(***************************************************************************)
\* The rounded request, when there is one, is at least what is asked for.
LEMMA NewszFits ==
  ASSUME NEW size \in Units, size # 0, Fitting(size) # {}
  PROVE  newsz(size) \in Nat /\ newsz(size) > 0 /\ newsz(size) >= size
<1> DEFINE F == Fitting(size)
<1>1. size \in Int /\ size > 0
  BY AddrFacts
<1>2. \A n \in F : n \in Int /\ n >= size
  <2>1. \A k \in 0 .. WIDTH - 1 : 2 ^ k \in Int
    BY PmmConstants
  <2> QED
    BY <2>1 DEF Fitting, Powers
<1>3. \A n \in F : n \in Nat /\ n > 0
  BY <1>1, <1>2
<1>4. F \in SUBSET Nat /\ F # {}
  BY <1>3
<1> HIDE DEF F
<1>5. \E m \in F : \A k \in F : m <= k
  BY <1>4, LeastNatural
<1>6. Min(F) \in F
  BY <1>5 DEF Min
<1>7. newsz(size) = Min(F)
  BY DEF newsz, F
<1> QED
  BY <1>2, <1>3, <1>6, <1>7

\* The first fit is a free block that is large enough, or there is none.
LEMMA FirstFitListed ==
  ASSUME NEW g, HeapInv(g), NEW sz, FirstFit(g, sz) # TAIL
  PROVE  FirstFit(g, sz) \in Free(g) /\ g.size[FirstFit(g, sz)] >= sz
<1> DEFINE n == g.list_size
           v == Listing(g)
           w == Walk(g)
           K == {k \in 1 .. POOL_SIZE + 1 : w[k] = TAIL \/ g.size[w[k]] >= sz}
           m == Min(K)
<1>1. g \in Heaps /\ Lists(g, v)
  BY DEF HeapInv
<1>2. IsChain(g.next, g.prev, v, n)
  BY <1>1 DEF Lists
<1>3. FirstFit(g, sz) = w[m]
  BY DEF FirstFit
<1>4. \A k \in 1 .. n : v[k] \in Free(g)
  <2> HIDE DEF v
  <2> QED
    BY <1>1, ListFacts
<1> HIDE DEF v, w, n
<1>5. /\ \A k \in 0 .. n + 1 : Walk(g)[k] = v[k]
      /\ \A k \in 0 .. POOL_SIZE + 1 : k > n => Walk(g)[k] = TAIL
      /\ n \in Nat /\ n <= POOL_SIZE /\ POOL_SIZE \in Nat
  <2>1. /\ \A k \in 0 .. n + 1 : Walk(g)[k] = v[k]
        /\ \A k \in 0 .. POOL_SIZE + 1 : k > n => Walk(g)[k] = TAIL
    BY <1>2, WalkIsChain, Zenon
  <2>2. n \in Nat /\ n <= POOL_SIZE
    BY <1>2, ChainShort
  <2> QED
    BY <2>1, <2>2, NodeFacts
<1>6. m \in K
  <2>1. n + 1 \in K
    <3>1. n + 1 \in 1 .. POOL_SIZE + 1 /\ n + 1 \in 0 .. POOL_SIZE + 1 /\ n + 1 > n
      BY <1>5
    <3> QED
      BY <1>5, <3>1 DEF w
  <2>2. K \in SUBSET Nat
    BY <1>5
  <2> HIDE DEF K
  <2>3. \E x \in K : \A y \in K : x <= y
    BY <2>1, <2>2, LeastNatural
  <2> QED
    BY <2>3 DEF Min
<1>7. m \in 1 .. POOL_SIZE + 1 /\ w[m] # TAIL /\ g.size[w[m]] >= sz
  BY <1>3, <1>6
<1> HIDE DEF m, K
<1>8. m \in 1 .. n
  <2>1. m \in 0 .. POOL_SIZE + 1
    BY <1>7
  <2>2. ~ (m > n)
    BY <1>5, <1>7, <2>1 DEF w
  <2> QED
    BY <1>5, <1>7, <2>2
<1>9. w[m] = v[m]
  <2>1. m \in 0 .. n + 1
    BY <1>5, <1>8
  <2> QED
    BY <1>5, <2>1 DEF w
<1> QED
  BY <1>3, <1>4, <1>7, <1>8, <1>9

\* Taking a block for sz kilobytes from the heap.
Taken(g, b, sz) == free_delete(IF MustCut(g, b, sz) THEN free_cut(g, b, sz) ELSE g, b)

\* A block in use is as large as the heap at most.
LEMMA BlockSmall ==
  ASSUME NEW g, HeapInv(g), NEW i \in InUse(g)
  PROVE  /\ g.size[i] \in Nat /\ 2 * g.size[i] < WORD /\ i \in Pool
         /\ g.begin[i] \in Int /\ g.end[i] \in Int
         /\ g.end[i] = g.begin[i] + g.size[i] /\ g.size[i] > 0
<1>1. g \in Heaps /\ Tiles(g)
  BY DEF HeapInv
<1>2. i \in Pool /\ g.begin[i] \in Int /\ g.end[i] \in Int /\ g.size[i] \in Nat
  BY <1>1, BlockFacts
<1>3. /\ g.size[i] = g.end[i] - g.begin[i] /\ PmStart <= g.begin[i] /\ g.end[i] <= PmEnd
      /\ g.size[i] > 0
  BY <1>1 DEF Tiles
<1> QED
  BY <1>2, <1>3, AddrFacts

\* The blocks that c hands out are those of g, unmoved, and b, which was free.
OneMoreLive(g, c, b) ==
  /\ b \in Free(g)
  /\ \A i \in Pool : i \in Allocated(c) <=> i \in Allocated(g) \/ i = b
  /\ \A i \in Allocated(g) : /\ c.begin[i] = g.begin[i] /\ c.end[i] = g.end[i]
                             /\ c.size[i] = g.size[i]

\* Allocating a block.
LEMMA TakeKeeps ==
  ASSUME NEW g, HeapInv(g), Apart(g), NEW sz \in Nat, sz > 0, NEW b \in Free(g),
         g.size[b] >= sz, MustCut(g, b, sz) => Unused(g) # {}
  PROVE  /\ HeapInv(Taken(g, b, sz)) /\ Apart(Taken(g, b, sz))
         /\ OneMoreLive(g, Taken(g, b, sz), b)
<1> DEFINE c == Taken(g, b, sz)
<1>1. g \in Heaps /\ Tiles(g)
  BY DEF HeapInv
<1>2. b \in InUse(g) /\ b \in Pool /\ g.st[b] = "UNALLOCATED"
  BY DEF InUse, Free
<1>3. g.st \in [Pool -> States] /\ \A i \in Free(g) : i \in InUse(g)
  BY <1>1, HeapFields DEF InUse
<1>4. CASE ~ MustCut(g, b, sz)
  <2>1. c = free_delete(g, b)
    BY <1>4 DEF Taken
  <2> HIDE DEF c
  <2>2. /\ HeapInv(c) /\ c.st = [g.st EXCEPT ![b] = "ALLOCATED"]
        /\ c.begin = g.begin /\ c.end = g.end /\ c.size = g.size
    BY <2>1, DeleteKeeps
  <2>3. \A i \in Free(c) : i \in Free(g)
    BY <1>2, <1>3, <2>2 DEF Free
  <2>4. Apart(c)
    BY <2>2, <2>3 DEF Apart
  <2>5. \A i \in Pool : i \in Allocated(c) <=> i \in Allocated(g) \/ i = b
    BY <1>2, <1>3, <2>2 DEF Allocated
  <2>6. OneMoreLive(g, c, b)
    BY <2>2, <2>5 DEF OneMoreLive
  <2> QED
    BY <2>2, <2>4, <2>6 DEF c
<1>5. CASE MustCut(g, b, sz)
  <2> DEFINE e == free_cut(g, b, sz)
  <2>1. /\ g.size[b] \in Nat /\ 2 * g.size[b] < WORD /\ WORD \in Int
        /\ g.begin[b] \in Int /\ g.end[b] \in Int /\ g.end[b] = g.begin[b] + g.size[b]
    BY <1>2, BlockSmall, AddrFacts
  <2>2. (2 * sz) % WORD = 2 * sz
    <3>1. WORD \in Nat \ {0} /\ 2 * sz \in 0 .. WORD - 1
      BY <2>1
    <3> QED
      BY <3>1, ModSmall
  <2>3. g.size[b] >= 2 * sz
    BY <1>5, <2>2 DEF MustCut
  <2>4. 0 < sz /\ sz < g.size[b]
    BY <2>1, <2>3
  <2>15. HeapInv(e) /\ \E x \in Unused(g) : IsCut(g, b, sz, x, e)
    BY <1>5, <2>4, CutKeeps
  <2>5. PICK x \in Unused(g) :
          /\ e.st = [g.st EXCEPT ![x] = "UNALLOCATED"]
          /\ e.begin = [g.begin EXCEPT ![x] = g.begin[b] + sz]
          /\ e.end = [g.end EXCEPT ![x] = g.end[b], ![b] = g.begin[b] + sz]
          /\ e.size = [g.size EXCEPT ![x] = g.size[b] - sz, ![b] = sz]
    BY <2>15 DEF IsCut
  <2>6. c = free_delete(e, b)
    BY <1>5 DEF Taken
  <2> HIDE DEF c, e
  <2>7. x \in Pool /\ g.st[x] = "UNUSED" /\ x # b
    BY <1>2 DEF Unused
  <2>8. b \in Free(e)
    BY <1>2, <1>3, <2>5, <2>7 DEF Free
  <2>9. /\ HeapInv(c) /\ c.st = [e.st EXCEPT ![b] = "ALLOCATED"]
        /\ c.begin = e.begin /\ c.end = e.end /\ c.size = e.size
    BY <2>6, <2>8, <2>15, DeleteKeeps
  <2>10. \A i \in Pool : /\ i \in Free(c) <=> (i \in Free(g) /\ i # b) \/ i = x
                         /\ i \in Allocated(c) <=> i \in Allocated(g) \/ i = b
    BY <1>2, <1>3, <2>5, <2>7, <2>9 DEF Free, Allocated
  <2>11. g.begin \in [Pool -> Addr] /\ g.end \in [Pool -> Addr] /\ g.size \in [Pool -> Units]
    BY <1>1, HeapFields
  <2>12. /\ \A i \in Pool : i # x => c.begin[i] = g.begin[i]
         /\ \A i \in Pool : i # x /\ i # b => c.end[i] = g.end[i] /\ c.size[i] = g.size[i]
         /\ c.begin[x] = g.begin[b] + sz /\ c.end[x] = g.end[b]
    BY <1>2, <2>5, <2>7, <2>9, <2>11
  <2>13. OneMoreLive(g, c, b)
    <3>1. \A i \in Allocated(g) : i \in Pool /\ i # b /\ i # x
      BY <1>2, <2>7 DEF Allocated
    <3> QED
      BY <2>10, <2>12, <3>1 DEF OneMoreLive
  <2>14. Apart(c)
    <3> SUFFICES ASSUME NEW i \in Free(c), NEW j \in Free(c), c.end[i] = c.begin[j]
                 PROVE  FALSE
      BY DEF Apart
    <3>1. i \in Pool /\ j \in Pool
      BY DEF Free
    <3>2. CASE i = x
      <4>1. CASE j = x
        BY <2>1, <2>4, <2>12, <3>2, <4>1
      <4>2. CASE j # x
        <5>1. j \in Free(g) /\ g.end[b] = g.begin[j]
          BY <2>10, <2>12, <3>1, <3>2, <4>2
        <5> QED
          BY <5>1 DEF Apart
      <4> QED
        BY <4>1, <4>2
    <3>3. CASE i # x
      <4>1. i \in Free(g) /\ i # b /\ c.end[i] = g.end[i] /\ i \in InUse(g)
        BY <1>3, <2>10, <2>12, <3>1, <3>3
      <4>2. CASE j # x
        <5>1. j \in Free(g) /\ g.end[i] = g.begin[j]
          BY <2>10, <2>12, <3>1, <4>1, <4>2
        <5> QED
          BY <4>1, <5>1 DEF Apart
      <4>3. CASE j = x
        <5>1. g.end[i] = g.begin[b] + sz
          BY <2>12, <4>1, <4>3
        <5>2. g.end[i] <= g.begin[b] \/ g.end[b] <= g.begin[i]
          BY <1>1, <1>2, <4>1 DEF Tiles
        <5>3. /\ g.begin[i] \in Int /\ g.end[i] \in Int /\ g.size[i] \in Nat
              /\ g.end[i] = g.begin[i] + g.size[i]
          BY <4>1, BlockSmall
        <5> QED
          BY <2>1, <2>4, <5>1, <5>2, <5>3
      <4> QED
        BY <4>2, <4>3
    <3> QED
      BY <3>2, <3>3
  <2> QED
    BY <2>9, <2>13, <2>14 DEF c
<1> QED
  BY <1>4, <1>5

\* The memory handed out, as a sum over the blocks.
LEMMA MemIsSum ==
  ASSUME NEW g \in Heaps
  PROVE  MapThenSumSet(LAMBDA i : g.size[i], Allocated(g)) = SumOver(g.size, Allocated(g))
<1> DEFINE S == Allocated(g)
           f == g.size
           Is(t) == t = [s \in SUBSET S |->
                           IF s = {} THEN 0
                           ELSE f[CHOOSE x \in s : TRUE] + t[s \ {CHOOSE x \in s : TRUE}]]
           G == CHOOSE t : Is(t)
<1>1. IsFiniteSet(S)
  BY BlockFacts, FS_Subset
<1>2. MapThenSumSet(LAMBDA i : g.size[i], S) = G[S]
  BY DEF MapThenSumSet, MapThenFoldSet
<1>3. \A t : Is(t) <=> IsSum(t, f, S)
  BY DEF IsSum, Pick
<1>4. \E t : IsSum(t, f, S)
  BY <1>1, SumExists
<1>5. Is(G)
  <2>1. PICK t : IsSum(t, f, S)
    BY <1>4
  <2> HIDE DEF Is
  <2>2. Is(t)
    BY <1>3, <2>1
  <2> QED
    BY <2>2
<1>6. IsSum(G, f, S)
  BY <1>3, <1>5
<1> HIDE DEF S, f, G
<1>7. SumOver(f, S) = G[S]
  BY <1>1, <1>6, SumIs
<1> QED
  BY <1>2, <1>7 DEF S, f
\* mem_used as a sum, before and after a step.
LEMMA MemForm ==
  /\ h \in Heaps => (MemUsedExact <=> mem_used = SumOver(h.size, Allocated(h)))
  /\ h' \in Heaps => (MemUsedExact' <=> mem_used' = SumOver(h'.size, Allocated(h')))
<1> DEFINE MemSum(g) == MapThenSumSet(LAMBDA i : g.size[i], Allocated(g))
<1>1. \A g \in Heaps : MemSum(g) = SumOver(g.size, Allocated(g))
  BY MemIsSum
<1>2. MemUsedExact <=> mem_used = MemSum(h)
  BY DEF MemUsedExact
<1>3. MemUsedExact' <=> mem_used' = MemSum(h')
  BY DEF MemUsedExact, MapThenSumSet, MapThenFoldSet
<1> HIDE DEF MemSum
<1> QED
  BY <1>1, <1>2, <1>3

\* What pmm_init leaves is in order.
LEMMA InitHeap == HeapInv(free_init) /\ Apart(free_init) /\ Allocated(free_init) = {}
<1> DEFINE g == free_init
           v == [k \in 0 .. 2 |-> IF k = 0 THEN HEAD ELSE IF k = 1 THEN 0 ELSE TAIL]
<1>1. /\ g.st = [i \in Pool |-> IF i = 0 THEN "UNALLOCATED" ELSE "UNUSED"]
      /\ g.begin = [i \in Pool |-> IF i = 0 THEN PmStart ELSE 0]
      /\ g.end = [i \in Pool |-> IF i = 0 THEN PmEnd ELSE 0]
      /\ g.size = [i \in Pool |-> IF i = 0 THEN PmEnd - PmStart ELSE 0]
      /\ g.list_size = 1 /\ g.ok = TRUE
      /\ g.prev = [i \in Nodes |-> CASE i = 0 -> HEAD [] i = TAIL -> 0 [] OTHER -> NULL]
      /\ g.next = [i \in Nodes |-> CASE i = 0 -> TAIL [] i = HEAD -> 0 [] OTHER -> NULL]
  BY DEF free_init
<1>2. /\ 0 \in Nodes /\ 0 # HEAD /\ 0 # TAIL
      /\ g.prev[0] = HEAD /\ g.prev[TAIL] = 0 /\ g.next[0] = TAIL /\ g.next[HEAD] = 0
      /\ g.prev[HEAD] = NULL /\ g.next[TAIL] = NULL
      /\ \A i \in Pool : i # 0 => g.prev[i] = NULL /\ g.next[i] = NULL
  <2>1. 0 \in Nodes /\ 0 # HEAD /\ 0 # TAIL /\ HEAD # TAIL
    BY NodeFacts
  <2> QED
    BY <1>1, <2>1, NodeFacts
<1>3. g \in Heaps
  <2>1. /\ PmStart \in Addr /\ PmEnd \in Addr /\ 0 \in Addr
        /\ PmEnd - PmStart \in Units /\ 0 \in Units
    BY AddrFacts
  <2>2. /\ [i \in Pool |-> IF i = 0 THEN "UNALLOCATED" ELSE "UNUSED"] \in [Pool -> States]
        /\ [i \in Pool |-> IF i = 0 THEN PmStart ELSE 0] \in [Pool -> Addr]
        /\ [i \in Pool |-> IF i = 0 THEN PmEnd ELSE 0] \in [Pool -> Addr]
        /\ [i \in Pool |-> IF i = 0 THEN PmEnd - PmStart ELSE 0] \in [Pool -> Units]
    BY <2>1 DEF States
  <2>3. /\ [i \in Nodes |-> CASE i = 0 -> HEAD [] i = TAIL -> 0 [] OTHER -> NULL]
             \in [Nodes -> Nodes \cup {NULL}]
        /\ [i \in Nodes |-> CASE i = 0 -> TAIL [] i = HEAD -> 0 [] OTHER -> NULL]
             \in [Nodes -> Nodes \cup {NULL}]
    BY <1>2, NodeFacts
  <2> QED
    BY <2>2, <2>3 DEF free_init, Heaps
<1> HIDE DEF g
<1>4. /\ \A i \in Pool : i \in Free(g) <=> i = 0
      /\ \A i \in Pool : i \in Unused(g) <=> i # 0
      /\ Allocated(g) = {} /\ 0 \in Pool
  BY <1>1, NodeFacts DEF Free, Unused, Allocated
<1>5. Free(g) = {0} /\ InUse(g) = {0}
  BY <1>4 DEF Free, InUse
<1>6. /\ g.begin[0] = PmStart /\ g.end[0] = PmEnd /\ g.size[0] = PmEnd - PmStart
      /\ \A i \in Pool : i # 0 => g.begin[i] = 0 /\ g.end[i] = 0 /\ g.size[i] = 0
  BY <1>1, <1>4
<1>7. Lists(g, v)
  <2>1. v[0] = HEAD /\ v[1] = 0 /\ v[2] = TAIL /\ v \in [0 .. 2 -> Nodes]
    BY <1>2, NodeFacts
  <2> HIDE DEF v
  <2>2. /\ \A k \in 1 .. 1 : v[k] \in Pool
        /\ \A j, k \in 0 .. 2 : v[j] = v[k] => j = k
        /\ \A k \in 0 .. 1 : g.next[v[k]] = v[k + 1] /\ g.prev[v[k + 1]] = v[k]
    <3>1. \A k \in 0 .. 2 : k = 0 \/ k = 1 \/ k = 2
      OBVIOUS
    <3>2. \A k \in 0 .. 1 : k = 0 \/ k = 1
      OBVIOUS
    <3>3. 0 + 1 = 1 /\ 1 + 1 = 2 /\ \A k \in 1 .. 1 : k = 1
      OBVIOUS
    <3> QED
      BY <1>2, <1>4, <2>1, <3>1, <3>2, <3>3, NodeFacts
  <2>3. IsChain(g.next, g.prev, v, 1)
    BY <2>1, <2>2 DEF IsChain
  <2> QED
    BY <1>1, <1>4, <2>1, <2>3 DEF Lists
<1>8. Lists(g, Listing(g))
  BY <1>3, <1>7, OneListing
<1>9. Tiles(g)
  BY <1>5, <1>6, AddrFacts DEF Tiles
<1>10. Tidy(g)
  <2>1. \A i \in Unused(g) : i \in Pool /\ i # 0
    BY <1>4 DEF Unused
  <2> QED
    BY <1>2, <1>5, <1>6, <2>1 DEF Tidy
<1>11. Total(g)
  <2> DEFINE f == g.size
  <2>1. IsFiniteSet({}) /\ 0 \notin {} /\ {} \cup {0} = {0}
    BY FS_EmptySet
  <2>2. f[0] = PmEnd - PmStart /\ PmEnd - PmStart \in Int
    BY <1>6, AddrFacts
  <2> HIDE DEF f
  <2>3. \A y \in {} \cup {0} : f[y] \in Int
    BY <2>2
  <2>4. SumOver(f, {} \cup {0}) = f[0] + SumOver(f, {})
    BY <2>1, <2>3, SumAdd
  <2>5. SumOver(f, {}) = 0
    BY SumEmpty
  <2>6. SumOver(f, {0}) = PmEnd - PmStart
    BY <2>1, <2>2, <2>4, <2>5
  <2> QED
    BY <1>5, <2>6 DEF Total, f
<1>12. Apart(g)
  BY <1>5, <1>6, AddrFacts DEF Apart
<1> QED
  BY <1>3, <1>4, <1>8, <1>9, <1>10, <1>11, <1>12 DEF HeapInv, g

\* The first state.
LEMMA PmmInit == Init => PInv
<1> SUFFICES ASSUME Init PROVE PInv
  OBVIOUS
<1>1. HeapInv(h) /\ Apart(h) /\ Allocated(h) = {} /\ mem_used = 0 /\ status = "up"
  BY InitHeap DEF Init
<1>2. h \in Heaps
  BY <1>1 DEF HeapInv
<1>3. SumOver(h.size, Allocated(h)) = 0
  BY <1>1, SumEmpty
<1>4. MemUsedExact
  BY <1>1, <1>2, <1>3, MemForm
<1> QED
  BY <1>1, <1>4 DEF PInv

\* A kalloc keeps everything, and moves no block that is handed out.
LEMMA AllocStep ==
  ASSUME PInv, NEW size \in Units, kalloc(size)
  PROVE  /\ PInv'
         /\ \A i \in Allocated(h) : /\ h'.st[i] = "ALLOCATED" /\ h'.begin[i] = h.begin[i]
                                    /\ h'.end[i] = h.end[i]
<1>1. HeapInv(h) /\ Apart(h) /\ MemUsedExact /\ h \in Heaps
  BY DEF PInv, HeapInv
<1>2. ASSUME h' = h, mem_used' = mem_used,
             status' \in {"up", "hang", "oom", "pool", "badfree"}
      PROVE  /\ PInv'
             /\ \A i \in Allocated(h) : /\ h'.st[i] = "ALLOCATED"
                                        /\ h'.begin[i] = h.begin[i] /\ h'.end[i] = h.end[i]
  <2>1. HeapInv(h)' /\ Apart(h)'
    BY <1>1, <1>2
  <2>2. MemUsedExact'
    BY <1>1, <1>2, MemForm
  <2> QED
    BY <1>2, <2>1, <2>2 DEF PInv, Allocated
<1> DEFINE sz == newsz(size)
           b == FirstFit(h, sz)
           g == Taken(h, b, sz)
<1>3. CASE Fitting(size) = {} \/ b = TAIL \/ (MustCut(h, b, sz) /\ Unused(h) = {})
  <2>1. /\ h' = h /\ mem_used' = mem_used
        /\ status' \in {"hang", "oom", "pool"}
    BY <1>3 DEF kalloc, Down
  <2> QED
    BY <1>2, <2>1
<1>4. CASE Fitting(size) # {} /\ b # TAIL /\ (MustCut(h, b, sz) => Unused(h) # {})
  <2>1. /\ h' = free_check(g) /\ mem_used' = mem_used + g.size[b]
        /\ status' = (IF h'.ok THEN "up" ELSE "corrupt")
    BY <1>4 DEF kalloc, Taken, TraceAlloc
  <2>2. size # 0
    BY DEF kalloc
  <2>3. sz \in Nat /\ sz > 0
    BY <1>4, <2>2, NewszFits
  <2> HIDE DEF sz
  <2>4. b \in Free(h) /\ h.size[b] >= sz
    BY <1>1, <1>4, FirstFitListed
  <2> HIDE DEF b
  <2>5. HeapInv(g) /\ Apart(g) /\ OneMoreLive(h, g, b)
    BY <1>1, <1>4, <2>3, <2>4, TakeKeeps
  <2> HIDE DEF g
  <2>6. g \in Heaps /\ Lists(g, Listing(g)) /\ g.ok = TRUE
    BY <2>5, HeapFields DEF HeapInv
  <2>7. h' = g
    BY <2>1, <2>6, CheckHolds
  <2>8. status' = "up"
    BY <2>1, <2>6, <2>7
  <2>9. mem_used' = SumOver(g.size, Allocated(g))
    <3> DEFINE S == Allocated(h)
               f == h.size
               e == g.size
    <3>1. mem_used = SumOver(f, S)
      BY <1>1, MemForm
    <3>2. /\ b \in Pool /\ b \notin S
          /\ \A i \in Pool : i \in Allocated(g) <=> i \in S \/ i = b
          /\ \A i \in S : i \in Pool /\ e[i] = f[i]
      BY <2>5 DEF OneMoreLive, Free, Allocated
    <3>3. IsFiniteSet(S) /\ \A i \in Pool : e[i] \in Int /\ f[i] \in Int
      BY <1>1, <2>6, BlockFacts, FS_Subset
    <3>4. Allocated(g) = S \cup {b}
      BY <3>2 DEF Allocated
    <3> HIDE DEF S, f, e
    <3>5. SumOver(e, S) = SumOver(f, S)
      BY <3>2, <3>3, SumSame
    <3>6. \A y \in S \cup {b} : e[y] \in Int
      BY <3>2, <3>3
    <3>7. SumOver(e, S \cup {b}) = e[b] + SumOver(e, S) /\ SumOver(e, S) \in Int
      BY <3>2, <3>3, <3>6, SumAdd
    <3>8. mem_used' = mem_used + e[b] /\ e[b] \in Int
      BY <2>1, <3>2, <3>3 DEF e
    <3>9. mem_used' = SumOver(e, S \cup {b})
      BY <3>1, <3>5, <3>7, <3>8
    <3> QED
      BY <3>4, <3>9 DEF e
  <2>10. MemUsedExact'
    BY <2>6, <2>7, <2>9, MemForm
  <2>11. HeapInv(h)' /\ Apart(h)'
    BY <2>5, <2>7
  <2>12. PInv'
    BY <2>8, <2>10, <2>11 DEF PInv
  <2>13. \A i \in Allocated(h) : /\ g.st[i] = "ALLOCATED" /\ g.begin[i] = h.begin[i]
                                 /\ g.end[i] = h.end[i]
    BY <2>5 DEF OneMoreLive, Allocated
  <2> QED
    BY <2>7, <2>12, <2>13
<1> QED
  BY <1>3, <1>4

\* A kfree keeps everything, and moves no other block that is handed out.
LEMMA FreeStep ==
  ASSUME PInv, NEW ptr \in Addr, kfree(ptr)
  PROVE  /\ PInv'
         /\ \A i \in Allocated(h) :
              \/ h'.st[i] = "ALLOCATED" /\ h'.begin[i] = h.begin[i] /\ h'.end[i] = h.end[i]
              \/ h.begin[i] = ptr
<1>1. HeapInv(h) /\ Apart(h) /\ MemUsedExact /\ h \in Heaps
  BY DEF PInv, HeapInv
<1> DEFINE F == find_allocated_block(ptr)
           b == Min(F)
           g == free_insert(h, b)
<1>2. CASE F = {}
  <2>1. h' = h /\ mem_used' = mem_used /\ status' = "badfree"
    BY <1>2 DEF kfree, Down
  <2>2. HeapInv(h)' /\ Apart(h)'
    BY <1>1, <2>1
  <2>3. MemUsedExact'
    BY <1>1, <2>1, MemForm
  <2> QED
    BY <2>1, <2>2, <2>3 DEF PInv, Allocated
<1>3. CASE F # {}
  <2>1. /\ h' = g /\ mem_used' = mem_used - h.size[b]
        /\ status' = (IF h'.ok THEN "up" ELSE "corrupt")
    BY <1>3 DEF kfree
  <2>2. b \in Allocated(h) /\ h.begin[b] = ptr
    <3>1. F \in SUBSET Nat
      BY NodeFacts DEF find_allocated_block, Allocated, Pool
    <3>2. \A i \in F : i \in Allocated(h) /\ h.begin[i] = ptr
      BY DEF find_allocated_block
    <3> HIDE DEF F
    <3>3. \E m \in F : \A k \in F : m <= k
      BY <1>3, <3>1, LeastNatural
    <3>4. b \in F
      BY <3>3 DEF Min
    <3> QED
      BY <3>2, <3>4
  <2> HIDE DEF b
  <2>3. HeapInv(g) /\ Apart(g) /\ SameLive(h, g, b)
    BY <1>1, <2>2, InsertKeeps
  <2> HIDE DEF g
  <2>4. g \in Heaps /\ g.ok = TRUE /\ status' = "up"
    BY <2>1, <2>3, HeapFields DEF HeapInv
  <2>5. mem_used' = SumOver(g.size, Allocated(g))
    <3> DEFINE S == Allocated(h)
               R == S \ {b}
               f == h.size
               e == g.size
    <3>1. mem_used = SumOver(f, S)
      BY <1>1, MemForm
    <3>2. IsFiniteSet(S) /\ IsFiniteSet(R) /\ S \subseteq Pool
          /\ \A i \in Pool : e[i] \in Int /\ f[i] \in Int
      <4>1. InUse(h) \subseteq Pool /\ S \subseteq InUse(h) /\ R \subseteq InUse(h)
            /\ IsFiniteSet(InUse(h))
        BY <1>1, BlockFacts
      <4>2. \A i \in Pool : e[i] \in Int /\ f[i] \in Int
        BY <1>1, <2>4, BlockFacts
      <4> QED
        BY <4>1, <4>2, FS_Subset
    <3>3. Allocated(g) = R /\ \A i \in R : e[i] = f[i]
      BY <2>3 DEF SameLive, Allocated
    <3>4. f[b] \in Int /\ \A i \in S : f[i] \in Int
      BY <2>2, <3>2
    <3>5. SumOver(f, S) = f[b] + SumOver(f, R) /\ SumOver(f, R) \in Int
      <4> HIDE DEF f
      <4> QED
        BY <2>2, <3>2, <3>4, SumRemove
    <3>6. SumOver(e, R) = SumOver(f, R)
      <4> HIDE DEF R, e, f
      <4> QED
        BY <3>2, <3>3, SumSame
    <3>7. mem_used' = mem_used - f[b]
      BY <2>1
    <3> HIDE DEF S, R, e, f
    <3>8. mem_used' = SumOver(e, R)
      BY <3>1, <3>4, <3>5, <3>6, <3>7
    <3> QED
      BY <3>3, <3>8 DEF e
  <2>6. MemUsedExact'
    BY <2>1, <2>4, <2>5, MemForm
  <2>7. HeapInv(h)' /\ Apart(h)'
    BY <2>1, <2>3
  <2>8. PInv'
    BY <2>4, <2>6, <2>7 DEF PInv
  <2>9. \A i \in Allocated(h) :
          \/ g.st[i] = "ALLOCATED" /\ g.begin[i] = h.begin[i] /\ g.end[i] = h.end[i]
          \/ i = b
    BY <2>3 DEF SameLive, Allocated
  <2> QED
    BY <2>1, <2>2, <2>8, <2>9
<1> QED
  BY <1>2, <1>3

\* The invariant is inductive.
LEMMA PmmStep == PInv /\ [Next]_vars => PInv'
<1> SUFFICES ASSUME PInv, [Next]_vars PROVE PInv'
  OBVIOUS
<1>1. ASSUME NEW size \in Units, kalloc(size) PROVE PInv'
  BY <1>1, AllocStep
<1>2. ASSUME NEW ptr \in Addr, kfree(ptr) PROVE PInv'
  BY <1>2, FreeStep
<1>3. CASE UNCHANGED vars
  <2>1. h' = h /\ mem_used' = mem_used /\ status' = status /\ h \in Heaps
    BY <1>3 DEF vars, PInv, HeapInv
  <2>2. HeapInv(h)' /\ Apart(h)'
    BY <2>1 DEF PInv
  <2>3. MemUsedExact'
    BY <2>1, MemForm DEF PInv
  <2> QED
    BY <2>1, <2>2, <2>3 DEF PInv
<1> QED
  BY <1>1, <1>2, <1>3 DEF Next, Stopped

\* It holds in every state.
LEMMA PmmInvariant == Spec => []PInv
BY PmmInit, PmmStep, PTL DEF Spec
(***************************************************************************)
(* What the invariant says.                                                *)
(***************************************************************************)
\* The memory handed out is less than the address space.
LEMMA MemSmall ==
  ASSUME NEW g, HeapInv(g)
  PROVE  SumOver(g.size, Allocated(g)) \in Units
<1> DEFINE f == g.size
           S == InUse(g)
           R == Allocated(g)
<1>1. g \in Heaps /\ SumOver(f, S) = PmEnd - PmStart
  BY DEF HeapInv, Total
<1>2. IsFiniteSet(S) /\ S \subseteq Pool /\ R \subseteq S /\ \A i \in Pool : f[i] \in Nat
  BY <1>1, BlockFacts
<1>3. /\ IsFiniteSet(R) /\ R \in SUBSET S
      /\ \A i \in S : f[i] \in Nat
      /\ \A i \in R : f[i] \in Nat
  BY <1>2, FS_Subset
<1> HIDE DEF f, S, R
<1>4. SumOver(f, R) \in Nat
  BY <1>3, SumNat
<1>5. SumOver(f, R) <= SumOver(f, S)
  BY <1>2, <1>3, SumPart
<1> QED
  BY <1>1, <1>4, <1>5, AddrFacts DEF f, R

\* Every field of every descriptor stays in its range, and so does mem_used.
THEOREM PmmTypes == Spec => []TypeOK
<1>1. PInv => TypeOK
  <2> SUFFICES ASSUME PInv PROVE TypeOK
    OBVIOUS
  <2>1. HeapInv(h) /\ h \in Heaps /\ Lists(h, Listing(h))
    BY DEF PInv, HeapInv
  <2>2. /\ h.st \in [Pool -> States] /\ h.begin \in [Pool -> Addr]
        /\ h.end \in [Pool -> Addr] /\ h.size \in [Pool -> Units]
        /\ h.prev \in [Nodes -> Nodes \cup {NULL}]
        /\ h.next \in [Nodes -> Nodes \cup {NULL}]
    BY <2>1, HeapFields
  <2>3. h.list_size \in 0 .. POOL_SIZE
    <3>1. IsChain(h.next, h.prev, Listing(h), h.list_size)
      BY <2>1 DEF Lists
    <3> QED
      BY <3>1, ChainShort, NodeFacts
  <2>4. mem_used \in Units
    BY <2>1, MemForm, MemSmall DEF PInv
  <2>5. status \in {"up", "hang", "oom", "pool", "badfree", "corrupt"}
    BY DEF PInv
  <2> QED
    BY <2>2, <2>3, <2>4, <2>5 DEF TypeOK, States
<1> QED
  BY <1>1, PmmInvariant, PTL

\* No assert of alloc.c on the allocator's own structures ever fails, whatever is
\* allocated and freed in whatever order.
THEOREM AssertsHold == Spec => []NeverCorrupt
<1>1. PInv => NeverCorrupt
  BY DEF PInv, NeverCorrupt
<1> QED
  BY <1>1, PmmInvariant, PTL

\* The list that the pointers make is the set of the free blocks, in address order.
THEOREM ListExact == Spec => []ListIsFreeSet
<1>1. PInv => ListIsFreeSet
  <2> SUFFICES ASSUME PInv PROVE ListIsFreeSet
    OBVIOUS
  <2> DEFINE n == h.list_size
             v == Listing(h)
             w == Walk(h)
  <2>1. h \in Heaps /\ Lists(h, v)
    BY DEF PInv, HeapInv
  <2>2. n = h.list_size
    OBVIOUS
  <2> HIDE DEF n, v, w
  <2>3. /\ n \in Nat
        /\ \A k \in 1 .. n : v[k] \in Pool /\ v[k] \in Free(h)
        /\ \A j, k \in 0 .. n + 1 : v[j] = v[k] => j = k
        /\ \A i \in Free(h) : i \in Pool /\ \E k \in 1 .. n : v[k] = i
        /\ \A j, k \in 1 .. n : j < k => h.begin[v[j]] < h.begin[v[k]]
    BY <2>1, <2>2, ListFacts
  <2>4. \A k \in 1 .. n : k \in 0 .. n + 1
    BY <2>3
  <2>5. \A k \in 1 .. n : w[k] = v[k]
    <3>1. IsChain(h.next, h.prev, v, n)
      BY <2>1, <2>2 DEF Lists
    <3> QED
      BY <2>4, <3>1, WalkIsChain DEF w
  <2>6. {w[k] : k \in 1 .. n} = Free(h)
    BY <2>3, <2>5
  <2>7. Cardinality(Free(h)) = n
    <3> DEFINE S == Free(h)
    <3>1. /\ \A k \in 1 .. n : v[k] \in S
          /\ \A x \in S : \E k \in 1 .. n : v[k] = x
          /\ \A j, k \in 1 .. n : v[j] = v[k] => j = k
      BY <2>3, <2>4
    <3> HIDE DEF S
    <3>2. Cardinality(S) = n
      BY <2>3, <3>1, CountNodes
    <3> QED
      BY <3>2 DEF S
  <2>8. \A k \in 1 .. n - 1 : h.begin[w[k]] < h.begin[w[k + 1]]
    <3> TAKE k \in 1 .. n - 1
    <3>1. k \in 1 .. n /\ k + 1 \in 1 .. n /\ k < k + 1
      BY <2>3
    <3> QED
      BY <2>3, <2>5, <3>1
  <2> QED
    BY <2>6, <2>7, <2>8 DEF ListIsFreeSet, n, w
<1> QED
  BY <1>1, PmmInvariant, PTL

\* The blocks tile the heap.
THEOREM HeapTiled == Spec => []Tiling
<1>1. PInv => Tiling
  <2> SUFFICES ASSUME PInv PROVE Tiling
    OBVIOUS
  <2>1. h \in Heaps /\ Tiles(h)
    BY DEF PInv, HeapInv
  <2>2. InUse(h) \subseteq Pool /\ \A i \in Pool : h.begin[i] \in Int /\ h.end[i] \in Int
    BY <2>1, BlockFacts
  <2>3. PmStart \in Int /\ PmEnd \in Int
    BY AddrFacts
  <2>4. \A i \in InUse(h) : h.size[i] = h.end[i] - h.begin[i] /\ h.size[i] > 0
    BY <2>1 DEF Tiles
  <2>5. \A i \in InUse(h) : \A a : a \in Span(h, i) <=>
                              a \in Int /\ h.begin[i] <= a /\ a < h.end[i]
    BY <2>2 DEF Span
  <2>6. ASSUME NEW i \in InUse(h), NEW j \in InUse(h), i # j
        PROVE  Span(h, i) \cap Span(h, j) = {}
    <3>1. h.end[i] <= h.begin[j] \/ h.end[j] <= h.begin[i]
      BY <2>1, <2>6 DEF Tiles
    <3>2. ASSUME NEW a, a \in Span(h, i), a \in Span(h, j) PROVE FALSE
      <4>1. a \in Int /\ h.begin[i] <= a /\ a < h.end[i] /\ h.begin[j] <= a /\ a < h.end[j]
        BY <2>5, <3>2
      <4>2. h.begin[i] \in Int /\ h.end[i] \in Int /\ h.begin[j] \in Int /\ h.end[j] \in Int
        BY <2>2
      <4> QED
        BY <3>1, <4>1, <4>2
    <3> QED
      BY <3>2
  <2>7. \A a : a \in UNION {Span(h, i) : i \in InUse(h)} <=> a \in PmStart .. PmEnd - 1
    <3>1. ASSUME NEW a, NEW i \in InUse(h), a \in Span(h, i) PROVE a \in PmStart .. PmEnd - 1
      <4>1. a \in Int /\ h.begin[i] <= a /\ a < h.end[i]
        BY <2>5, <3>1
      <4>2. PmStart <= h.begin[i] /\ h.end[i] <= PmEnd
        BY <2>1 DEF Tiles
      <4>3. h.begin[i] \in Int /\ h.end[i] \in Int
        BY <2>2
      <4> QED
        BY <2>3, <4>1, <4>2, <4>3
    <3>2. ASSUME NEW a \in PmStart .. PmEnd - 1 PROVE \E i \in InUse(h) : a \in Span(h, i)
      <4>1. PICK i \in InUse(h) : h.begin[i] <= a /\ a < h.end[i]
        BY <2>1 DEF Tiles
      <4> QED
        BY <2>3, <2>5, <4>1
    <3> QED
      BY <3>1, <3>2
  <2>8. UNION {Span(h, i) : i \in InUse(h)} = PmStart .. PmEnd - 1
    BY <2>7, Zenon
  <2> QED
    BY <2>4, <2>6, <2>8 DEF Tiling
<1> QED
  BY <1>1, PmmInvariant, PTL

\* What /proc/meminfo reports is the memory handed out.
THEOREM MemUsedIsHandedOut == Spec => []MemUsedExact
<1>1. PInv => MemUsedExact
  BY DEF PInv
<1> QED
  BY <1>1, PmmInvariant, PTL

\* A run of free memory is never divided between two blocks: first fit fails only
\* when no run is long enough.
THEOREM NoFreeRunDivided == Spec => []FreeRunIsOneBlock
<1>1. PInv => FreeRunIsOneBlock
  <2> SUFFICES ASSUME PInv, NEW a \in PmStart .. PmEnd, NEW b \in PmStart .. PmEnd, a < b,
                      \A i \in Allocated(h) : Span(h, i) \cap (a .. b - 1) = {}
               PROVE  \E i \in Free(h) : a .. b - 1 \subseteq Span(h, i)
    BY DEF FreeRunIsOneBlock
  <2>1. h \in Heaps /\ Tiles(h) /\ Apart(h) /\ HeapInv(h)
    BY DEF PInv, HeapInv
  <2>2. PmStart \in Int /\ PmEnd \in Int
    BY AddrFacts
  <2>3. ASSUME NEW c \in a .. b - 1
        PROVE  \E i \in Free(h) : h.begin[i] <= c /\ c < h.end[i]
    <3>1. c \in PmStart .. PmEnd - 1
      BY <2>2
    <3>2. PICK i \in InUse(h) : h.begin[i] <= c /\ c < h.end[i]
      BY <2>1, <3>1 DEF Tiles
    <3>3. c \in Span(h, i)
      <4>1. h.begin[i] \in Int /\ h.end[i] \in Int
        BY <2>1, BlockSmall
      <4> QED
        BY <2>2, <3>2, <4>1 DEF Span
    <3>4. i \notin Allocated(h)
      BY <3>3
    <3> QED
      BY <3>2, <3>4 DEF InUse
  <2>4. a \in a .. b - 1
    BY <2>2
  <2>5. PICK i \in Free(h) : h.begin[i] <= a /\ a < h.end[i]
    BY <2>3, <2>4
  <2>6. h.begin[i] \in Int /\ h.end[i] \in Int /\ h.end[i] = h.begin[i] + h.size[i]
    BY <2>1, BlockSmall DEF InUse
  <2>7. h.end[i] >= b
    <3> SUFFICES ASSUME h.end[i] < b PROVE FALSE
      BY <2>2, <2>6
    <3>1. h.end[i] \in a .. b - 1
      BY <2>2, <2>5, <2>6
    <3>2. PICK j \in Free(h) : h.begin[j] <= h.end[i] /\ h.end[i] < h.end[j]
      BY <2>3, <3>1
    <3>3. h.begin[j] \in Int /\ h.end[j] \in Int
      BY <2>1, BlockSmall DEF InUse
    <3>4. i # j
      BY <2>6, <3>2
    <3>5. h.end[i] <= h.begin[j] \/ h.end[j] <= h.begin[i]
      BY <2>1, <3>4 DEF Tiles, InUse
    <3>6. h.end[i] = h.begin[j]
      BY <2>2, <2>5, <2>6, <3>2, <3>3, <3>5
    <3> QED
      BY <2>1, <3>6 DEF Apart
  <2>8. a .. b - 1 \subseteq Span(h, i)
    BY <2>2, <2>5, <2>6, <2>7 DEF Span
  <2> QED
    BY <2>8
<1> QED
  BY <1>1, PmmInvariant, PTL

\* Once all is freed the allocator is as pmm_init left it.
THEOREM FreedIsInitial == Spec => []BackToInitial
<1>1. PInv => BackToInitial
  <2> SUFFICES ASSUME PInv, Allocated(h) = {} PROVE h = free_init
    BY DEF BackToInitial
  <2>1. /\ h \in Heaps /\ Tiles(h) /\ Apart(h) /\ HeapInv(h) /\ Tidy(h)
        /\ Lists(h, Listing(h))
    BY DEF PInv, HeapInv
  <2>2. InUse(h) = Free(h) /\ Free(h) \subseteq Pool
    BY DEF InUse, Free
  <2>3. 0 \in Free(h) /\ h.begin[0] = PmStart /\ 0 \in Pool
    BY <2>1, <2>2 DEF Tidy
  <2>4. \A i \in Free(h) : /\ h.begin[i] \in Int /\ h.end[i] \in Int /\ h.size[i] > 0
                           /\ h.end[i] = h.begin[i] + h.size[i] /\ h.size[i] \in Nat
                           /\ PmStart <= h.begin[i] /\ h.end[i] <= PmEnd
    BY <2>1, <2>2, BlockSmall DEF Tiles
  <2>5. PmStart \in Int /\ PmEnd \in Int
    BY AddrFacts
  <2>6. h.end[0] = PmEnd
    <3> SUFFICES ASSUME h.end[0] # PmEnd PROVE FALSE
      OBVIOUS
    <3>1. h.end[0] \in PmStart .. PmEnd - 1
      BY <2>3, <2>4, <2>5
    <3>2. PICK j \in Free(h) : h.begin[j] <= h.end[0] /\ h.end[0] < h.end[j]
      BY <2>1, <2>2, <3>1 DEF Tiles
    <3>3. j # 0
      BY <2>3, <2>4, <3>2
    <3>4. h.end[0] <= h.begin[j] \/ h.end[j] <= h.begin[0]
      BY <2>1, <2>2, <2>3, <3>3 DEF Tiles
    <3>5. h.end[0] = h.begin[j]
      BY <2>3, <2>4, <2>5, <3>2, <3>4
    <3> QED
      BY <2>1, <2>3, <3>5 DEF Apart
  <2>7. \A i \in Free(h) : i = 0
    <3> SUFFICES ASSUME NEW i \in Free(h), i # 0 PROVE FALSE
      OBVIOUS
    <3>1. h.end[0] <= h.begin[i] \/ h.end[i] <= h.begin[0]
      BY <2>1, <2>2, <2>3 DEF Tiles
    <3> QED
      BY <2>3, <2>4, <2>5, <2>6, <3>1
  <2>8. \A i \in Pool : i # 0 => i \in Unused(h) /\ i \notin Free(h)
    BY <2>1, <2>2, <2>7, BlockFacts
  <2>9. /\ h.st \in [Pool -> States] /\ h.begin \in [Pool -> Addr]
        /\ h.end \in [Pool -> Addr] /\ h.size \in [Pool -> Units]
        /\ h.prev \in [Nodes -> Nodes \cup {NULL}]
        /\ h.next \in [Nodes -> Nodes \cup {NULL}] /\ h.ok = TRUE
    BY <2>1, HeapFields
  <2>10. h.list_size = 1 /\ h.next[HEAD] = 0 /\ h.prev[0] = HEAD
         /\ h.next[0] = TAIL /\ h.prev[TAIL] = 0
    <3> DEFINE n == h.list_size
               v == Listing(h)
    <3>0. n = h.list_size /\ Lists(h, v)
      BY <2>1
    <3> HIDE DEF n, v
    <3>1. /\ n \in Nat /\ v[0] = HEAD /\ v[n + 1] = TAIL
          /\ \A k \in 1 .. n : v[k] \in Pool /\ v[k] \in Free(h)
          /\ \A j, k \in 0 .. n + 1 : v[j] = v[k] => j = k
          /\ \A k \in 0 .. n : h.next[v[k]] = v[k + 1] /\ h.prev[v[k + 1]] = v[k]
          /\ \A i \in Free(h) : i \in Pool /\ \E k \in 1 .. n : v[k] = i
      BY <2>1, <3>0, ListFacts
    <3>2. PICK k \in 1 .. n : v[k] = 0
      BY <2>3, <3>1
    <3>3. n = 1
      <4> SUFFICES ASSUME n # 1 PROVE FALSE
        OBVIOUS
      <4>1. 1 \in 1 .. n /\ 2 \in 1 .. n /\ 1 \in 0 .. n + 1 /\ 2 \in 0 .. n + 1
        BY <3>1, <3>2
      <4>2. v[1] = 0 /\ v[2] = 0
        BY <2>7, <3>1, <4>1
      <4> QED
        BY <3>1, <4>1, <4>2
    <3>4. v[1] = 0 /\ v[2] = TAIL
      BY <2>7, <3>1, <3>3
    <3>5. 0 \in 0 .. n /\ 1 \in 0 .. n /\ 0 + 1 = 1 /\ 1 + 1 = 2
      BY <3>3
    <3>6. /\ h.next[v[0]] = v[1] /\ h.prev[v[1]] = v[0]
          /\ h.next[v[1]] = v[2] /\ h.prev[v[2]] = v[1]
      BY <3>1, <3>5
    <3> QED
      BY <3>0, <3>1, <3>3, <3>4, <3>6
  <2>11. h.st = [i \in Pool |-> IF i = 0 THEN "UNALLOCATED" ELSE "UNUSED"]
    <3>1. h.st[0] = "UNALLOCATED" /\ \A i \in Pool : i # 0 => h.st[i] = "UNUSED"
      BY <2>3, <2>8 DEF Free, Unused
    <3> QED
      BY <2>9, <3>1
  <2>12. /\ h.begin = [i \in Pool |-> IF i = 0 THEN PmStart ELSE 0]
         /\ h.end = [i \in Pool |-> IF i = 0 THEN PmEnd ELSE 0]
         /\ h.size = [i \in Pool |-> IF i = 0 THEN PmEnd - PmStart ELSE 0]
    <3>1. \A i \in Pool : i # 0 => h.begin[i] = 0 /\ h.end[i] = 0 /\ h.size[i] = 0
      BY <2>1, <2>8 DEF Tidy
    <3>2. h.size[0] = PmEnd - PmStart
      BY <2>3, <2>4, <2>5, <2>6
    <3> QED
      BY <2>3, <2>6, <2>9, <3>1, <3>2
  <2>13. /\ h.prev = [i \in Nodes |-> CASE i = 0 -> HEAD [] i = TAIL -> 0 [] OTHER -> NULL]
         /\ h.next = [i \in Nodes |-> CASE i = 0 -> TAIL [] i = HEAD -> 0 [] OTHER -> NULL]
    <3>1. /\ \A i \in Pool : i # 0 => h.prev[i] = NULL /\ h.next[i] = NULL
          /\ h.prev[HEAD] = NULL /\ h.next[TAIL] = NULL
      BY <2>1, <2>8 DEF Tidy
    <3>2. \A i \in Nodes : i \in Pool \/ i = HEAD \/ i = TAIL
      BY DEF Nodes
    <3>3. 0 # HEAD /\ 0 # TAIL /\ HEAD # TAIL
      BY NodeFacts
    <3>4. \A i \in Nodes :
            /\ h.prev[i] = CASE i = 0 -> HEAD [] i = TAIL -> 0 [] OTHER -> NULL
            /\ h.next[i] = CASE i = 0 -> TAIL [] i = HEAD -> 0 [] OTHER -> NULL
      BY <2>10, <3>1, <3>2, <3>3
    <3> QED
      BY <2>9, <3>4
  <2> QED
    <3> DEFINE a1 == [i \in Pool |-> IF i = 0 THEN "UNALLOCATED" ELSE "UNUSED"]
               a2 == [i \in Pool |-> IF i = 0 THEN PmStart ELSE 0]
               a3 == [i \in Pool |-> IF i = 0 THEN PmEnd ELSE 0]
               a4 == [i \in Pool |-> IF i = 0 THEN PmEnd - PmStart ELSE 0]
               a5 == [i \in Nodes |-> CASE i = 0 -> HEAD [] i = TAIL -> 0 [] OTHER -> NULL]
               a6 == [i \in Nodes |-> CASE i = 0 -> TAIL [] i = HEAD -> 0 [] OTHER -> NULL]
    <3>1. free_init = [st |-> a1, begin |-> a2, end |-> a3, size |-> a4, prev |-> a5,
                       next |-> a6, list_size |-> 1, ok |-> TRUE]
      BY DEF free_init
    <3>2. /\ h.st = a1 /\ h.begin = a2 /\ h.end = a3 /\ h.size = a4 /\ h.prev = a5
          /\ h.next = a6 /\ h.list_size = 1 /\ h.ok = TRUE
      BY <2>9, <2>10, <2>11, <2>12, <2>13
    <3>3. h = [st |-> h.st, begin |-> h.begin, end |-> h.end, size |-> h.size,
               prev |-> h.prev, next |-> h.next, list_size |-> h.list_size, ok |-> h.ok]
      BY <2>1 DEF Heaps
    <3> HIDE DEF a1, a2, a3, a4, a5, a6
    <3> QED
      BY <3>1, <3>2, <3>3
<1> QED
  BY <1>1, PmmInvariant, PTL

\* A block that is handed out stays where it is, as large as it is, until the kfree of
\* its own address.
THEOREM LiveStay == Spec => LiveBlocksStay
<1> DEFINE Stays(i) == \/ h'.st[i] = "ALLOCATED" /\ h'.begin[i] = h.begin[i]
                          /\ h'.end[i] = h.end[i]
                       \/ kfree(h.begin[i])
<1>1. PInv /\ [Next]_vars => [\A i \in Allocated(h) : Stays(i)]_vars
  <2> SUFFICES ASSUME PInv, [Next]_vars, ~ UNCHANGED vars, NEW i \in Allocated(h)
               PROVE  Stays(i)
    OBVIOUS
  <2>1. ASSUME NEW size \in Units, kalloc(size) PROVE Stays(i)
    BY <2>1, AllocStep
  <2>2. ASSUME NEW ptr \in Addr, kfree(ptr) PROVE Stays(i)
    <3>1. \/ h'.st[i] = "ALLOCATED" /\ h'.begin[i] = h.begin[i] /\ h'.end[i] = h.end[i]
          \/ h.begin[i] = ptr
      BY <2>2, FreeStep
    <3> QED
      BY <2>2, <3>1
  <2> QED
    BY <2>1, <2>2 DEF Next, Stopped
<1> QED
  BY <1>1, PmmInvariant, PTL DEF Spec, LiveBlocksStay
=============================================================================
