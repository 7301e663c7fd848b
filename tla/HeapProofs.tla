----------------------------- MODULE HeapProofs -----------------------------
(***************************************************************************)
(* The kernel heap whose first block is never given back, for every size   *)
(* asked for and every amount of memory: its list tiles it, its clients'   *)
(* blocks are backed, in use and left alone, and it keeps the promise of   *)
(* Allocator.                                                              *)
(*                                                                         *)
(* The lemmas speak of the words m of memory, the break hp and a set B of  *)
(* blocks, not of the walk that finds them: a set of blocks that tiles the *)
(* heap is the set the walk finds (BlocksAre).                             *)
(***************************************************************************)
EXTENDS Heap, WellFoundedInduction, TLAPS

Memory == [Base..(Limit - 1) -> Int]
end(m, b) == data(b) + size(m, b)

(* B are the blocks of a list that tiles the heap up to hp.                *)
Tiled(m, hp, B) ==
    /\ m \in Memory /\ hp \in Base..Limit
    /\ B \subseteq Nat /\ Base \in B /\ prev(m, Base) = null
    /\ \A b \in B : b >= Base /\ size(m, b) \in Nat /\ end(m, b) <= hp
    /\ \A b \in B : IF next(m, b) = null THEN end(m, b) = hp
                    ELSE /\ next(m, b) = end(m, b) /\ next(m, b) \in B
                         /\ prev(m, next(m, b)) = b
    /\ \A b \in B \ {Base} : prev(m, b) \in B /\ next(m, prev(m, b)) = b
    /\ \A b, c \in B : b < c => end(m, b) <= c

(* Where the blocks that are not in use lie: the first block is in use, so *)
(* is the last one, and one of any two neighbours.                         *)
Coalesced(m, B) ==
    /\ ~isFree(m, Base)
    /\ \A b \in B : isFree(m, b) =>
          next(m, b) # null /\ ~isFree(m, next(m, b))

(* The blocks R that clients hold.                                         *)
Backed(m, B, R) ==
    \A r \in R : /\ getBlock(r.at) \in B /\ ~isFree(m, getBlock(r.at))
                 /\ r.len <= size(m, getBlock(r.at))

(* Where the search for a block is: at one, or behind the last.            *)
AtBlock(m, B) ==
    req # {} => IF it = null
                THEN last_visited \in B /\ next(m, last_visited) = null
                ELSE it \in B

Unused == /\ head = null /\ heap_ptr = Base /\ last_visited = null /\ it = null
          /\ live = {} /\ lost = {}

(* The heap with the blocks B.                                             *)
InUse(B) == /\ head = Base
            /\ Tiled(mem, heap_ptr, B) /\ Coalesced(mem, B)
            /\ Backed(mem, B, live \cup lost) /\ AtBlock(mem, B)

(* A block is held once.                                                   *)
HeldOnce(R, L) == R \cap L = {} /\ \A r, o \in R \cup L : r.at = o.at => r = o

HInv ==
    /\ HeapTypeOK
    /\ Unused \/ InUse(Blocks)
    /\ req = {} => it = null
    /\ \A n \in req : heap_ptr + HDR + n <= Limit
    /\ HeldOnce(live, lost)
-----------------------------------------------------------------------------
(* A block's header and data lie in memory, below the break.               *)
LEMMA InHeap ==
    ASSUME NEW m, NEW hp, NEW B, Tiled(m, hp, B), NEW b \in B
    PROVE  /\ b \in Nat /\ b >= 1 /\ b # null /\ m[b] \in Nat
           /\ b + 5 + m[b] <= hp /\ end(m, b) = b + 5 + m[b]
           /\ hp \in Nat /\ hp <= Limit /\ Limit \in Nat
           /\ \A a \in b..(b + 4 + m[b]) : a \in Base..(Limit - 1) /\ m[a] \in Int
<1> USE DEF data, size, end, null, Base, HDR, Limit
<1>1. b \in Nat /\ b >= 1 /\ m[b] \in Nat /\ b + 5 + m[b] <= hp
    BY DEF Tiled
<1>2. hp \in Nat /\ hp <= Limit /\ Limit \in Nat
    BY HeapAssumption DEF Tiled
<1>3. \A a \in b..(b + 4 + m[b]) : a \in Base..(Limit - 1)
    BY <1>1, <1>2
<1>4. \A a \in b..(b + 4 + m[b]) : m[a] \in Int
    BY <1>3 DEF Tiled, Memory
<1> QED BY <1>1, <1>2, <1>3, <1>4

LEMMA Placed ==
    ASSUME NEW m, NEW hp, NEW B, Tiled(m, hp, B), NEW b \in B
    PROVE  /\ b \in 0..(Limit - 1) /\ null \in 0..(Limit - 1) /\ b # null
           /\ data(b) \in data(Base)..Limit
<1>1. /\ b \in Nat /\ b >= 1 /\ m[b] \in Nat /\ b + 5 + m[b] <= hp
      /\ hp \in Nat /\ hp <= Limit /\ Limit \in Nat
    BY InHeap
<1> QED BY <1>1 DEF data, Base, null, HDR

(* What lies behind a block, and before one.                               *)
LEMMA Behind ==
    ASSUME NEW m, NEW hp, NEW B, Tiled(m, hp, B), NEW b \in B
    PROVE  /\ m[b + 1] = null => b + 5 + m[b] = hp
           /\ m[b + 1] # null => /\ m[b + 1] = b + 5 + m[b] /\ m[b + 1] \in B
                                 /\ m[m[b + 1] + 2] = b
BY DEF Tiled, next, prev, end, data, size, HDR

LEMMA Before ==
    ASSUME NEW m, NEW hp, NEW B, Tiled(m, hp, B), NEW b \in B, b # Base
    PROVE  /\ m[b + 2] \in B /\ m[m[b + 2] + 1] = b
           /\ b = m[b + 2] + 5 + m[m[b + 2]]
<1>1. m[b + 2] \in B /\ m[m[b + 2] + 1] = b
    BY DEF Tiled, next, prev
<1> QED BY <1>1, Behind, InHeap

(* Blocks do not overlap.                                                  *)
LEMMA Apart ==
    ASSUME NEW m, NEW hp, NEW B, Tiled(m, hp, B), NEW b \in B, NEW c \in B, b # c
    PROVE  b + 5 + m[b] <= c \/ c + 5 + m[c] <= b
<1>1. b < c \/ c < b
    BY InHeap
<1> QED BY <1>1 DEF Tiled, end, data, size, HDR
-----------------------------------------------------------------------------
(* Every non-empty set of naturals has a smallest element.                 *)
LEMMA Smallest ==
    ASSUME NEW T, T \subseteq Nat, T # {}
    PROVE  \E x \in T : \A y \in T : x <= y
<1>1. PICK x \in T : \A y \in T : ~(<<y, x>> \in OpToRel(<, Nat))
    BY NatLessThanWellFounded, WFMin
<1>2. \A y \in T : ~(y < x)
    BY <1>1 DEF OpToRel
<1> QED BY <1>2

LEMMA MostBlocksNat ==
    /\ MostBlocks \in Nat
    /\ \A k \in Nat : HDR * (k + 1) <= HeapWords => k + 1 <= MostBlocks
BY HeapAssumption DEF MostBlocks, HDR

(* The walk along the list is defined.                                     *)
LEMMA Walk ==
    ASSUME mem \in [Base..(Limit - 1) -> Int]
    PROVE  /\ walk = [k \in 0..MostBlocks |-> walk[k]]
           /\ walk[0] = head
           /\ \A k \in 1..MostBlocks :
                 walk[k] = IF walk[k - 1] = null THEN null ELSE next(mem, walk[k - 1])
<1> DEFINE after(b) == IF b = null THEN null ELSE next(mem, b)
           Walks(f, n) == /\ f = [k \in 0..n |-> f[k]]
                          /\ f[0] = head
                          /\ \A k \in 1..n : f[k] = after(f[k - 1])
           T == {n \in Nat : ~ \E f : Walks(f, n)}
<1> HIDE DEF after
<1>1. T = {}
  <2> SUFFICES ASSUME T # {} PROVE FALSE
      OBVIOUS
  <2>1. PICK n \in T : \A i \in T : n <= i
      BY Smallest
  <2>2. n \in Nat /\ ~ \E f : Walks(f, n)
      OBVIOUS
  <2>3. n # 0
    <3> DEFINE f == [k \in 0..0 |-> head]
    <3>1. Walks(f, 0)
        OBVIOUS
    <3> QED BY <2>2, <3>1
  <2>4. n - 1 \in Nat /\ n - 1 \notin T
      BY <2>1, <2>2, <2>3
  <2>5. PICK f : Walks(f, n - 1)
      BY <2>4
  <2> DEFINE g == [k \in 0..n |-> IF k = n THEN after(f[n - 1]) ELSE f[k]]
  <2>6. Walks(g, n)
    <3>1. g = [k \in 0..n |-> g[k]] /\ g[0] = head
        BY <2>2, <2>3, <2>5
    <3>2. ASSUME NEW k \in 1..n PROVE g[k] = after(g[k - 1])
      <4>1. k - 1 \in 0..n /\ k \in 0..n /\ k - 1 # n
          BY <2>2
      <4>2. g[k - 1] = f[k - 1]
          BY <4>1
      <4>3. CASE k = n
          BY <4>1, <4>2, <4>3
      <4>4. CASE k # n
        <5>1. k \in 1..(n - 1)
            BY <2>2, <4>4
        <5>2. f[k] = after(f[k - 1])
            BY <2>5, <5>1
        <5> QED BY <4>1, <4>2, <4>4, <5>2
      <4> QED BY <4>3, <4>4
    <3> QED BY <3>1, <3>2
  <2> QED BY <2>2, <2>6
<1>2. PICK f : Walks(f, MostBlocks)
    BY <1>1, MostBlocksNat
<1> DEFINE P(g) == g = [k \in 0..MostBlocks |->
                          IF k = 0 THEN head
                          ELSE LET b == g[k - 1] IN IF b = null THEN null ELSE next(mem, b)]
<1>3. P(f)
  <2>1. ASSUME NEW k \in 0..MostBlocks
        PROVE  f[k] = IF k = 0 THEN head
                      ELSE LET b == f[k - 1] IN IF b = null THEN null ELSE next(mem, b)
    <3>1. CASE k = 0
        BY <1>2, <3>1
    <3>2. CASE k # 0
      <4>1. k \in 1..MostBlocks
          BY <3>2, MostBlocksNat
      <4> QED BY <1>2, <3>2, <4>1 DEF after
    <3> QED BY <3>1, <3>2
  <2>2. f = [k \in 0..MostBlocks |-> f[k]]
      BY <1>2
  <2> QED BY <2>1, <2>2
<1>4. walk = CHOOSE g : P(g)
    BY DEF walk
<1>5. P(walk)
    BY <1>3, <1>4
<1> HIDE DEF P
<1>6. walk = [k \in 0..MostBlocks |->
                 IF k = 0 THEN head
                 ELSE IF walk[k - 1] = null THEN null ELSE next(mem, walk[k - 1])]
    BY <1>5 DEF P
<1>7. walk = [k \in 0..MostBlocks |-> walk[k]]
    BY <1>6
<1>8. walk[0] = head
    BY <1>6, MostBlocksNat
<1>9. ASSUME NEW k \in 1..MostBlocks
      PROVE  walk[k] = IF walk[k - 1] = null THEN null ELSE next(mem, walk[k - 1])
  <2>1. k \in 0..MostBlocks /\ k # 0
      BY MostBlocksNat
  <2> QED BY <1>6, <2>1
<1> QED BY <1>7, <1>8, <1>9

LEMMA NoBlocks ==
    ASSUME mem \in Memory, head = null
    PROVE  Blocks = {}
<1> DEFINE T == {k \in 0..MostBlocks : walk[k] # null}
<1>1. T = {}
  <2> SUFFICES ASSUME T # {} PROVE FALSE
      OBVIOUS
  <2>1. T \subseteq Nat
      OBVIOUS
  <2>2. PICK k \in T : \A i \in T : k <= i
      BY <2>1, Smallest
  <2>3. k \in 1..MostBlocks
      BY Walk DEF Memory
  <2>4. k - 1 \in 0..MostBlocks /\ k - 1 \notin T
      BY <2>2, <2>3, MostBlocksNat
  <2> QED BY <2>3, <2>4, Walk DEF Memory
<1> QED BY <1>1 DEF Blocks

(* The walk finds every block of a set that tiles the heap, and no other.  *)
LEMMA BlocksAre ==
    ASSUME NEW B, head = Base, Tiled(mem, heap_ptr, B)
    PROVE  Blocks = B
<1>1. /\ walk[0] = head
      /\ \A k \in 1..MostBlocks :
            walk[k] = IF walk[k - 1] = null THEN null ELSE next(mem, walk[k - 1])
    BY Walk DEF Tiled, Memory
<1>2. B \subseteq Nat /\ Base \in B /\ mem \in Memory /\ Base = 1 /\ null = 0 /\ HDR = 5
    BY DEF Tiled, Base, null, HDR
<1>3. \A k \in 0..MostBlocks : walk[k] \in B \cup {null}
  <2> DEFINE T == {k \in 0..MostBlocks : walk[k] \notin B \cup {null}}
  <2> SUFFICES ASSUME T # {} PROVE FALSE
      OBVIOUS
  <2>1. T \subseteq Nat
      OBVIOUS
  <2>2. PICK k \in T : \A i \in T : k <= i
      BY <2>1, Smallest
  <2>3. k \in 1..MostBlocks
      BY <1>1, <1>2
  <2>4. k - 1 \in 0..MostBlocks /\ walk[k - 1] \in B \cup {null}
      BY <2>2, <2>3, MostBlocksNat
  <2>5. walk[k - 1] # null => mem[walk[k - 1] + 1] \in B \cup {null}
      BY <2>4, Behind
  <2> QED BY <1>1, <2>2, <2>3, <2>5 DEF next
<1>4. \A k \in 0..MostBlocks : walk[k] # null => walk[k] >= Base + HDR * k
  <2> DEFINE T == {k \in 0..MostBlocks : walk[k] # null /\ ~(walk[k] >= Base + HDR * k)}
  <2> SUFFICES ASSUME T # {} PROVE FALSE
      OBVIOUS
  <2>1. T \subseteq Nat
      OBVIOUS
  <2>2. PICK k \in T : \A i \in T : k <= i
      BY <2>1, Smallest
  <2>3. k \in 1..MostBlocks
      BY <1>1, <1>2
  <2>4. walk[k] = next(mem, walk[k - 1]) /\ walk[k - 1] # null /\ walk[k] # null
      BY <1>1, <2>2, <2>3
  <2>5. k - 1 \in 0..MostBlocks /\ k - 1 \notin T
      BY <2>2, <2>3, MostBlocksNat
  <2>6. walk[k - 1] \in B /\ walk[k - 1] >= Base + HDR * (k - 1)
      BY <1>3, <2>4, <2>5
  <2>7. walk[k] = walk[k - 1] + 5 + mem[walk[k - 1]]
      BY <2>4, <2>6, Behind DEF next
  <2>8. walk[k - 1] \in Nat /\ mem[walk[k - 1]] \in Nat
      BY <2>6, InHeap
  <2> QED BY <1>2, <2>2, <2>3, <2>6, <2>7, <2>8
<1>5. \A b \in B : \E k \in 0..MostBlocks : walk[k] = b
  <2> DEFINE T == {b \in B : \A k \in 0..MostBlocks : walk[k] # b}
  <2> SUFFICES ASSUME T # {} PROVE FALSE
      OBVIOUS
  <2>1. T \subseteq Nat
      BY <1>2
  <2>2. PICK b \in T : \A c \in T : b <= c
      BY <2>1, Smallest
  <2>3. b \in B \ {Base}
      BY <1>1, MostBlocksNat
  <2> DEFINE p == mem[b + 2]
  <2>4. p \in B /\ mem[p + 1] = b /\ b = p + 5 + mem[p]
      BY <2>3, Before
  <2>5. p \in Nat /\ mem[p] \in Nat /\ p + 5 + mem[p] <= heap_ptr /\ heap_ptr <= Limit
        /\ p < b /\ b \in Nat /\ heap_ptr \in Nat /\ b # null /\ p # null
      BY <2>3, <2>4, InHeap
  <2>6. p \notin T
      BY <2>2, <2>3, <2>5
  <2>7. PICK k \in 0..MostBlocks : walk[k] = p
      BY <2>4, <2>6
  <2>8. p >= Base + HDR * k
      BY <1>4, <2>5, <2>7
  <2>9. HDR * (k + 1) <= HeapWords
      BY <1>2, <2>5, <2>8, HeapAssumption DEF Limit
  <2>10. k + 1 \in 1..MostBlocks /\ (k + 1) - 1 = k
      BY <2>9, MostBlocksNat
  <2>11. walk[k + 1] = b
      BY <1>1, <2>4, <2>5, <2>7, <2>10 DEF next
  <2> QED BY <2>2, <2>10, <2>11
<1>6. null \notin B
    BY InHeap
<1> QED BY <1>3, <1>5, <1>6 DEF Blocks
-----------------------------------------------------------------------------
(* A word that is in no header of B.                                       *)
Outside(B, a) == \A b \in B : a \notin b..(b + 4)

(* Only sizes and links make the tiling.                                   *)
LEMMA SameHeaders ==
    ASSUME NEW m, NEW hp, NEW B, Tiled(m, hp, B), NEW t \in Memory,
           \A b \in B : t[b] = m[b] /\ t[b + 1] = m[b + 1] /\ t[b + 2] = m[b + 2]
    PROVE  Tiled(t, hp, B)
<1> USE DEF size, next, prev, end, data
<1>1. /\ hp \in Base..Limit
      /\ B \subseteq Nat /\ Base \in B /\ prev(t, Base) = null
      /\ \A b \in B : b >= Base /\ size(t, b) \in Nat /\ end(t, b) <= hp
    BY DEF Tiled
<1>2. ASSUME NEW b \in B
      PROVE  IF next(t, b) = null THEN end(t, b) = hp
             ELSE /\ next(t, b) = end(t, b) /\ next(t, b) \in B
                  /\ prev(t, next(t, b)) = b
  <2>1. t[b] = m[b] /\ t[b + 1] = m[b + 1]
      OBVIOUS
  <2>2. CASE m[b + 1] = null
      BY <2>1, <2>2, Behind DEF HDR
  <2>3. CASE m[b + 1] # null
    <3>1. m[b + 1] = b + 5 + m[b] /\ m[b + 1] \in B /\ m[m[b + 1] + 2] = b
        BY <2>3, Behind
    <3>2. t[m[b + 1] + 2] = b
        BY <3>1
    <3> QED BY <2>1, <2>3, <3>1, <3>2 DEF HDR
  <2> QED BY <2>2, <2>3
<1>3. ASSUME NEW b \in B \ {Base} PROVE prev(t, b) \in B /\ next(t, prev(t, b)) = b
    BY Before
<1>4. \A b, c \in B : b < c => end(t, b) <= c
    BY DEF Tiled
<1> QED BY <1>1, <1>2, <1>3, <1>4 DEF Tiled

(* What fusion(k) does when the next block is free.                        *)
swallowed(m, k) ==
    LET n == next(m, k)
    IN  Link([m EXCEPT ![k] = @ + HDR + size(m, n), ![k + 1] = next(m, n)],
             next(m, n), k)

LEMMA SwallowedWords ==
    ASSUME NEW m, NEW hp, NEW B, Tiled(m, hp, B), NEW k \in B, m[k + 1] # null
    PROVE  LET n == m[k + 1]
               t == swallowed(m, k)
           IN  /\ n \in B /\ n # k /\ t \in Memory
               /\ t[k] = m[k] + 5 + m[n] /\ t[k + 1] = m[n + 1]
               /\ m[n + 1] # null => t[m[n + 1] + 2] = k
               /\ \A a \in Base..(Limit - 1) :
                     a \notin {k, k + 1} /\ (m[n + 1] # null => a # m[n + 1] + 2) =>
                        t[a] = m[a]
<1> DEFINE n  == m[k + 1]
           nn == m[n + 1]
           t  == swallowed(m, k)
           s  == [m EXCEPT ![k] = m[k] + 5 + m[n], ![k + 1] = nn]
<1>1. n \in B /\ n = k + 5 + m[k]
    BY Behind
<1>2. /\ k \in Nat /\ m[k] \in Nat /\ n \in Nat /\ m[n] \in Nat /\ nn \in Int
      /\ k \in Base..(Limit - 1) /\ k + 1 \in Base..(Limit - 1) /\ n # k /\ n # k + 1
  <2>1. k \in k..(k + 4 + m[k]) /\ k + 1 \in k..(k + 4 + m[k])
      BY InHeap
  <2>2. n + 1 \in n..(n + 4 + m[n])
      BY <1>1, InHeap
  <2> QED BY <1>1, <2>1, <2>2, InHeap
<1>3. m \in Memory
    BY DEF Tiled
<1>4. /\ s \in Memory /\ s[k] = m[k] + 5 + m[n] /\ s[k + 1] = nn
      /\ \A a \in Base..(Limit - 1) : a \notin {k, k + 1} => s[a] = m[a]
    BY <1>2, <1>3 DEF Memory
<1>5. t = IF nn = null THEN s ELSE [s EXCEPT ![nn + 2] = k]
    BY <1>2 DEF swallowed, Link, next, size, HDR
<1> HIDE DEF s, t, nn
<1>6. /\ t \in Memory /\ t[k] = s[k] /\ t[k + 1] = s[k + 1]
      /\ nn # null => t[nn + 2] = k
      /\ \A a \in Base..(Limit - 1) : (nn # null => a # nn + 2) => t[a] = s[a]
  <2>1. CASE nn = null
      BY <1>4, <1>5, <2>1
  <2>2. CASE nn # null
    <3>1. nn \in B /\ nn = n + 5 + m[n]
        BY <1>1, <2>2, Behind DEF nn
    <3>2. nn + 2 \in Base..(Limit - 1) /\ nn \in Nat
      <4>1. nn + 2 \in nn..(nn + 4 + m[nn])
          BY <3>1, InHeap
      <4> QED BY <3>1, <4>1, InHeap
    <3>3. nn + 2 # k /\ nn + 2 # k + 1
        BY <1>1, <1>2, <3>1
    <3>4. /\ t \in Memory /\ t[nn + 2] = k /\ t[k] = s[k] /\ t[k + 1] = s[k + 1]
          /\ \A a \in Base..(Limit - 1) : a # nn + 2 => t[a] = s[a]
        BY <1>2, <1>4, <1>5, <2>2, <3>2, <3>3 DEF Memory
    <3> QED BY <2>2, <3>4
  <2> QED BY <2>1, <2>2
<1>7. /\ t[k] = m[k] + 5 + m[n] /\ t[k + 1] = nn
      /\ \A a \in Base..(Limit - 1) :
            a \notin {k, k + 1} /\ (nn # null => a # nn + 2) => t[a] = m[a]
    BY <1>4, <1>6
<1> QED BY <1>1, <1>2, <1>6, <1>7 DEF t, nn

(* A block swallows the one behind it.                                     *)
SwallowedAt(m, hp, B, k, t) ==
    LET n == m[k + 1]
    IN  /\ Tiled(t, hp, B \ {n}) /\ n \in B /\ n # k
        /\ t[k + 1] = m[n + 1]
        /\ \A b \in B \ {n} : t[b + 3] = m[b + 3] /\ t[b] >= m[b]
        /\ \A b \in B \ {n, k} : t[b + 1] = m[b + 1]
        /\ t[k + 2] = m[k + 2]
        /\ \A a \in Base..(Limit - 1) : Outside(B, a) => t[a] = m[a]

LEMMA Swallowed ==
    ASSUME NEW m, NEW hp, NEW B, Tiled(m, hp, B), NEW k \in B, m[k + 1] # null,
           NEW t, t = swallowed(m, k)
    PROVE  SwallowedAt(m, hp, B, k, t)
<1> DEFINE n  == m[k + 1]
           nn == m[n + 1]
           C  == B \ {n}
<1>1. /\ n \in B /\ n # k /\ t \in Memory
      /\ t[k] = m[k] + 5 + m[n] /\ t[k + 1] = nn
      /\ nn # null => t[nn + 2] = k
      /\ \A a \in Base..(Limit - 1) :
            a \notin {k, k + 1} /\ (nn # null => a # nn + 2) => t[a] = m[a]
    BY SwallowedWords
<1>2. /\ n = k + 5 + m[k] /\ m[n + 2] = k
      /\ nn = null => n + 5 + m[n] = hp
      /\ nn # null => nn = n + 5 + m[n] /\ nn \in B
    BY <1>1, Behind
<1>3. /\ k \in Nat /\ m[k] \in Nat /\ n \in Nat /\ m[n] \in Nat
      /\ nn # null => nn \in Nat
    BY <1>1, <1>2, InHeap
<1> HIDE DEF n, nn
<1>4. ASSUME NEW b \in C, b # k
      PROVE  /\ t[b] = m[b] /\ t[b + 1] = m[b + 1] /\ t[b + 3] = m[b + 3]
             /\ b # nn => t[b + 2] = m[b + 2]
  <2>1. /\ b \in Nat /\ m[b] \in Nat
        /\ \A a \in b..(b + 4) : a \in Base..(Limit - 1)
      BY InHeap
  <2>2. b + 5 + m[b] <= k \/ k + 5 + m[k] <= b
      BY <1>4, Apart
  <2>3. nn # null /\ b # nn => b + 5 <= nn \/ nn + 5 <= b
    <3>1. nn # null => nn \in B /\ m[nn] \in Nat
        BY <1>2, InHeap
    <3> QED BY <1>3, <2>1, <3>1, Apart
  <2>4. \A a \in b..(b + 4) : a \notin {k, k + 1}
      BY <1>3, <2>1, <2>2
  <2>5. \A a \in {b, b + 1, b + 3} : nn # null => a # nn + 2
      BY <1>3, <2>1, <2>3
  <2>6. b # nn /\ nn # null => b + 2 # nn + 2
      BY <1>3, <2>1
  <2>7. {b, b + 1, b + 2, b + 3} \subseteq b..(b + 4)
      BY <2>1
  <2> QED BY <1>1, <2>1, <2>4, <2>5, <2>6, <2>7
<1>5. t[k + 2] = m[k + 2] /\ t[k + 3] = m[k + 3]
  <2>1. \A a \in k..(k + 4) : a \in Base..(Limit - 1)
      BY <1>3, InHeap
  <2>2. nn # null => nn >= k + 10
      BY <1>2, <1>3
  <2>3. {k + 2, k + 3} \subseteq k..(k + 4)
      BY <1>3
  <2> QED BY <1>1, <1>3, <2>1, <2>2, <2>3
<1>6. k # Base => m[k + 2] \in C /\ m[m[k + 2] + 1] = k
  <2> SUFFICES ASSUME k # Base PROVE m[k + 2] \in C /\ m[m[k + 2] + 1] = k
      OBVIOUS
  <2>1. m[k + 2] \in B /\ m[m[k + 2] + 1] = k /\ k = m[k + 2] + 5 + m[m[k + 2]]
      BY Before
  <2>2. m[k + 2] \in Nat /\ m[m[k + 2]] \in Nat
      BY <2>1, InHeap
  <2> QED BY <1>2, <1>3, <2>1, <2>2
<1>7. n # Base /\ Base \in C
    BY <1>2, <1>3, InHeap DEF Tiled, Base
<1>8. /\ hp \in Base..Limit /\ C \subseteq Nat /\ prev(t, Base) = null
      /\ \A b \in C : b >= Base /\ size(t, b) \in Nat /\ end(t, b) <= hp
  <2>1. ASSUME NEW b \in C PROVE b >= Base /\ size(t, b) \in Nat /\ end(t, b) <= hp
    <3>1. CASE b = k
      <4>1. n + 5 + m[n] <= hp
          BY <1>1, InHeap
      <4> QED BY <1>1, <1>2, <1>3, <3>1, <4>1 DEF Tiled, size, end, data, HDR
    <3>2. CASE b # k
        BY <1>4, <3>2 DEF Tiled, size, end, data, HDR
    <3> QED BY <3>1, <3>2
  <2>2. prev(t, Base) = null
    <3>1. m[Base + 2] = null /\ Base = 1
        BY DEF Tiled, prev, Base
    <3>2. Base # nn
        BY <1>2, <1>3, <3>1 DEF null
    <3> QED BY <1>4, <1>5, <1>7, <3>1, <3>2 DEF prev
  <2> QED BY <2>1, <2>2 DEF Tiled
<1>9. ASSUME NEW b \in C
      PROVE  IF next(t, b) = null THEN end(t, b) = hp
             ELSE /\ next(t, b) = end(t, b) /\ next(t, b) \in C
                  /\ prev(t, next(t, b)) = b
  <2> USE DEF next, end, prev, data, size, HDR
  <2>1. CASE b = k
    <3>1. CASE nn = null
        BY <1>1, <1>2, <1>3, <2>1, <3>1
    <3>2. CASE nn # null
        BY <1>1, <1>2, <1>3, <2>1, <3>2
    <3> QED BY <3>1, <3>2
  <2>2. CASE b # k
    <3>1. t[b] = m[b] /\ t[b + 1] = m[b + 1]
        BY <1>4, <2>2
    <3>2. m[b + 1] = null => b + 5 + m[b] = hp
        BY Behind
    <3>3. ASSUME m[b + 1] # null
          PROVE  /\ m[b + 1] = b + 5 + m[b] /\ m[b + 1] \in C /\ t[m[b + 1] + 2] = b
      <4>1. m[b + 1] = b + 5 + m[b] /\ m[b + 1] \in B /\ m[m[b + 1] + 2] = b
          BY <3>3, Behind
      <4>2. m[b + 1] # n
          BY <1>2, <2>2, <4>1
      <4>3. m[b + 1] # nn
        <5>1. nn # null => m[nn + 2] = n
            BY <1>1, Behind DEF nn
        <5> QED BY <3>3, <4>1, <5>1
      <4>4. t[m[b + 1] + 2] = m[m[b + 1] + 2]
          BY <1>4, <1>5, <4>1, <4>2, <4>3
      <4> QED BY <4>1, <4>2, <4>4
    <3> QED BY <3>1, <3>2, <3>3
  <2> QED BY <2>1, <2>2
<1>10. ASSUME NEW b \in C \ {Base} PROVE prev(t, b) \in C /\ next(t, prev(t, b)) = b
  <2> USE DEF next, prev
  <2>1. CASE b = nn
    <3>1. b # null
        BY InHeap
    <3> QED BY <1>1, <2>1, <3>1
  <2>2. CASE b # nn
    <3>1. m[b + 2] \in B /\ m[m[b + 2] + 1] = b
        BY Before
    <3>2. t[b + 2] = m[b + 2]
        BY <1>4, <1>5, <2>2
    <3>3. m[b + 2] # n
        BY <2>2, <3>1 DEF nn
    <3>4. m[b + 2] # k
        BY <3>1 DEF n
    <3> QED BY <1>4, <3>1, <3>2, <3>3, <3>4
  <2> QED BY <2>1, <2>2
<1>11. ASSUME NEW b \in C, NEW c \in C, b < c PROVE end(t, b) <= c
  <2> USE DEF end, data, size, HDR
  <2>1. CASE b = k
    <3>1. b + 5 + m[b] <= c /\ c # n /\ c \in Nat /\ m[c] \in Nat
        BY <1>11, InHeap DEF Tiled
    <3>2. n + 5 + m[n] <= c
        BY <1>1, <1>2, <1>3, <2>1, <3>1, Apart
    <3> QED BY <1>1, <1>2, <1>3, <2>1, <3>2
  <2>2. CASE b # k
      BY <1>4, <1>11, <2>2 DEF Tiled
  <2> QED BY <2>1, <2>2
<1>12. Tiled(t, hp, C)
    BY <1>1, <1>7, <1>8, <1>9, <1>10, <1>11 DEF Tiled
<1>13. \A b \in C : t[b + 3] = m[b + 3] /\ t[b] >= m[b]
  <2> SUFFICES ASSUME NEW b \in C PROVE t[b + 3] = m[b + 3] /\ t[b] >= m[b]
      OBVIOUS
  <2>1. m[b] \in Nat
      BY InHeap
  <2> QED BY <1>1, <1>3, <1>4, <1>5, <2>1
<1>14. \A b \in B \ {n, k} : t[b + 1] = m[b + 1]
    BY <1>4
<1>15. ASSUME NEW a \in Base..(Limit - 1), Outside(B, a) PROVE t[a] = m[a]
  <2>1. a # k /\ a # k + 1
      BY <1>3, <1>15 DEF Outside
  <2>2. nn # null => a # nn + 2
      BY <1>2, <1>3, <1>15 DEF Outside
  <2> QED BY <1>1, <2>1, <2>2
<1> QED BY <1>1, <1>5, <1>12, <1>13, <1>14, <1>15 DEF n, nn, SwallowedAt

(* The last block goes back to the break.                                  *)
GivenBackAt(m, B, k, t) ==
    /\ Tiled(t, k, B \ {k}) /\ m[k + 2] \in B \ {k} /\ t[m[k + 2] + 1] = null
    /\ \A b \in B : t[b] = m[b] /\ t[b + 3] = m[b + 3]
    /\ \A b \in B \ {m[k + 2]} : t[b + 1] = m[b + 1]
    /\ \A a \in Base..(Limit - 1) : Outside(B, a) => t[a] = m[a]

LEMMA GivenBack ==
    ASSUME NEW m, NEW hp, NEW B, Tiled(m, hp, B), NEW k \in B \ {Base}, m[k + 1] = null,
           NEW t, t = [m EXCEPT ![m[k + 2] + 1] = null]
    PROVE  GivenBackAt(m, B, k, t)
<1> DEFINE p == m[k + 2]
           C == B \ {k}
<1>1. p \in B /\ m[p + 1] = k /\ k = p + 5 + m[p]
    BY Before
<1>2. /\ p \in Nat /\ m[p] \in Nat /\ k \in Nat /\ m[k] \in Nat /\ p # k
      /\ k + 5 + m[k] = hp /\ hp \in Nat /\ hp <= Limit
      /\ p + 1 \in Base..(Limit - 1)
  <2>1. p + 1 \in p..(p + 4 + m[p])
      BY <1>1, InHeap
  <2> QED BY <1>1, <2>1, InHeap, Behind
<1> HIDE DEF p
<1>3. /\ t \in Memory /\ t[p + 1] = null
      /\ \A a \in Base..(Limit - 1) : a # p + 1 => t[a] = m[a]
    BY <1>2 DEF Tiled, Memory, null, p
<1>4. ASSUME NEW b \in B
      PROVE  /\ t[b] = m[b] /\ t[b + 2] = m[b + 2] /\ t[b + 3] = m[b + 3]
             /\ b # p => t[b + 1] = m[b + 1]
  <2>1. /\ b \in Nat /\ m[b] \in Nat
        /\ \A a \in b..(b + 4) : a \in Base..(Limit - 1)
      BY InHeap
  <2>2. b # p => b + 5 <= p \/ p + 5 <= b
      BY <1>1, <1>2, <2>1, Apart
  <2>3. \A a \in {b, b + 2, b + 3} : a # p + 1
      BY <1>2, <2>1, <2>2
  <2>4. {b, b + 1, b + 2, b + 3} \subseteq b..(b + 4)
      BY <2>1
  <2> QED BY <1>2, <1>3, <2>1, <2>3, <2>4
<1>5. /\ k \in Base..Limit /\ C \subseteq Nat /\ Base \in C /\ prev(t, Base) = null
      /\ \A b \in C : b >= Base /\ size(t, b) \in Nat /\ end(t, b) <= k
  <2>1. ASSUME NEW b \in C PROVE b >= Base /\ size(t, b) \in Nat /\ end(t, b) <= k
    <3>1. b + 5 + m[b] <= k \/ k + 5 + m[k] <= b
        BY Apart
    <3>2. b + 5 + m[b] <= hp /\ b \in Nat /\ m[b] \in Nat
        BY InHeap
    <3>3. b + 5 + m[b] <= k
        BY <1>2, <3>1, <3>2
    <3> QED BY <1>4, <3>2, <3>3 DEF Tiled, size, end, data, HDR
  <2>2. k \in Base..Limit /\ C \subseteq Nat /\ Base \in C
    <3>1. k >= Base /\ Base \in B /\ B \subseteq Nat
        BY DEF Tiled
    <3> QED BY <1>2, <3>1, InHeap
  <2>3. prev(t, Base) = null
      BY <1>4 DEF Tiled, prev
  <2> QED BY <2>1, <2>2, <2>3
<1>6. ASSUME NEW b \in C
      PROVE  IF next(t, b) = null THEN end(t, b) = k
             ELSE /\ next(t, b) = end(t, b) /\ next(t, b) \in C
                  /\ prev(t, next(t, b)) = b
  <2> USE DEF next, end, prev, data, size, HDR
  <2>1. CASE b = p
      BY <1>1, <1>3, <1>4, <2>1
  <2>2. CASE b # p
    <3>1. m[b + 1] = null => b + 5 + m[b] = hp
        BY Behind
    <3>2. m[b + 1] # null
      <4>1. b + 5 + m[b] <= k \/ k + 5 + m[k] <= b
          BY Apart
      <4>2. b \in Nat /\ m[b] \in Nat
          BY InHeap
      <4> QED BY <1>2, <3>1, <4>1, <4>2
    <3>3. m[b + 1] = b + 5 + m[b] /\ m[b + 1] \in B /\ m[m[b + 1] + 2] = b
        BY <3>2, Behind
    <3>4. m[b + 1] # k
        BY <2>2, <3>3 DEF p
    <3> QED BY <1>4, <2>2, <3>2, <3>3, <3>4
  <2> QED BY <2>1, <2>2
<1>7. ASSUME NEW b \in C \ {Base} PROVE prev(t, b) \in C /\ next(t, prev(t, b)) = b
  <2>1. m[b + 2] \in B /\ m[m[b + 2] + 1] = b
      BY Before
  <2>2. m[b + 2] # k /\ m[b + 2] # p
      BY <1>1, <2>1, InHeap
  <2> QED BY <1>4, <2>1, <2>2 DEF prev, next
<1>8. \A b, c \in C : b < c => end(t, b) <= c
    BY <1>4 DEF Tiled, end, data, size
<1>9. Tiled(t, k, C)
    BY <1>3, <1>5, <1>6, <1>7, <1>8 DEF Tiled
<1>10. ASSUME NEW a \in Base..(Limit - 1), Outside(B, a) PROVE t[a] = m[a]
  <2>1. a # p + 1
      BY <1>1, <1>2, <1>10 DEF Outside
  <2> QED BY <1>3, <2>1
<1> QED BY <1>1, <1>2, <1>3, <1>4, <1>9, <1>10 DEF p, GivenBackAt
-----------------------------------------------------------------------------
(* The words splitBlock writes, and the two blocks it leaves.              *)
LEMMA SplitWords ==
    ASSUME NEW m, NEW hp, NEW B, Tiled(m, hp, B), NEW b \in B, NEW n \in Nat,
           m[b] - n >= HDR + 1, m[b + 1] # null
    PROVE  LET t   == splitBlock(m, b, n)
               add == b + 5 + n
           IN  /\ t \in Memory
               /\ t[add] = m[b] - n - 5 /\ t[add + 1] = m[b + 1] /\ t[add + 2] = b
               /\ t[add + 3] = 1 /\ t[b] = n /\ t[b + 1] = add
               /\ t[m[b + 1] + 2] = add
               /\ \A a \in Base..(Limit - 1) :
                     a \notin (add..(add + 3)) \cup {b, b + 1, m[b + 1] + 2} => t[a] = m[a]
<1> DEFINE add == b + 5 + n
           e   == m[b + 1]
           t   == splitBlock(m, b, n)
           s   == Headed(m, b, add, m[b] - n - 5, e)
           u   == Shortened(s, b, n, add)
<1>1. /\ b \in Nat /\ m[b] \in Nat /\ e = b + 5 + m[b] /\ e \in B /\ e \in Nat
      /\ m \in Memory /\ m[b] - n >= 6
  <2>1. b \in Nat /\ m[b] \in Nat /\ m \in Memory
      BY InHeap DEF Tiled
  <2>2. e = b + 5 + m[b] /\ e \in B
      BY Behind
  <2>3. e \in Nat
      BY <2>2, InHeap
  <2> QED BY <2>1, <2>2, <2>3 DEF HDR
<1>2. {b, b + 1, add, add + 1, add + 2, add + 3, e + 2} \subseteq Base..(Limit - 1)
  <2>1. {b, b + 1, add, add + 1, add + 2, add + 3} \subseteq b..(b + 4 + m[b])
      BY <1>1
  <2>2. e + 2 \in e..(e + 4 + m[e])
      BY <1>1, InHeap
  <2>3. \A a \in b..(b + 4 + m[b]) : a \in Base..(Limit - 1)
      BY InHeap
  <2>4. \A a \in e..(e + 4 + m[e]) : a \in Base..(Limit - 1)
      BY <1>1, InHeap
  <2> QED BY <2>1, <2>2, <2>3, <2>4
<1>3. t = [u EXCEPT ![e + 2] = add]
    BY <1>1, InHeap DEF splitBlock, Link, data, size, next, HDR
<1>4. add \in Nat /\ b < add /\ b + 1 < add /\ add + 6 <= e
    BY <1>1
<1>5. /\ s = [m EXCEPT ![add] = m[b] - n - 5, ![add + 1] = e, ![add + 2] = b, ![add + 3] = 1]
      /\ u = [s EXCEPT ![b] = n, ![b + 1] = add]
    BY DEF Headed, Shortened
<1> HIDE DEF t, u, s, e, add
<1>6. /\ s \in Memory
      /\ s[add] = m[b] - n - 5 /\ s[add + 1] = e /\ s[add + 2] = b /\ s[add + 3] = 1
      /\ \A a \in Base..(Limit - 1) : a \notin add..(add + 3) => s[a] = m[a]
  <2> DEFINE r == [m EXCEPT ![add] = m[b] - n - 5, ![add + 1] = e]
  <2>1. s = [r EXCEPT ![add + 2] = b, ![add + 3] = 1]
      BY <1>5
  <2>2. m[b] - n - 5 \in Int /\ e \in Int /\ add # add + 1
        /\ m \in Memory /\ add \in Base..(Limit - 1) /\ add + 1 \in Base..(Limit - 1)
      BY <1>1, <1>2, <1>4
  <2>3. /\ r \in Memory /\ r[add] = m[b] - n - 5 /\ r[add + 1] = e
        /\ \A a \in Base..(Limit - 1) : a \notin {add, add + 1} => r[a] = m[a]
      BY <2>2 DEF Memory
  <2> HIDE DEF r
  <2>4. b \in Int /\ add + 2 # add + 3
        /\ add + 2 \in Base..(Limit - 1) /\ add + 3 \in Base..(Limit - 1)
      BY <1>1, <1>2, <1>4
  <2>5. /\ s \in Memory /\ s[add + 2] = b /\ s[add + 3] = 1
        /\ \A a \in Base..(Limit - 1) : a \notin {add + 2, add + 3} => s[a] = r[a]
      BY <2>1, <2>3, <2>4 DEF Memory
  <2> QED BY <1>2, <1>4, <2>3, <2>5
<1>7. /\ u \in Memory /\ u[b] = n /\ u[b + 1] = add
      /\ \A a \in Base..(Limit - 1) : a \notin {b, b + 1} => u[a] = s[a]
  <2>1. b # b + 1 /\ n \in Int /\ add \in Int
      BY <1>1, <1>4
  <2>2. u = [s EXCEPT ![b] = n, ![b + 1] = add]
      BY <1>5
  <2>3. s \in Memory /\ b \in Base..(Limit - 1) /\ b + 1 \in Base..(Limit - 1)
      BY <1>2, <1>6
  <2> QED BY <2>1, <2>2, <2>3 DEF Memory
<1>8. /\ t \in Memory /\ t[e + 2] = add
      /\ \A a \in Base..(Limit - 1) : a # e + 2 => t[a] = u[a]
    BY <1>1, <1>2, <1>3, <1>4, <1>7 DEF Memory
<1>9. /\ t[add] = m[b] - n - 5 /\ t[add + 1] = e /\ t[add + 2] = b
      /\ t[add + 3] = 1 /\ t[b] = n /\ t[b + 1] = add
    BY <1>1, <1>2, <1>6, <1>4, <1>7, <1>8
<1>10. \A a \in Base..(Limit - 1) :
        a \notin (add..(add + 3)) \cup {b, b + 1, e + 2} => t[a] = m[a]
    BY <1>6, <1>7, <1>8
<1> QED BY <1>8, <1>9, <1>10 DEF t, add, e

(* t is m with block b cut after n words of data.                          *)
CutAt(m, hp, B, b, n, t) ==
    LET add == b + 5 + n
    IN  /\ Tiled(t, hp, B \cup {add}) /\ add \notin B
        /\ t[b] = n /\ t[b + 1] = add
        /\ t[add + 1] = m[b + 1] /\ t[add + 3] = 1
        /\ \A c \in B : t[c + 3] = m[c + 3]
        /\ \A c \in B \ {b} : t[c] = m[c] /\ t[c + 1] = m[c + 1]
        /\ \A a \in Base..(Limit - 1) :
              Outside(B, a) /\ a \notin (b + 5)..(b + 4 + m[b]) => t[a] = m[a]

LEMMA Split ==
    ASSUME NEW m, NEW hp, NEW B, Tiled(m, hp, B), NEW b \in B, NEW n \in Nat,
           m[b] - n >= HDR + 1, m[b + 1] # null, NEW t, t = splitBlock(m, b, n)
    PROVE  CutAt(m, hp, B, b, n, t)
<1> DEFINE add == b + 5 + n
           e   == m[b + 1]
           C   == B \cup {add}
<1>1. /\ t \in Memory
      /\ t[add] = m[b] - n - 5 /\ t[add + 1] = e /\ t[add + 2] = b
      /\ t[add + 3] = 1 /\ t[b] = n /\ t[b + 1] = add
      /\ t[e + 2] = add
      /\ \A a \in Base..(Limit - 1) :
            a \notin (add..(add + 3)) \cup {b, b + 1, e + 2} => t[a] = m[a]
    BY SplitWords
<1>2. /\ b \in Nat /\ m[b] \in Nat /\ m[b] - n >= 6 /\ b + 5 + m[b] <= hp
      /\ hp \in Nat /\ hp <= Limit /\ Limit \in Nat
    BY InHeap DEF HDR
<1>3. e = b + 5 + m[b] /\ e \in B /\ m[e + 2] = b /\ e \in Nat
    BY <1>2, Behind
<1>4. add \in Nat /\ add = b + 5 + n /\ add + 6 <= e
    BY <1>2, <1>3
<1> HIDE DEF add, e
<1>5. ASSUME NEW c \in B, c # b
      PROVE  /\ c \in Nat /\ m[c] \in Nat
             /\ c >= e \/ c + 5 + m[c] <= b
  <2>1. c \in Nat /\ m[c] \in Nat
      BY InHeap
  <2> QED BY <1>2, <1>3, <1>5, <2>1, Apart
<1>6. add \notin B
    BY <1>2, <1>3, <1>4, <1>5
<1>7. ASSUME NEW c \in B, c # b
      PROVE  /\ t[c] = m[c] /\ t[c + 1] = m[c + 1] /\ t[c + 3] = m[c + 3]
             /\ c # e => t[c + 2] = m[c + 2]
  <2>1. /\ c \in Nat /\ m[c] \in Nat /\ (c >= e \/ c + 5 + m[c] <= b)
        /\ \A a \in c..(c + 4) : a \in Base..(Limit - 1)
      BY <1>5, <1>7, InHeap
  <2>2. c # e => c >= e + 5 \/ c + 5 + m[c] <= b
      BY <1>2, <1>3, <1>4, <1>5, <1>7, <2>1, InHeap, Apart
  <2>3. \A a \in c..(c + 4) : a \notin (add..(add + 3)) \cup {b, b + 1}
      BY <1>2, <1>3, <1>4, <2>1
  <2>4. \A a \in {c, c + 1, c + 3} : a # e + 2
      BY <1>2, <1>3, <1>4, <2>1, <2>2
  <2>5. c # e => c + 2 # e + 2
      BY <1>3, <2>1
  <2>6. {c, c + 1, c + 2, c + 3} \subseteq c..(c + 4)
      BY <2>1
  <2> QED BY <1>1, <2>1, <2>3, <2>4, <2>5, <2>6
<1>8. t[b + 2] = m[b + 2] /\ t[b + 3] = m[b + 3]
  <2>1. {b + 2, b + 3} \subseteq b..(b + 4 + m[b])
      BY <1>2
  <2>2. \A a \in b..(b + 4 + m[b]) : a \in Base..(Limit - 1)
      BY InHeap
  <2>3. \A a \in {b + 2, b + 3} : a \notin (add..(add + 3)) \cup {b, b + 1, e + 2}
      BY <1>2, <1>3, <1>4
  <2> QED BY <1>1, <2>1, <2>2, <2>3
<1>9. /\ hp \in Base..Limit /\ C \subseteq Nat /\ Base \in C /\ prev(t, Base) = null
      /\ \A c \in C : c >= Base /\ size(t, c) \in Nat /\ end(t, c) <= hp
  <2>1. hp \in Base..Limit /\ C \subseteq Nat /\ Base \in C
      BY <1>4 DEF Tiled
  <2>2. prev(t, Base) = null
    <3>1. Base \in B /\ m[Base + 2] = null
        BY DEF Tiled, prev
    <3>2. Base # e
        BY <1>3, <3>1, InHeap
    <3> QED BY <1>7, <1>8, <3>1, <3>2 DEF prev
  <2>3. ASSUME NEW c \in C PROVE c >= Base /\ size(t, c) \in Nat /\ end(t, c) <= hp
    <3> USE DEF size, end, data, HDR
    <3>1. CASE c = add
        BY <1>1, <1>2, <1>3, <1>4, <3>1 DEF Base
    <3>2. CASE c = b
        BY <1>1, <1>2, <3>2 DEF Tiled
    <3>3. CASE c # add /\ c # b
        BY <1>7, <3>3 DEF Tiled
    <3> QED BY <3>1, <3>2, <3>3
  <2> QED BY <2>1, <2>2, <2>3
<1>10. ASSUME NEW c \in C
       PROVE  IF next(t, c) = null THEN end(t, c) = hp
              ELSE /\ next(t, c) = end(t, c) /\ next(t, c) \in C
                   /\ prev(t, next(t, c)) = c
  <2> USE DEF next, end, prev, data, size, HDR
  <2>1. CASE c = add
    <3>1. t[add + 1] # null
        BY <1>1, <1>3, InHeap
    <3> QED BY <1>1, <1>2, <1>3, <1>4, <2>1, <3>1
  <2>2. CASE c = b
    <3>1. add # null
        BY <1>2, <1>4 DEF null
    <3> QED BY <1>1, <1>2, <1>4, <2>2, <3>1
  <2>3. CASE c # add /\ c # b
    <3>1. c \in B /\ t[c] = m[c] /\ t[c + 1] = m[c + 1]
        BY <1>7, <2>3
    <3>2. m[c + 1] = null => c + 5 + m[c] = hp
        BY <3>1, Behind
    <3>3. ASSUME m[c + 1] # null
          PROVE  m[c + 1] = c + 5 + m[c] /\ m[c + 1] \in B /\ t[m[c + 1] + 2] = c
      <4>1. m[c + 1] = c + 5 + m[c] /\ m[c + 1] \in B /\ m[m[c + 1] + 2] = c
          BY <3>1, <3>3, Behind
      <4>2. m[c + 1] # e
          BY <1>3, <2>3, <4>1
      <4> QED BY <1>7, <1>8, <4>1, <4>2
    <3> QED BY <3>1, <3>2, <3>3
  <2> QED BY <2>1, <2>2, <2>3
<1>11. ASSUME NEW c \in C \ {Base} PROVE prev(t, c) \in C /\ next(t, prev(t, c)) = c
  <2> USE DEF next, prev
  <2>1. CASE c = add
      BY <1>1, <2>1
  <2>2. CASE c = e
      BY <1>1, <2>2
  <2>3. CASE c # add /\ c # e
    <3>1. m[c + 2] \in B /\ m[m[c + 2] + 1] = c
        BY <2>3, Before
    <3>2. t[c + 2] = m[c + 2] /\ m[c + 2] # b
        BY <1>7, <1>8, <2>3, <3>1 DEF e
    <3> QED BY <1>7, <3>1, <3>2
  <2> QED BY <2>1, <2>2, <2>3
<1>12. ASSUME NEW c \in C, NEW d \in C, c < d PROVE end(t, c) <= d
  <2> USE DEF end, data, size, HDR
  <2>1. CASE c = add
    <3>1. d \in B /\ d # b
        BY <1>2, <1>4, <1>12, <2>1
    <3>2. d >= e
        BY <1>2, <1>4, <1>5, <1>12, <2>1, <3>1
    <3> QED BY <1>1, <1>2, <1>3, <1>4, <2>1, <3>2
  <2>2. CASE c = b
    <3>1. d = add \/ (d \in B /\ d # b /\ d >= e)
        BY <1>2, <1>5, <1>12, <2>2
    <3> QED BY <1>1, <1>3, <1>4, <2>2, <3>1, InHeap
  <2>3. CASE c # add /\ c # b
    <3>1. c \in B /\ t[c] = m[c] /\ c \in Nat /\ m[c] \in Nat /\ (c >= e \/ c + 5 + m[c] <= b)
        BY <1>5, <1>7, <2>3
    <3>2. CASE d = add
        BY <1>2, <1>3, <1>4, <1>12, <3>1, <3>2
    <3>3. CASE d # add
        BY <1>12, <3>1, <3>3 DEF Tiled
    <3> QED BY <3>2, <3>3
  <2> QED BY <2>1, <2>2, <2>3
<1>13. Tiled(t, hp, C)
    BY <1>1, <1>9, <1>10, <1>11, <1>12 DEF Tiled
<1>14. \A c \in B : t[c + 3] = m[c + 3]
    BY <1>7, <1>8
<1>15. \A c \in B \ {b} : t[c] = m[c] /\ t[c + 1] = m[c + 1]
    BY <1>7
<1>16. ASSUME NEW a \in Base..(Limit - 1), Outside(B, a), a \notin (b + 5)..(b + 4 + m[b])
       PROVE  t[a] = m[a]
  <2>1. a \notin b..(b + 4) /\ a \notin e..(e + 4) /\ a \in Int
      BY <1>3, <1>16 DEF Outside, Base
  <2> QED BY <1>1, <1>2, <1>3, <1>4, <1>16, <2>1
<1> QED BY <1>1, <1>6, <1>13, <1>14, <1>15, <1>16 DEF add, e, CutAt
-----------------------------------------------------------------------------
(* The flag of a block is set or cleared, and the data of one is written.  *)
FlaggedAt(m, hp, B, b, x, t) ==
    /\ Tiled(t, hp, B) /\ t[b + 3] = x
    /\ \A c \in B : t[c] = m[c] /\ t[c + 1] = m[c + 1] /\ t[c + 2] = m[c + 2]
    /\ \A c \in B \ {b} : t[c + 3] = m[c + 3]
    /\ \A a \in Base..(Limit - 1) : Outside(B, a) => t[a] = m[a]

LEMMA Flagged ==
    ASSUME NEW m, NEW hp, NEW B, Tiled(m, hp, B), NEW b \in B, NEW x \in Int,
           NEW t, t = [m EXCEPT ![b + 3] = x]
    PROVE  FlaggedAt(m, hp, B, b, x, t)
<1>1. /\ b \in Nat /\ m[b] \in Nat
      /\ b + 3 \in Base..(Limit - 1) /\ m \in Memory
  <2>1. b \in Nat /\ m[b] \in Nat /\ \A a \in b..(b + 4 + m[b]) : a \in Base..(Limit - 1)
      BY InHeap
  <2> QED BY <2>1 DEF Tiled
<1>2. /\ t \in Memory /\ t[b + 3] = x
      /\ \A a \in Base..(Limit - 1) : a # b + 3 => t[a] = m[a]
    BY <1>1 DEF Memory
<1>3. ASSUME NEW c \in B
      PROVE  /\ t[c] = m[c] /\ t[c + 1] = m[c + 1] /\ t[c + 2] = m[c + 2]
             /\ c # b => t[c + 3] = m[c + 3]
  <2>1. c \in Nat /\ m[c] \in Nat /\ \A a \in c..(c + 4 + m[c]) : a \in Base..(Limit - 1)
      BY InHeap
  <2>2. c # b => c + 5 <= b \/ b + 5 <= c
      BY <1>1, <2>1, Apart
  <2>3. \A a \in {c, c + 1, c + 2} : a # b + 3
      BY <1>1, <2>1, <2>2
  <2>4. {c, c + 1, c + 2, c + 3} \subseteq c..(c + 4 + m[c])
      BY <2>1
  <2> QED BY <1>1, <1>2, <2>1, <2>3, <2>4
<1>4. Tiled(t, hp, B)
    BY <1>2, <1>3, SameHeaders
<1>5. ASSUME NEW a \in Base..(Limit - 1), Outside(B, a) PROVE t[a] = m[a]
  <2>1. a # b + 3
      BY <1>1, <1>5 DEF Outside
  <2> QED BY <1>2, <2>1
<1> QED BY <1>2, <1>3, <1>4, <1>5 DEF FlaggedAt

LEMMA DataWritten ==
    ASSUME NEW m, NEW hp, NEW B, Tiled(m, hp, B), NEW b \in B, NEW t \in Memory,
           \A a \in Base..(Limit - 1) : a \notin (b + 5)..(b + 4 + m[b]) => t[a] = m[a]
    PROVE  /\ Tiled(t, hp, B)
           /\ \A c \in B : /\ t[c] = m[c] /\ t[c + 1] = m[c + 1]
                           /\ t[c + 2] = m[c + 2] /\ t[c + 3] = m[c + 3]
<1>1. ASSUME NEW c \in B
      PROVE  /\ t[c] = m[c] /\ t[c + 1] = m[c + 1]
             /\ t[c + 2] = m[c + 2] /\ t[c + 3] = m[c + 3]
  <2>1. /\ c \in Nat /\ m[c] \in Nat /\ b \in Nat /\ m[b] \in Nat
        /\ \A a \in c..(c + 4 + m[c]) : a \in Base..(Limit - 1)
      BY InHeap
  <2>2. c # b => c + 5 + m[c] <= b \/ b + 5 + m[b] <= c
      BY Apart
  <2>3. \A a \in c..(c + 4) : a \notin (b + 5)..(b + 4 + m[b])
      BY <2>1, <2>2
  <2>4. {c, c + 1, c + 2, c + 3} \subseteq c..(c + 4)
        /\ c..(c + 4) \subseteq c..(c + 4 + m[c])
      BY <2>1
  <2> QED BY <2>1, <2>3, <2>4
<1>2. Tiled(t, hp, B)
    BY <1>1, SameHeaders
<1> QED BY <1>1, <1>2

(* What calloc clears.                                                     *)
LEMMA ClearedWords ==
    ASSUME NEW m \in Memory, NEW b \in Nat, NEW n \in Nat, NEW t \in Cleared(m, b, n)
    PROVE  /\ t \in Memory
           /\ \A a \in Base..(Limit - 1) : a \notin (b + 5)..(b + 4 + n) => t[a] = m[a]
<1>1. t = m \/ t = Zeroed(m, b, n)
    BY DEF Cleared
<1>2. CASE t = m
    BY <1>2
<1>3. CASE t = Zeroed(m, b, n)
  <2>1. t = [a \in Base..(Limit - 1) |-> IF a \in (b + 5)..(b + 4 + n) THEN 0 ELSE m[a]]
      BY <1>3 DEF Zeroed, Memory, data, HDR
  <2> QED BY <2>1 DEF Memory
<1> QED BY <1>1, <1>2, <1>3

(* A block is given to a client.                                           *)
LEMMA Granted ==
    ASSUME NEW m, NEW hp, NEW B, Tiled(m, hp, B), NEW b \in B, NEW n \in Nat, n <= m[b],
           NEW t \in Cleared([m EXCEPT ![b + 3] = 0], b, n)
    PROVE  /\ Tiled(t, hp, B) /\ t[b + 3] = 0
           /\ \A c \in B : t[c] = m[c] /\ t[c + 1] = m[c + 1]
           /\ \A c \in B \ {b} : t[c + 3] = m[c + 3]
           /\ \A a \in Base..(Limit - 1) :
                 Outside(B, a) /\ a \notin (b + 5)..(b + 4 + m[b]) => t[a] = m[a]
<1> DEFINE s == [m EXCEPT ![b + 3] = 0]
<1>1. /\ Tiled(s, hp, B) /\ s[b + 3] = 0
      /\ \A c \in B : s[c] = m[c] /\ s[c + 1] = m[c + 1] /\ s[c + 2] = m[c + 2]
      /\ \A c \in B \ {b} : s[c + 3] = m[c + 3]
      /\ \A a \in Base..(Limit - 1) : Outside(B, a) => s[a] = m[a]
  <2>1. FlaggedAt(m, hp, B, b, 0, s)
      BY Flagged
  <2> QED BY <2>1 DEF FlaggedAt
<1>2. t \in Cleared(s, b, n)
    OBVIOUS
<1> HIDE DEF s
<1>3. s \in Memory /\ b \in Nat /\ m[b] \in Nat /\ s[b] = m[b]
    BY <1>1, InHeap DEF Tiled
<1>4. /\ t \in Memory
      /\ \A a \in Base..(Limit - 1) : a \notin (b + 5)..(b + 4 + n) => t[a] = s[a]
    BY <1>2, <1>3, ClearedWords
<1>5. \A a \in Base..(Limit - 1) : a \notin (b + 5)..(b + 4 + s[b]) => t[a] = s[a]
    BY <1>3, <1>4
<1>6. /\ Tiled(t, hp, B)
      /\ \A c \in B : /\ t[c] = s[c] /\ t[c + 1] = s[c + 1]
                      /\ t[c + 2] = s[c + 2] /\ t[c + 3] = s[c + 3]
    BY <1>1, <1>4, <1>5, DataWritten
<1> QED BY <1>1, <1>3, <1>5, <1>6

(* The first block, and another one at the break.                          *)
LEMMA FirstBlock ==
    ASSUME NEW t \in Memory, NEW n \in Nat, Base + HDR + n <= Limit,
           t[Base] = n, t[Base + 1] = null, t[Base + 2] = null
    PROVE  Tiled(t, Base + HDR + n, {Base})
BY HeapAssumption DEF Tiled, size, next, prev, end, data, HDR, Base, null, Limit

LEMMA Extended ==
    ASSUME NEW m, NEW hp, NEW B, Tiled(m, hp, B), NEW k \in B, m[k + 1] = null,
           NEW n \in Nat, hp + HDR + n <= Limit, NEW t \in Memory,
           t[hp] = n, t[hp + 1] = null, t[hp + 2] = k, t[k + 1] = hp,
           \A a \in Base..(Limit - 1) : a \notin hp..(hp + 4 + n) /\ a # k + 1 => t[a] = m[a]
    PROVE  /\ Tiled(t, hp + HDR + n, B \cup {hp}) /\ hp \notin B
           /\ \A c \in B : t[c] = m[c] /\ t[c + 3] = m[c + 3]
           /\ \A c \in B \ {k} : t[c + 1] = m[c + 1]
<1> DEFINE C == B \cup {hp}
<1>1. /\ k \in Nat /\ m[k] \in Nat /\ k + 5 + m[k] = hp /\ hp \in Nat
      /\ hp + 5 + n <= Limit /\ Limit \in Nat
      /\ hp \in Base..Limit /\ hp # null
  <2>1. /\ k \in Nat /\ m[k] \in Nat /\ k + 5 + m[k] = hp /\ hp \in Nat /\ Limit \in Nat
      BY InHeap, Behind
  <2>2. hp \in Base..Limit
      BY DEF Tiled
  <2> QED BY <2>1, <2>2 DEF HDR, null
<1>2. ASSUME NEW c \in B
      PROVE  /\ c \in Nat /\ m[c] \in Nat /\ c + 5 + m[c] <= hp
             /\ t[c] = m[c] /\ t[c + 2] = m[c + 2] /\ t[c + 3] = m[c + 3]
             /\ c # k => t[c + 1] = m[c + 1]
  <2>1. /\ c \in Nat /\ m[c] \in Nat /\ c + 5 + m[c] <= hp
        /\ \A a \in c..(c + 4 + m[c]) : a \in Base..(Limit - 1)
      BY InHeap
  <2>2. c # k => c + 5 <= k \/ k + 5 <= c
      BY <1>1, <2>1, Apart
  <2>3. \A a \in {c, c + 2, c + 3} : a # k + 1 /\ a \notin hp..(hp + 4 + n)
      BY <1>1, <2>1, <2>2
  <2>4. c + 1 \notin hp..(hp + 4 + n) /\ (c # k => c + 1 # k + 1)
      BY <1>1, <2>1
  <2>5. {c, c + 1, c + 2, c + 3} \subseteq c..(c + 4 + m[c])
      BY <2>1
  <2> QED BY <2>1, <2>3, <2>4, <2>5
<1>3. hp \notin B
    BY <1>1, <1>2
<1>4. /\ hp + HDR + n \in Base..Limit /\ C \subseteq Nat /\ Base \in C /\ prev(t, Base) = null
      /\ \A c \in C : c >= Base /\ size(t, c) \in Nat /\ end(t, c) <= hp + HDR + n
  <2> USE DEF size, end, data, HDR, prev
  <2>1. C \subseteq Nat /\ Base \in C /\ Base \in B /\ Base \in Nat
      BY <1>1 DEF Tiled
  <2>2. prev(t, Base) = null
      BY <1>2, <2>1 DEF Tiled
  <2>3. ASSUME NEW c \in C PROVE c >= Base /\ size(t, c) \in Nat /\ end(t, c) <= hp + HDR + n
    <3>1. CASE c = hp
        BY <1>1, <2>1, <3>1
    <3>2. CASE c # hp
      <4>1. c >= Base
          BY <3>2 DEF Tiled
      <4> QED BY <1>1, <1>2, <3>2, <4>1
    <3> QED BY <3>1, <3>2
  <2> QED BY <1>1, <2>1, <2>2, <2>3
<1>5. ASSUME NEW c \in C
      PROVE  IF next(t, c) = null THEN end(t, c) = hp + HDR + n
             ELSE /\ next(t, c) = end(t, c) /\ next(t, c) \in C
                  /\ prev(t, next(t, c)) = c
  <2> USE DEF next, end, prev, data, size, HDR
  <2>1. CASE c = hp
      BY <1>1, <2>1
  <2>2. CASE c = k
      BY <1>1, <1>2, <2>2
  <2>3. CASE c # hp /\ c # k
    <3>1. m[c + 1] # null
      <4>1. c + 5 + m[c] <= k \/ k + 5 + m[k] <= c
          BY <2>3, Apart
      <4> QED BY <1>1, <1>2, <2>3, <4>1, Behind
    <3>2. m[c + 1] = c + 5 + m[c] /\ m[c + 1] \in B /\ m[m[c + 1] + 2] = c
        BY <2>3, <3>1, Behind
    <3> QED BY <1>2, <2>3, <3>1, <3>2
  <2> QED BY <2>1, <2>2, <2>3
<1>6. ASSUME NEW c \in C \ {Base} PROVE prev(t, c) \in C /\ next(t, prev(t, c)) = c
  <2> USE DEF next, prev
  <2>1. CASE c = hp
      BY <2>1
  <2>2. CASE c # hp
    <3>1. m[c + 2] \in B /\ m[m[c + 2] + 1] = c /\ c # null
        BY <2>2, Before, InHeap
    <3>2. m[c + 2] # k
        BY <3>1
    <3> QED BY <1>2, <2>2, <3>1, <3>2
  <2> QED BY <2>1, <2>2
<1>7. ASSUME NEW c \in C, NEW d \in C, c < d PROVE end(t, c) <= d
  <2> USE DEF end, data, size, HDR
  <2>1. CASE c = hp
      BY <1>1, <1>2, <1>7, <2>1
  <2>2. CASE c # hp
    <3>1. CASE d = hp
        BY <1>2, <2>2, <3>1
    <3>2. CASE d # hp
        BY <1>2, <1>7, <2>2, <3>2 DEF Tiled
    <3> QED BY <3>1, <3>2
  <2> QED BY <2>1, <2>2
<1>8. Tiled(t, hp + HDR + n, C)
    BY <1>4, <1>5, <1>6, <1>7 DEF Tiled
<1> QED BY <1>2, <1>3, <1>8
-----------------------------------------------------------------------------
(* The walk finds the blocks, now and after a step.                        *)
BlocksFound == \A B : head = Base /\ Tiled(mem, heap_ptr, B) => Blocks = B

LEMMA Found == BlocksFound
BY BlocksAre DEF BlocksFound

LEMMA FoundThen == BlocksFound'
BY Found, PTL

LEMMA InUseThen ==
    ASSUME NEW B, head' = Base, Tiled(mem', heap_ptr', B), Coalesced(mem', B),
           Backed(mem', B, live' \cup lost'),
           req' # {} => IF it' = null
                        THEN last_visited' \in B /\ next(mem', last_visited') = null
                        ELSE it' \in B
    PROVE  InUse(Blocks)'
<1>1. Blocks' = B
    BY FoundThen DEF BlocksFound
<1> QED BY <1>1 DEF InUse, AtBlock, Tiled, Coalesced, Backed, Outside, size, next, prev,
                    isFree, end, data, getBlock

(* What every client's block is.                                           *)
LEMMA Held ==
    ASSUME HInv, NEW r \in live \cup lost
    PROVE  r.at \in Int /\ r.len \in Nat /\ InUse(Blocks)
<1>1. r.at \in Int /\ r.len \in Nat
  <2>1. r.at \in data(Base)..Limit /\ r.len \in Sizes
      BY DEF HInv, HeapTypeOK
  <2>2. Sizes \subseteq Nat /\ data(Base) \in Int /\ Limit \in Int
      BY HeapAssumption DEF data, Base, HDR, Limit
  <2>3. r.at \in Int
      BY <2>1, <2>2
  <2>4. r.len \in Nat
      BY <2>1, <2>2
  <2> QED BY <2>3, <2>4
<1>2. ~Unused
    BY DEF Unused
<1> QED BY <1>1, <1>2 DEF HInv
-----------------------------------------------------------------------------
LEMMA InitHInv == Init => HInv
<1> SUFFICES ASSUME Init PROVE HInv
    OBVIOUS
<1>1. Unused /\ req = {} /\ it = null
    BY DEF Init, Unused
<1>2. HeapTypeOK
    BY HeapAssumption DEF Init, HeapTypeOK, Base, Limit, null
<1> QED BY <1>1, <1>2 DEF HInv, HeldOnce, Unused

(* The search begins, and passes a block.                                  *)
LEMMA MallocHInv ==
    ASSUME HInv, NEW n \in Sizes, Malloc(n)
    PROVE  HInv'
<1>1. /\ mem' = mem /\ heap_ptr' = heap_ptr /\ head' = head /\ live' = live /\ lost' = lost
      /\ req = {} /\ req' = {n} /\ it' = head
      /\ last_visited' = IF head = null THEN last_visited ELSE head
      /\ heap_ptr + HDR + n <= Limit
    BY DEF Malloc
<1>2. CASE Unused
  <2>1. Unused'
      BY <1>1, <1>2 DEF Unused
  <2>2. HeapTypeOK'
      BY <1>1, <1>2 DEF HInv, HeapTypeOK, Unused
  <2>3. HeldOnce(live', lost')
      BY <1>1 DEF HInv
  <2> QED BY <1>1, <2>1, <2>2, <2>3 DEF HInv, HeldOnce
<1>3. CASE InUse(Blocks)
  <2>1. Base \in Blocks /\ Base \in 0..(Limit - 1) /\ Base # null
    <3>1. Base \in Blocks /\ Tiled(mem, heap_ptr, Blocks)
        BY <1>3 DEF InUse, Tiled
    <3> QED BY <3>1, Placed
  <2>2. InUse(Blocks)'
      BY <1>1, <1>3, <2>1, InUseThen DEF InUse
  <2>3. HeapTypeOK'
      BY <1>1, <1>3, <2>1 DEF HInv, HeapTypeOK, InUse
  <2>4. HeldOnce(live', lost')
      BY <1>1 DEF HInv
  <2> QED BY <1>1, <2>2, <2>3, <2>4 DEF HInv, HeldOnce
<1> QED BY <1>2, <1>3 DEF HInv

LEMMA FindBlockHInv ==
    ASSUME HInv, NEW n \in req, FindBlock(n)
    PROVE  HInv'
<1>1. /\ mem' = mem /\ heap_ptr' = heap_ptr /\ head' = head /\ live' = live /\ lost' = lost
      /\ req' = req /\ it # null /\ it' = next(mem, it) /\ last_visited' = it
    BY DEF FindBlock
<1>2. InUse(Blocks) /\ it \in Blocks
    BY <1>1 DEF HInv, Unused, InUse, AtBlock
<1>3. Tiled(mem, heap_ptr, Blocks)
    BY <1>2 DEF InUse
<1>4. it' # null => it' \in Blocks
    BY <1>1, <1>2, <1>3, Behind DEF next
<1>5. InUse(Blocks)'
    BY <1>1, <1>2, <1>4, InUseThen DEF InUse
<1>6. {last_visited', it'} \subseteq 0..(Limit - 1)
    BY <1>1, <1>2, <1>3, <1>4, Placed
<1>7. HeapTypeOK'
    BY <1>1, <1>6 DEF HInv, HeapTypeOK
<1>8. HeldOnce(live', lost')
    BY <1>1 DEF HInv
<1> QED BY <1>1, <1>5, <1>7, <1>8 DEF HInv, HeldOnce
-----------------------------------------------------------------------------
(* A free block is given out: it stays in the list, in use and large       *)
(* enough, and no block or word but its own changes.                       *)
LEMMA Reused ==
    ASSUME NEW m, NEW hp, NEW B, Tiled(m, hp, B), Coalesced(m, B),
           NEW b \in B, m[b + 3] # 0, NEW n \in Nat, n <= m[b],
           NEW s, s = IF m[b] - n >= HDR + 1 THEN splitBlock(m, b, n) ELSE m,
           NEW t \in Cleared([s EXCEPT ![b + 3] = 0], b, n)
    PROVE  \E C : /\ Tiled(t, hp, C) /\ Coalesced(t, C) /\ B \subseteq C
                  /\ t[b + 3] = 0 /\ n <= t[b]
                  /\ \A c \in B \ {b} : t[c] = m[c] /\ t[c + 3] = m[c + 3]
                  /\ \A a \in Base..(Limit - 1) :
                        Outside(B, a) /\ a \notin (b + 5)..(b + 4 + m[b]) => t[a] = m[a]
<1> USE DEF isFree, next
<1>1. /\ Base \in B /\ m[Base + 3] = 0 /\ b # Base
      /\ m[b + 1] # null /\ m[m[b + 1] + 3] = 0
    BY DEF Coalesced, Tiled
<1>2. /\ m[b + 1] = b + 5 + m[b] /\ m[b + 1] \in B
      /\ b \in Nat /\ m[b] \in Nat
    BY <1>1, Behind, InHeap
<1>3. \A c \in B : m[c + 3] # 0 => m[c + 1] # null /\ m[c + 1] \in B /\ m[m[c + 1] + 3] = 0
    BY Behind DEF Coalesced
<1>4. CASE ~(m[b] - n >= HDR + 1)
  <2>1. /\ Tiled(t, hp, B) /\ t[b + 3] = 0
        /\ \A c \in B : t[c] = m[c] /\ t[c + 1] = m[c + 1]
        /\ \A c \in B \ {b} : t[c + 3] = m[c + 3]
        /\ \A a \in Base..(Limit - 1) :
              Outside(B, a) /\ a \notin (b + 5)..(b + 4 + m[b]) => t[a] = m[a]
    <3>1. t \in Cleared([m EXCEPT ![b + 3] = 0], b, n)
        BY <1>4
    <3> QED BY <3>1, Granted
  <2>2. Coalesced(t, B)
      BY <1>1, <1>3, <2>1 DEF Coalesced
  <2>3. n <= t[b]
      BY <2>1
  <2> QED BY <2>1, <2>2, <2>3
<1>5. CASE m[b] - n >= HDR + 1
  <2> DEFINE add == b + 5 + n
             C   == B \cup {add}
  <2>1. /\ Tiled(s, hp, C) /\ add \notin B
        /\ s[b] = n /\ s[b + 1] = add
        /\ s[add + 1] = m[b + 1] /\ s[add + 3] = 1
        /\ \A c \in B : s[c + 3] = m[c + 3]
        /\ \A c \in B \ {b} : s[c] = m[c] /\ s[c + 1] = m[c + 1]
        /\ \A a \in Base..(Limit - 1) :
              Outside(B, a) /\ a \notin (b + 5)..(b + 4 + m[b]) => s[a] = m[a]
    <3>1. /\ s = splitBlock(m, b, n) /\ m[b] - n >= HDR + 1 /\ m[b + 1] # null
          /\ Tiled(m, hp, B) /\ b \in B /\ n \in Nat
        BY <1>1, <1>5
    <3>2. CutAt(m, hp, B, b, n, s)
        BY ONLY <3>1, Split
    <3> QED BY <3>2 DEF CutAt
  <2> HIDE DEF add
  <2>2. b \in C /\ n <= s[b]
      BY <2>1
  <2>3. /\ Tiled(t, hp, C) /\ t[b + 3] = 0
        /\ \A c \in C : t[c] = s[c] /\ t[c + 1] = s[c + 1]
        /\ \A c \in C \ {b} : t[c + 3] = s[c + 3]
        /\ \A a \in Base..(Limit - 1) :
              Outside(C, a) /\ a \notin (b + 5)..(b + 4 + s[b]) => t[a] = s[a]
    <3>1. /\ Tiled(s, hp, C) /\ b \in C /\ n \in Nat /\ n <= s[b]
          /\ t \in Cleared([s EXCEPT ![b + 3] = 0], b, n)
        BY <2>1, <2>2
    <3> HIDE DEF C
    <3> QED BY ONLY <3>1, Granted
  <2>4. Coalesced(t, C)
    <3>1. ~isFree(t, Base)
        BY <1>1, <2>1, <2>3
    <3>2. ASSUME NEW c \in C, isFree(t, c)
          PROVE  next(t, c) # null /\ ~isFree(t, next(t, c))
      <4>1. c # b
          BY <2>3, <3>2
      <4>2. CASE c = add
          BY <1>1, <1>2, <2>1, <2>3, <4>2
      <4>3. CASE c # add
        <5>1. c \in B \ {b} /\ m[c + 3] # 0 /\ t[c + 1] = m[c + 1]
            BY <2>1, <2>3, <3>2, <4>1, <4>3
        <5>2. m[c + 1] # null /\ m[c + 1] \in B /\ m[m[c + 1] + 3] = 0
            BY <1>3, <5>1
        <5> QED BY <2>1, <2>3, <5>1, <5>2
      <4> QED BY <4>2, <4>3
    <3> QED BY <3>1, <3>2 DEF Coalesced
  <2>5. ASSUME NEW a \in Base..(Limit - 1), Outside(B, a), a \notin (b + 5)..(b + 4 + m[b])
        PROVE  t[a] = m[a]
    <3>1. a \notin add..(add + 4) /\ a \notin (b + 5)..(b + 4 + n)
        BY <1>2, <1>5, <2>5 DEF HDR, Base, add
    <3>2. Outside(C, a)
        BY <2>5, <3>1 DEF Outside
    <3> QED BY <2>1, <2>3, <2>5, <3>1, <3>2
  <2>6. \A c \in B \ {b} : t[c] = m[c] /\ t[c + 3] = m[c + 3]
      BY <2>1, <2>3
  <2>7. n <= t[b]
      BY <2>1, <2>2, <2>3
  <2> QED BY <2>3, <2>4, <2>5, <2>6, <2>7
<1> QED BY <1>4, <1>5

(* The heap grows by a block at the break.                                 *)
GrownBy(m, hp, B, n, t) ==
    /\ Tiled(t, hp + HDR + n, B \cup {hp}) /\ Coalesced(t, B \cup {hp})
    /\ hp \notin B /\ t[hp] = n /\ t[hp + 3] = 0
    /\ \A c \in B : t[c] = m[c] /\ t[c + 3] = m[c + 3]
    /\ \A a \in Base..(Limit - 1) : Outside(B, a) /\ a < hp => t[a] = m[a]

LEMMA Grown ==
    ASSUME NEW m, NEW hp, NEW B, Tiled(m, hp, B), Coalesced(m, B), NEW k \in B,
           m[k + 1] = null, NEW n \in Nat, hp + HDR + n <= Limit,
           NEW s, s = [m EXCEPT ![hp] = n, ![hp + 1] = null, ![hp + 2] = k, ![hp + 4] = data(hp)],
           NEW t \in Cleared([[s EXCEPT ![k + 1] = hp] EXCEPT ![hp + 3] = 0], hp, n)
    PROVE  GrownBy(m, hp, B, n, t)
<1>1. /\ m \in Memory /\ hp \in Nat /\ hp >= Base /\ hp + 5 + n <= Limit /\ Limit \in Nat
      /\ k \in Nat /\ m[k] \in Nat /\ k + 5 + m[k] = hp /\ k >= Base
    BY InHeap, Behind DEF Tiled, HDR
<1>2. {hp, hp + 1, hp + 2, hp + 3, hp + 4, k + 1} \subseteq Base..(Limit - 1)
    BY <1>1 DEF Base
<1>3. /\ s \in Memory /\ s[hp] = n /\ s[hp + 1] = null /\ s[hp + 2] = k
      /\ \A a \in Base..(Limit - 1) : a \notin hp..(hp + 4) => s[a] = m[a]
  <2> DEFINE u == [m EXCEPT ![hp] = n, ![hp + 1] = null]
  <2>1. /\ u \in Memory /\ u[hp] = n /\ u[hp + 1] = null
        /\ \A a \in Base..(Limit - 1) : a \notin {hp, hp + 1} => u[a] = m[a]
      BY <1>1, <1>2 DEF Memory, null
  <2>2. s = [u EXCEPT ![hp + 2] = k, ![hp + 4] = data(hp)]
      OBVIOUS
  <2> HIDE DEF u
  <2>3. data(hp) \in Int /\ k \in Int /\ hp + 2 # hp + 4
        /\ hp + 2 \in Base..(Limit - 1) /\ hp + 4 \in Base..(Limit - 1)
      BY <1>1, <1>2 DEF data, HDR
  <2>4. /\ s \in Memory /\ s[hp + 2] = k
        /\ \A a \in Base..(Limit - 1) : a \notin {hp + 2, hp + 4} => s[a] = u[a]
    <3> HIDE DEF data
    <3> QED BY ONLY <2>1, <2>2, <2>3 DEF Memory
  <2>5. hp \notin {hp + 2, hp + 4} /\ hp + 1 \notin {hp + 2, hp + 4}
      BY <1>1
  <2>6. \A a \in Base..(Limit - 1) : a \notin hp..(hp + 4) => a \notin {hp, hp + 1, hp + 2, hp + 4}
      BY <1>1
  <2> QED BY <1>2, <2>1, <2>4, <2>5, <2>6
<1> DEFINE v == [[s EXCEPT ![k + 1] = hp] EXCEPT ![hp + 3] = 0]
<1>4. /\ v \in Memory /\ v[hp] = n /\ v[hp + 1] = null /\ v[hp + 2] = k
      /\ v[hp + 3] = 0 /\ v[k + 1] = hp
      /\ \A a \in Base..(Limit - 1) : a \notin hp..(hp + 4) /\ a # k + 1 => v[a] = m[a]
  <2>1. k + 1 # hp + 3 /\ hp \in Int /\ k + 1 \in Base..(Limit - 1) /\ hp + 3 \in Base..(Limit - 1)
      BY <1>1, <1>2
  <2>2. /\ v \in Memory /\ v[hp + 3] = 0 /\ v[k + 1] = hp
        /\ \A a \in Base..(Limit - 1) : a \notin {k + 1, hp + 3} => v[a] = s[a]
      BY <1>3, <2>1 DEF Memory
  <2>3. \A a \in {hp, hp + 1, hp + 2} : a \in Base..(Limit - 1) /\ a \notin {k + 1, hp + 3}
      BY <1>1, <1>2
  <2>4. v[hp] = s[hp] /\ v[hp + 1] = s[hp + 1] /\ v[hp + 2] = s[hp + 2]
      BY <2>2, <2>3
  <2>5. \A a \in Base..(Limit - 1) : a \notin hp..(hp + 4) => a # hp + 3
      BY <1>1
  <2> QED BY <1>3, <2>2, <2>4, <2>5
<1>5. t \in Cleared(v, hp, n)
    OBVIOUS
<1> HIDE DEF v
<1>6. /\ t \in Memory
      /\ \A a \in Base..(Limit - 1) : a \notin (hp + 5)..(hp + 4 + n) => t[a] = v[a]
    BY <1>1, <1>4, <1>5, ClearedWords
<1>7. /\ t[hp] = n /\ t[hp + 1] = null /\ t[hp + 2] = k /\ t[hp + 3] = 0 /\ t[k + 1] = hp
      /\ \A a \in Base..(Limit - 1) : a \notin hp..(hp + 4 + n) /\ a # k + 1 => t[a] = m[a]
    BY <1>1, <1>2, <1>4, <1>6
<1>8. /\ Tiled(t, hp + HDR + n, B \cup {hp}) /\ hp \notin B
      /\ \A c \in B : t[c] = m[c] /\ t[c + 3] = m[c + 3]
      /\ \A c \in B \ {k} : t[c + 1] = m[c + 1]
    BY <1>6, <1>7, Extended
<1>9. Coalesced(t, B \cup {hp})
  <2> USE DEF isFree, next
  <2>1. \A c \in B : m[c + 3] # 0 => m[c + 1] # null /\ m[c + 1] \in B /\ m[m[c + 1] + 3] = 0
      BY Behind DEF Coalesced
  <2>2. Base \in B /\ m[Base + 3] = 0
      BY DEF Coalesced, Tiled
  <2>3. \A c \in B \cup {hp} : t[c + 3] # 0 => c \in B \ {k} /\ m[c + 3] # 0
      BY <1>7, <1>8, <2>1
  <2> QED BY <1>8, <2>1, <2>2, <2>3 DEF Coalesced
<1>10. ASSUME NEW a \in Base..(Limit - 1), Outside(B, a), a < hp PROVE t[a] = m[a]
  <2>1. a # k + 1 /\ a \notin hp..(hp + 4 + n)
      BY <1>1, <1>10 DEF Outside, Base
  <2> QED BY <1>7, <2>1
<1> QED BY <1>7, <1>8, <1>9, <1>10 DEF GrownBy
-----------------------------------------------------------------------------
(* The data of a block are in no header and in no other block.             *)
LEMMA DataWords ==
    ASSUME NEW m, NEW hp, NEW B, Tiled(m, hp, B), NEW c \in B,
           NEW a \in (c + 5)..(c + 4 + m[c])
    PROVE  /\ a \in Base..(Limit - 1) /\ Outside(B, a) /\ a < hp
           /\ \A b \in B : b # c => a \notin (b + 5)..(b + 4 + m[b])
<1>1. c \in Nat /\ m[c] \in Nat /\ hp \in Nat /\ c + 5 + m[c] <= hp
    BY InHeap
<1>2. a \in Base..(Limit - 1) /\ a < hp
  <2>1. a \in c..(c + 4 + m[c])
      BY <1>1
  <2> QED BY <1>1, <2>1, InHeap
<1>3. ASSUME NEW b \in B
      PROVE  a \notin b..(b + 4) /\ (b # c => a \notin (b + 5)..(b + 4 + m[b]))
  <2>1. b \in Nat /\ m[b] \in Nat
      BY InHeap
  <2>2. b # c => b + 5 + m[b] <= c \/ c + 5 + m[c] <= b
      BY Apart
  <2> QED BY <1>1, <2>1, <2>2
<1> QED BY <1>2, <1>3 DEF Outside

(* What t keeps of m: the blocks in use but those of X, and their data.    *)
Keeps(m, B, X, t, C) ==
    \A c \in B \ X : m[c + 3] = 0 =>
        /\ c \in C /\ t[c + 3] = 0 /\ m[c] <= t[c]
        /\ \A a \in (c + 5)..(c + 4 + m[c]) : t[a] = m[a]

LEMMA KeepsThen ==
    ASSUME NEW m, NEW B, NEW X, NEW u, NEW C, Keeps(m, B, X, u, C), C \subseteq B,
           NEW t, NEW D, Keeps(u, C, {}, t, D),
           \A c \in B : m[c] \in Int /\ c \in Int,
           \A c \in C : u[c] \in Int, \A c \in D : t[c] \in Int
    PROVE  Keeps(m, B, X, t, D)
<1> SUFFICES ASSUME NEW c \in B \ X, m[c + 3] = 0
             PROVE  /\ c \in D /\ t[c + 3] = 0 /\ m[c] <= t[c]
                    /\ \A a \in (c + 5)..(c + 4 + m[c]) : t[a] = m[a]
    BY DEF Keeps
<1>1. /\ c \in C /\ u[c + 3] = 0 /\ m[c] <= u[c]
      /\ \A a \in (c + 5)..(c + 4 + m[c]) : u[a] = m[a]
    BY DEF Keeps
<1>2. /\ c \in D /\ t[c + 3] = 0 /\ u[c] <= t[c]
      /\ \A a \in (c + 5)..(c + 4 + u[c]) : t[a] = u[a]
    BY <1>1 DEF Keeps
<1>3. m[c] \in Int /\ u[c] \in Int /\ t[c] \in Int /\ c \in Int
    BY <1>1, <1>2
<1>4. \A a \in (c + 5)..(c + 4 + m[c]) : a \in (c + 5)..(c + 4 + u[c])
    BY <1>1, <1>3
<1>5. m[c] <= t[c]
    BY <1>1, <1>2, <1>3
<1> QED BY <1>1, <1>2, <1>4, <1>5

(* Block k of B is free, the one before it is in use, and every other free *)
(* block has one in use behind it.                                         *)
LoneFree(m, B, k) ==
    /\ m[Base + 3] = 0 /\ k \in B \ {Base} /\ m[k + 3] # 0
    /\ m[m[k + 2] + 3] = 0
    /\ \A c \in B \ {k} : m[c + 3] # 0 => m[c + 1] # null /\ m[m[c + 1] + 3] = 0

(* free, up to where it has merged the block with the one before.          *)
LEMMA MergedBack ==
    ASSUME NEW m, NEW hp, NEW B, Tiled(m, hp, B), Coalesced(m, B),
           NEW b \in B \ {Base}, m[b + 3] = 0,
           NEW m0, m0 = [m EXCEPT ![b + 3] = 1],
           NEW k, k = merged(m0, b),
           NEW m1, m1 = IF freeBefore(m0, b) THEN fusion(m0, k) ELSE m0
    PROVE  \E C \in SUBSET B : /\ Tiled(m1, hp, C) /\ LoneFree(m1, C, k)
                               /\ Keeps(m, B, {b}, m1, C)
<1>1. /\ Tiled(m0, hp, B) /\ m0[b + 3] = 1
      /\ \A c \in B : m0[c] = m[c] /\ m0[c + 1] = m[c + 1] /\ m0[c + 2] = m[c + 2]
      /\ \A c \in B \ {b} : m0[c + 3] = m[c + 3]
      /\ \A a \in Base..(Limit - 1) : Outside(B, a) => m0[a] = m[a]
  <2>1. Tiled(m, hp, B) /\ b \in B /\ 1 \in Int /\ m0 = [m EXCEPT ![b + 3] = 1]
      OBVIOUS
  <2>2. FlaggedAt(m, hp, B, b, 1, m0)
      BY ONLY <2>1, Flagged
  <2> QED BY <2>2 DEF FlaggedAt
<1>2. /\ Base \in B /\ m[Base + 3] = 0
      /\ \A c \in B : m[c + 3] # 0 => m[c + 1] # null /\ m[c + 1] \in B /\ m[m[c + 1] + 3] = 0
                                      /\ m[m[c + 1] + 2] = c
  <2>1. Base \in B
      BY DEF Tiled
  <2>2. /\ m[Base + 3] = 0
        /\ \A c \in B : m[c + 3] # 0 => m[c + 1] # null /\ m[m[c + 1] + 3] = 0
      BY DEF Coalesced, isFree, next
  <2>3. \A c \in B : m[c + 1] # null => m[c + 1] \in B /\ m[m[c + 1] + 2] = c
      BY Behind
  <2> QED BY <2>1, <2>2, <2>3
<1> DEFINE p == m[b + 2]
<1>3. p \in B /\ m[p + 1] = b /\ p # b /\ p # null /\ m0[b + 2] = p
  <2>1. p \in B /\ m[p + 1] = b /\ b = p + 5 + m[p]
      BY Before
  <2> QED BY <1>1, <2>1, InHeap
<1>4. \A c \in B :
         /\ m[c] \in Nat
         /\ \A a \in (c + 5)..(c + 4 + m[c]) :
                           a \in Base..(Limit - 1) /\ Outside(B, a)
    BY InHeap, DataWords
<1>5. /\ k = IF m0[p + 3] # 0 THEN p ELSE b
      /\ freeBefore(m0, b) <=> m0[p + 3] # 0
    BY <1>3 DEF merged, freeBefore, prev, isFree
<1> HIDE DEF p
<1>6. CASE m0[p + 3] = 0
  <2>1. m1 = m0 /\ k = b
      BY <1>5, <1>6
  <2>2. LoneFree(m0, B, b)
    <3>1. ASSUME NEW c \in B \ {b}, m0[c + 3] # 0
          PROVE  m0[c + 1] # null /\ m0[m0[c + 1] + 3] = 0
      <4>1. m[c + 1] # null /\ m[c + 1] \in B /\ m[m[c + 1] + 3] = 0 /\ m[m[c + 1] + 2] = c
          BY <1>1, <1>2, <3>1
      <4>2. m[c + 1] # b
          BY <1>1, <1>6, <3>1, <4>1 DEF p
      <4> QED BY <1>1, <4>1, <4>2
    <3> QED BY <1>1, <1>2, <1>3, <1>6, <3>1 DEF LoneFree
  <2>3. Keeps(m, B, {b}, m0, B)
      BY <1>1, <1>4 DEF Keeps
  <2> QED BY <1>1, <2>1, <2>2, <2>3
<1>7. CASE m0[p + 3] # 0
  <2>1. k = p /\ m[k + 3] # 0 /\ k # Base
      BY <1>1, <1>2, <1>3, <1>5, <1>7
  <2>2. m1 = swallowed(m0, k) /\ m0[k + 1] = b /\ m0[k + 1] # null
    <3>1. m0[k + 1] = b /\ b # null
        BY <1>1, <1>3, <2>1, InHeap
    <3>2. m1 = fusion(m0, k)
        BY <1>5, <1>7
    <3>3. next(m0, k) = b /\ isFree(m0, b)
        BY <1>1, <3>1 DEF isFree, next
    <3>4. fusion(m0, k) = swallowed(m0, k)
        BY ONLY <3>1, <3>3 DEF fusion, swallowed, next
    <3> QED BY <3>1, <3>2, <3>4
  <2> DEFINE C == B \ {b}
  <2>3. /\ Tiled(m1, hp, C)
        /\ \A c \in C : m1[c + 3] = m0[c + 3] /\ m1[c] >= m0[c]
        /\ \A c \in B \ {b, k} : m1[c + 1] = m0[c + 1]
        /\ m1[k + 2] = m0[k + 2]
        /\ \A a \in Base..(Limit - 1) : Outside(B, a) => m1[a] = m0[a]
    <3>1. Tiled(m0, hp, B) /\ k \in B /\ m0[k + 1] # null /\ m1 = swallowed(m0, k)
        BY <1>1, <1>3, <2>1, <2>2
    <3>2. SwallowedAt(m0, hp, B, k, m1)
        BY ONLY <3>1, Swallowed
    <3> QED BY <2>2, <3>2 DEF SwallowedAt
  <2>4. m[k + 2] \in B /\ m[k + 2] # b /\ m[m[k + 2] + 3] = 0
    <3>1. m[k + 2] \in B /\ m[m[k + 2] + 1] = k
        BY <1>3, <2>1, Before
    <3>2. b = k + 5 + m[k] /\ k = m[k + 2] + 5 + m[m[k + 2]]
        BY <1>3, <2>1, Before DEF p
    <3>3. m[k + 2] # b
        BY <1>3, <2>1, <3>1, <3>2, InHeap
    <3> QED BY <1>2, <2>1, <3>1, <3>3
  <2>5. LoneFree(m1, C, k)
    <3>0. \A c \in B : c # b => m1[c + 3] = m[c + 3]
        BY <1>1, <2>3
    <3>1. ASSUME NEW c \in C \ {k}, m1[c + 3] # 0
          PROVE  m1[c + 1] # null /\ m1[m1[c + 1] + 3] = 0
      <4>1. m[c + 3] # 0 /\ m1[c + 1] = m[c + 1]
          BY <1>1, <2>3, <3>1
      <4>2. m[c + 1] # null /\ m[c + 1] \in B /\ m[m[c + 1] + 3] = 0 /\ m[m[c + 1] + 2] = c
          BY <1>2, <4>1
      <4>3. m[c + 1] # b
          BY <2>1, <3>1, <4>2 DEF p
      <4> QED BY <3>0, <4>1, <4>2, <4>3
    <3>2. m1[Base + 3] = 0 /\ k \in C \ {Base} /\ m1[k + 3] # 0
        BY <1>2, <1>3, <2>1, <3>0
    <3>3. m1[m1[k + 2] + 3] = 0
      <4>1. k \in B /\ m0[k + 2] = m[k + 2]
          BY <1>1, <1>3, <2>1
      <4>2. m1[k + 2] = m[k + 2]
          BY <2>3, <4>1
      <4> QED BY <2>4, <3>0, <4>2
    <3> QED BY <3>1, <3>2, <3>3 DEF LoneFree
  <2>6. Keeps(m, B, {b}, m1, C)
      BY <1>1, <1>4, <2>3 DEF Keeps
  <2> QED BY <2>3, <2>5, <2>6
<1> QED BY <1>6, <1>7

(* free, the rest: the free block swallows the next, or goes back to the   *)
(* break.                                                                  *)
LEMMA MergedOn ==
    ASSUME NEW m, NEW hp, NEW B, Tiled(m, hp, B), NEW k, LoneFree(m, B, k),
           NEW t, t = IF next(m, k) # null THEN fusion(m, k)
                      ELSE [m EXCEPT ![prev(m, k) + 1] = null]
    PROVE  \E C \in SUBSET B : /\ Tiled(t, IF next(m, k) # null THEN hp ELSE k, C)
                               /\ Coalesced(t, C) /\ Keeps(m, B, {}, t, C)
<1> USE DEF next, prev, isFree
<1> DEFINE n == m[k + 1]
<1>1. /\ m[Base + 3] = 0 /\ k \in B \ {Base} /\ k \in B /\ m[k + 3] # 0
      /\ m[m[k + 2] + 3] = 0 /\ Base \in B
      /\ \A c \in B \ {k} : m[c + 3] # 0 => m[c + 1] # null /\ m[m[c + 1] + 3] = 0
    BY DEF LoneFree, Tiled
<1>2. \A c \in B :
         /\ m[c] \in Nat /\ (m[c + 1] # null => m[c + 1] \in B)
         /\ \A a \in (c + 5)..(c + 4 + m[c]) :
                           a \in Base..(Limit - 1) /\ Outside(B, a)
    BY InHeap, Behind, DataWords
<1>3. CASE n # null /\ m[n + 3] # 0
  <2> DEFINE C == B \ {n}
  <2>1. t = swallowed(m, k)
      BY <1>3 DEF fusion, swallowed
  <2>2. /\ Tiled(t, hp, C) /\ n \in B /\ n # k
        /\ t[k + 1] = m[n + 1]
        /\ \A c \in C : t[c + 3] = m[c + 3] /\ t[c] >= m[c]
        /\ \A c \in B \ {n, k} : t[c + 1] = m[c + 1]
        /\ \A a \in Base..(Limit - 1) : Outside(B, a) => t[a] = m[a]
    <3>1. Tiled(m, hp, B) /\ k \in B /\ m[k + 1] # null /\ t = swallowed(m, k)
        BY <1>1, <1>3, <2>1
    <3>2. SwallowedAt(m, hp, B, k, t)
        BY ONLY <3>1, Swallowed
    <3> QED BY <3>2 DEF SwallowedAt
  <2>3. m[n + 1] # null /\ m[m[n + 1] + 3] = 0 /\ m[n + 1] \in C
      BY <1>1, <1>2, <1>3, <2>2
  <2> HIDE DEF n
  <2>4. Coalesced(t, C)
    <3>1. \A c \in C \ {k} : t[c + 3] # 0 =>
              t[c + 1] # null /\ t[c + 1] \in C /\ m[t[c + 1] + 3] = 0
        BY <1>1, <1>2, <1>3, <2>2
    <3>2. Base \in C /\ t[Base + 3] = 0
        BY <1>1, <1>3, <2>2
    <3> QED BY <2>2, <2>3, <3>1, <3>2 DEF Coalesced
  <2>5. Keeps(m, B, {}, t, C)
      BY <1>2, <1>3, <2>2 DEF Keeps
  <2> QED BY <1>3, <2>2, <2>4, <2>5 DEF n
<1>4. CASE n # null /\ m[n + 3] = 0
  <2>1. t = m
      BY <1>4 DEF fusion
  <2>2. Coalesced(t, B)
      BY <1>1, <1>4, <2>1 DEF Coalesced
  <2>3. Keeps(m, B, {}, t, B)
      BY <1>2, <2>1 DEF Keeps
  <2> QED BY <1>4, <2>1, <2>2, <2>3
<1>5. CASE n = null
  <2> DEFINE C == B \ {k}
  <2>1. t = [m EXCEPT ![m[k + 2] + 1] = null]
      BY <1>5
  <2>2. /\ Tiled(t, k, C) /\ m[k + 2] \in C
        /\ \A c \in B : t[c] = m[c] /\ t[c + 3] = m[c + 3]
        /\ \A c \in B \ {m[k + 2]} : t[c + 1] = m[c + 1]
        /\ \A a \in Base..(Limit - 1) : Outside(B, a) => t[a] = m[a]
    <3>1. /\ Tiled(m, hp, B) /\ k \in B \ {Base} /\ m[k + 1] = null
          /\ t = [m EXCEPT ![m[k + 2] + 1] = null]
        BY <1>1, <1>5, <2>1
    <3>2. GivenBackAt(m, B, k, t)
        BY ONLY <3>1, GivenBack
    <3> QED BY <3>2 DEF GivenBackAt
  <2>3. Coalesced(t, C)
    <3>1. ASSUME NEW c \in C, t[c + 3] # 0 PROVE t[c + 1] # null /\ t[t[c + 1] + 3] = 0
      <4>1. m[c + 3] # 0 /\ c # m[k + 2] /\ t[c + 1] = m[c + 1]
          BY <1>1, <2>2, <3>1
      <4>2. m[c + 1] # null /\ m[m[c + 1] + 3] = 0 /\ m[c + 1] \in B
          BY <1>1, <1>2, <3>1, <4>1
      <4> QED BY <2>2, <4>1, <4>2
    <3> QED BY <1>1, <2>2, <3>1 DEF Coalesced
  <2>4. Keeps(m, B, {}, t, C)
      BY <1>1, <1>2, <2>2 DEF Keeps
  <2> QED BY <1>5, <2>2, <2>3, <2>4
<1> QED BY <1>3, <1>4, <1>5
-----------------------------------------------------------------------------
(* Records backed by different blocks share no word.                       *)
LEMMA Disjoint ==
    ASSUME NEW m, NEW hp, NEW B, Tiled(m, hp, B), NEW R, Backed(m, B, R),
           NEW r \in R, NEW o \in R, getBlock(r.at) # getBlock(o.at),
           r.at \in Int, r.len \in Nat, o.at \in Int, o.len \in Nat
    PROVE  words(r) \cap words(o) = {}
<1> DEFINE b == getBlock(r.at)
           c == getBlock(o.at)
<1>1. /\ b \in B /\ r.len <= m[b] /\ r.at = b + 5 /\ b \in Nat /\ m[b] \in Nat
      /\ c \in B /\ o.len <= m[c] /\ o.at = c + 5 /\ c \in Nat /\ m[c] \in Nat
  <2>1. b \in B /\ r.len <= m[b] /\ c \in B /\ o.len <= m[c]
      BY DEF Backed, size
  <2> QED BY <2>1, InHeap DEF getBlock, HDR
<1>2. b + 5 + m[b] <= c \/ c + 5 + m[c] <= b
    BY <1>1, Apart
<1> QED BY <1>1, <1>2 DEF words

(* Clients keep their blocks when the heap keeps them.                     *)
LEMMA StillBacked ==
    ASSUME NEW m, NEW hp, NEW B, Tiled(m, hp, B), NEW R, Backed(m, B, R),
           NEW X, NEW t, NEW C, Keeps(m, B, X, t, C), NEW hq, Tiled(t, hq, C),
           NEW S \in SUBSET R, \A o \in S : getBlock(o.at) \notin X,
           \A o \in S : o.at \in Int /\ o.len \in Nat
    PROVE  /\ Backed(t, C, S)
           /\ \A o \in S : \A a \in words(o) : t[a] = m[a]
<1> SUFFICES ASSUME NEW o \in S
             PROVE  /\ /\ getBlock(o.at) \in C /\ ~isFree(t, getBlock(o.at))
                       /\ o.len <= size(t, getBlock(o.at))
                    /\ \A a \in words(o) : t[a] = m[a]
    BY DEF Backed
<1> DEFINE c == getBlock(o.at)
<1>1. c \in B \ X /\ m[c + 3] = 0 /\ o.len <= m[c]
    BY DEF Backed, isFree, size
<1>2. c \in C /\ t[c + 3] = 0 /\ m[c] <= t[c] /\ \A a \in (c + 5)..(c + 4 + m[c]) : t[a] = m[a]
    BY <1>1 DEF Keeps
<1>3. c \in Nat /\ m[c] \in Nat /\ t[c] \in Nat /\ o.at = c + 5 /\ o.len \in Nat
    BY <1>1, <1>2, InHeap DEF getBlock, HDR
<1>4. \A a \in words(o) : a \in (c + 5)..(c + 4 + m[c])
    BY <1>1, <1>3 DEF words
<1>5. o.len <= t[c]
    BY <1>1, <1>2, <1>3
<1> QED BY <1>2, <1>4, <1>5 DEF isFree, size

(* The end of malloc: block b of C goes to the client.                     *)
Fresh(b, n) == LET r == [at |-> data(b), len |-> n]
               IN  \A o \in live \cup lost :
                      o.at # r.at /\ words(o) \cap words(r) = {}

LEMMA Answered ==
    ASSUME HInv, NEW n \in req, NEW b, granted(b, n), lost' = lost,
           last_visited' = last_visited, head' = Base,
           NEW C, Tiled(mem', heap_ptr', C), Coalesced(mem', C),
           Backed(mem', C, live \cup lost),
           b \in C, mem'[b + 3] = 0, n <= mem'[b],
           \A o \in live \cup lost : getBlock(o.at) # b
    PROVE  HInv' /\ Fresh(b, n)
<1> DEFINE r == [at |-> data(b), len |-> n]
           R == live \cup lost
<1>1. live' = live \cup {r} /\ req' = {} /\ it' = null
    BY DEF granted
<1>2. n \in Sizes /\ n \in Nat /\ HeapTypeOK
    BY HeapAssumption DEF HInv, HeapTypeOK
<1>3. b \in Nat /\ data(b) \in data(Base)..Limit /\ getBlock(data(b)) = b /\ null \in 0..(Limit - 1)
  <2>1. b \in Nat
      BY InHeap
  <2> QED BY <2>1, Placed DEF getBlock, data, HDR
<1>4. \A o \in R : o.at \in Int /\ o.len \in Nat
    BY Held
<1>5. r.at = data(b) /\ r.len = n /\ getBlock(r.at) = b
    BY <1>3
<1> HIDE DEF r
<1>6. Backed(mem', C, R \cup {r})
    BY <1>5 DEF Backed, isFree, size
<1>7. \A o \in R : o.at # r.at
    BY <1>5
<1>8. \A o \in R : words(o) \cap words(r) = {}
  <2> SUFFICES ASSUME NEW o \in R PROVE words(o) \cap words(r) = {}
      OBVIOUS
  <2>1. /\ o \in R \cup {r} /\ r \in R \cup {r} /\ getBlock(o.at) # getBlock(r.at)
        /\ r.at \in Int /\ r.len \in Nat /\ o.at \in Int /\ o.len \in Nat
      BY <1>2, <1>3, <1>4, <1>5 DEF data, HDR
  <2> HIDE DEF R
  <2> QED BY <1>6, <2>1, Disjoint
<1>9. InUse(Blocks)'
  <2>1. live' \cup lost' = R \cup {r}
      BY <1>1
  <2> QED BY <1>1, <1>6, <2>1, InUseThen
<1>10. HeapTypeOK'
  <2>1. mem' \in Memory /\ heap_ptr' \in Base..Limit
      BY DEF Tiled
  <2>2. \A o \in live' \cup lost' : o.at \in data(Base)..Limit /\ o.len \in Sizes
      BY <1>1, <1>2, <1>3, <1>5 DEF HeapTypeOK
  <2>3. {last_visited', it'} \subseteq 0..(Limit - 1)
      BY <1>1, <1>2, <1>3 DEF HeapTypeOK
  <2> QED BY <1>1, <2>1, <2>2, <2>3 DEF HeapTypeOK, Memory, data
<1>11. HeldOnce(live', lost')
  <2>1. HeldOnce(live, lost)
      BY DEF HInv
  <2>2. r \notin lost
      BY <1>7
  <2> QED BY <1>1, <1>7, <2>1, <2>2 DEF HeldOnce
<1>12. HInv'
    BY <1>1, <1>9, <1>10, <1>11 DEF HInv, HeldOnce
<1>13. Fresh(b, n)
    BY <1>7, <1>8 DEF Fresh, r
<1> QED BY <1>12, <1>13

(* malloc uses a block again.                                              *)
LEMMA ReuseHInv ==
    ASSUME HInv, NEW n \in req, MallocReuse(n)
    PROVE  /\ HInv' /\ Fresh(it, n)
           /\ \A o \in live : \A a \in words(o) : mem'[a] = mem[a]
<1> DEFINE R == live \cup lost
           s == IF mem[it] - n >= HDR + 1 THEN splitBlock(mem, it, n) ELSE mem
<1>1. /\ it # null /\ mem[it + 3] # 0 /\ n <= mem[it]
      /\ mem' \in Cleared([s EXCEPT ![it + 3] = 0], it, n)
      /\ granted(it, n) /\ heap_ptr' = heap_ptr /\ head' = head
      /\ last_visited' = last_visited /\ lost' = lost
  <2>1. it # null /\ mem[it + 3] # 0 /\ mem[it] >= n
      BY DEF MallocReuse, fits, isFree, size
  <2>2. mem' \in Cleared([s EXCEPT ![it + 3] = 0], it, n)
      BY DEF MallocReuse, roomy, size
  <2>3. mem[it] \in Int /\ n \in Int
    <3>1. InUse(Blocks) /\ it \in Blocks
        BY <2>1 DEF HInv, Unused, InUse, AtBlock
    <3> QED BY <3>1, InHeap, HeapAssumption DEF InUse, HInv, HeapTypeOK
  <2> QED BY <2>1, <2>2, <2>3 DEF MallocReuse
<1>2. InUse(Blocks) /\ it \in Blocks /\ n \in Nat
    BY <1>1, HeapAssumption DEF HInv, HeapTypeOK, Unused, InUse, AtBlock
<1>3. /\ head = Base /\ Tiled(mem, heap_ptr, Blocks) /\ Coalesced(mem, Blocks)
      /\ Backed(mem, Blocks, R)
    BY <1>2 DEF InUse
<1> HIDE DEF s
<1>4. PICK C :
         /\ Tiled(mem', heap_ptr, C) /\ Coalesced(mem', C) /\ Blocks \subseteq C
         /\ mem'[it + 3] = 0 /\ n <= mem'[it]
         /\ \A c \in Blocks \ {it} : mem'[c] = mem[c] /\ mem'[c + 3] = mem[c + 3]
         /\ \A a \in Base..(Limit - 1) :
               Outside(Blocks, a) /\ a \notin (it + 5)..(it + 4 + mem[it]) => mem'[a] = mem[a]
  <2>1. s = IF mem[it] - n >= HDR + 1 THEN splitBlock(mem, it, n) ELSE mem
      BY DEF s
  <2> QED BY <1>1, <1>2, <1>3, <2>1, Reused
<1>5. Keeps(mem, Blocks, {}, mem', C)
  <2> SUFFICES ASSUME NEW c \in Blocks, mem[c + 3] = 0
               PROVE  /\ c \in C /\ mem'[c + 3] = 0 /\ mem[c] <= mem'[c]
                      /\ \A a \in (c + 5)..(c + 4 + mem[c]) : mem'[a] = mem[a]
      BY DEF Keeps
  <2>1. c # it /\ mem[c] \in Nat
      BY <1>1, <1>3, InHeap
  <2>2. \A a \in (c + 5)..(c + 4 + mem[c]) :
            /\ a \in Base..(Limit - 1) /\ Outside(Blocks, a)
            /\ a \notin (it + 5)..(it + 4 + mem[it])
      BY <1>2, <1>3, <2>1, DataWords
  <2> QED BY <1>4, <2>1, <2>2
<1>6. \A o \in R : o.at \in Int /\ o.len \in Nat /\ getBlock(o.at) # it
    BY <1>1, <1>3, Held DEF Backed, isFree
<1>7. Backed(mem', C, R) /\ \A o \in R : \A a \in words(o) : mem'[a] = mem[a]
  <2>1. /\ Tiled(mem, heap_ptr, Blocks) /\ Backed(mem, Blocks, R) /\ R \in SUBSET R
        /\ Keeps(mem, Blocks, {}, mem', C) /\ Tiled(mem', heap_ptr, C)
        /\ \A o \in R : getBlock(o.at) \notin {} /\ o.at \in Int /\ o.len \in Nat
      BY <1>3, <1>4, <1>5, <1>6
  <2> HIDE DEF R
  <2> QED BY ONLY <2>1, StillBacked
<1>8. HInv' /\ Fresh(it, n)
    BY <1>1, <1>2, <1>3, <1>4, <1>6, <1>7, Answered
<1> QED BY <1>7, <1>8
(* malloc asks sbrk for more: the first block, or one behind the last.     *)
LEMMA FirstHInv ==
    ASSUME HInv, Unused, NEW n \in req, MallocExtend(n)
    PROVE  HInv' /\ Fresh(heap_ptr, n)
<1> DEFINE s == [mem EXCEPT ![Base] = n, ![Base + 1] = null, ![Base + 2] = null,
                            ![Base + 4] = data(Base)]
           v == [s EXCEPT ![Base + 3] = 0]
<1>1. /\ heap_ptr = Base /\ head' = Base /\ granted(Base, n) /\ lost' = lost
      /\ last_visited' = last_visited /\ heap_ptr' = Base + HDR + n
      /\ live \cup lost = {}
      /\ mem' \in Cleared(v, Base, n)
    BY DEF MallocExtend, Unused
<1>2. /\ n \in Nat /\ Base = 1 /\ Limit \in Nat /\ Base + 5 + n <= Limit /\ mem \in Memory
  <2>1. n \in Sizes /\ Base + HDR + n <= Limit /\ mem \in Memory
      BY <1>1 DEF HInv, HeapTypeOK, Memory
  <2> QED BY <2>1, HeapAssumption DEF Base, Limit, HDR
<1>3. {Base, Base + 1, Base + 2, Base + 3, Base + 4} \subseteq Base..(Limit - 1)
    BY <1>2
<1>4. s \in Memory /\ s[Base] = n /\ s[Base + 1] = null /\ s[Base + 2] = null
  <2>1. data(Base) \in Int /\ null \in Int /\ n \in Int
      BY <1>2 DEF data, HDR, null
  <2>2. /\ Base # Base + 1 /\ Base # Base + 2 /\ Base # Base + 4
        /\ Base + 1 # Base + 2 /\ Base + 1 # Base + 4 /\ Base + 2 # Base + 4
      BY <1>2
  <2> HIDE DEF data
  <2> QED BY <1>2, <1>3, <2>1, <2>2 DEF Memory
<1>5. v \in Memory /\ v[Base] = n /\ v[Base + 1] = null /\ v[Base + 2] = null /\ v[Base + 3] = 0
  <2>1. Base # Base + 3 /\ Base + 1 # Base + 3 /\ Base + 2 # Base + 3
      BY <1>2
  <2> HIDE DEF s
  <2> QED BY <1>3, <1>4, <2>1 DEF Memory
<1> HIDE DEF v
<1>6. /\ mem' \in Memory
      /\ \A a \in Base..(Limit - 1) : a \notin (Base + 5)..(Base + 4 + n) => mem'[a] = v[a]
  <2>1. Base \in Nat
      BY <1>2
  <2> QED BY <1>1, <1>2, <1>5, <2>1, ClearedWords
<1>7. mem'[Base] = n /\ mem'[Base + 1] = null /\ mem'[Base + 2] = null /\ mem'[Base + 3] = 0
  <2>1. \A a \in {Base, Base + 1, Base + 2, Base + 3} : a \notin (Base + 5)..(Base + 4 + n)
      BY <1>2
  <2> QED BY <1>3, <1>5, <1>6, <2>1
<1>8. Tiled(mem', heap_ptr', {Base})
  <2>1. Base + HDR + n <= Limit
      BY <1>2 DEF HDR
  <2> QED BY <1>1, <1>2, <1>6, <1>7, <2>1, FirstBlock
<1>9. Coalesced(mem', {Base})
    BY <1>7 DEF Coalesced, isFree
<1>10. /\ Backed(mem', {Base}, live \cup lost) /\ Base \in {Base} /\ n <= mem'[Base]
       /\ \A o \in live \cup lost : getBlock(o.at) # Base
    BY <1>1, <1>2, <1>7 DEF Backed
<1> QED BY <1>1, <1>7, <1>8, <1>9, <1>10, Answered

LEMMA ExtendHInv ==
    ASSUME HInv, NEW n \in req, MallocExtend(n)
    PROVE  /\ HInv' /\ Fresh(heap_ptr, n)
           /\ \A o \in live : \A a \in words(o) : mem'[a] = mem[a]
<1> DEFINE R == live \cup lost
           k == last_visited
           hp == heap_ptr
           B == Blocks
           s == [mem EXCEPT ![hp] = n, ![hp + 1] = null, ![hp + 2] = k, ![hp + 4] = data(hp)]
<1>1. CASE Unused
    BY <1>1, FirstHInv DEF Unused
<1>2. CASE InUse(Blocks)
  <2>1. /\ head = Base /\ Tiled(mem, hp, B) /\ Coalesced(mem, B) /\ Backed(mem, B, R)
        /\ k \in B /\ mem[k + 1] = null
    <3>1. it = null /\ req # {}
        BY DEF MallocExtend
    <3> QED BY <1>2, <3>1 DEF InUse, AtBlock, next
  <2>2. n \in Nat /\ hp + HDR + n <= Limit
      BY HeapAssumption DEF HInv, HeapTypeOK
  <2>3. k # null /\ head # null
    <3> HIDE DEF B, k
    <3>1. k # null
        BY <2>1, InHeap
    <3> QED BY <2>1, <3>1 DEF Base, null
  <2>4. /\ mem' \in Cleared([[s EXCEPT ![k + 1] = hp] EXCEPT ![hp + 3] = 0], hp, n)
        /\ head' = Base /\ granted(hp, n) /\ heap_ptr' = hp + HDR + n
        /\ last_visited' = last_visited /\ lost' = lost
      BY <2>1, <2>3 DEF MallocExtend
  <2> DEFINE C == B \cup {hp}
             hq == hp + HDR + n
  <2>5. /\ Tiled(mem', hq, C) /\ Coalesced(mem', C)
        /\ hp \notin B /\ mem'[hp] = n /\ mem'[hp + 3] = 0
        /\ \A c \in B : mem'[c] = mem[c] /\ mem'[c + 3] = mem[c + 3]
        /\ \A a \in Base..(Limit - 1) : Outside(B, a) /\ a < hp => mem'[a] = mem[a]
    <3>1. s = [mem EXCEPT ![hp] = n, ![hp + 1] = null, ![hp + 2] = k, ![hp + 4] = data(hp)]
        OBVIOUS
    <3>2. /\ Tiled(mem, hp, B) /\ Coalesced(mem, B) /\ k \in B /\ mem[k + 1] = null
          /\ n \in Nat /\ hp + HDR + n <= Limit
          /\ mem' \in Cleared([[s EXCEPT ![k + 1] = hp] EXCEPT ![hp + 3] = 0], hp, n)
        BY <2>1, <2>2, <2>4
    <3>3. GrownBy(mem, hp, B, n, mem')
      <4> HIDE DEF s, B, k, hp
      <4> QED BY ONLY <3>1, <3>2, Grown
    <3> QED BY <3>3 DEF GrownBy
  <2>6. Keeps(mem, B, {}, mem', C)
    <3>1. \A c \in B :
             /\ mem[c] \in Nat
             /\ \A a \in (c + 5)..(c + 4 + mem[c]) :
                             a \in Base..(Limit - 1) /\ Outside(B, a) /\ a < hp
        BY <2>1, InHeap, DataWords
    <3> QED BY <2>5, <3>1 DEF Keeps
  <2>7. \A o \in R : o.at \in Int /\ o.len \in Nat /\ getBlock(o.at) # hp
      BY <2>1, <2>5, Held DEF Backed
  <2>8. Backed(mem', C, R) /\ \A o \in R : \A a \in words(o) : mem'[a] = mem[a]
    <3>1. /\ Tiled(mem, hp, B) /\ Backed(mem, B, R) /\ R \in SUBSET R
          /\ Keeps(mem, B, {}, mem', C) /\ Tiled(mem', hq, C)
          /\ \A o \in R : getBlock(o.at) \notin {} /\ o.at \in Int /\ o.len \in Nat
        BY <2>1, <2>5, <2>6, <2>7
    <3> HIDE DEF R, B, C, hp, hq
    <3> QED BY ONLY <3>1, StillBacked
  <2>9. hp \in C /\ n <= mem'[hp]
      BY <2>2, <2>5
  <2>10. HInv' /\ Fresh(hp, n)
    <3>1. Tiled(mem', heap_ptr', C)
        BY <2>4, <2>5
    <3> HIDE DEF C, hq
    <3> QED BY <2>4, <2>5, <2>7, <2>8, <2>9, <3>1, Answered
  <2> QED BY <2>8, <2>10
<1> QED BY <1>1, <1>2 DEF HInv
-----------------------------------------------------------------------------
(* free of a block that is known, and is not the first.                    *)
LEMMA FreedHeap ==
    ASSUME HInv, Anchored, NEW r \in live, Free(r), validAddr(r.at)
    PROVE  \E C : /\ head' = Base /\ Tiled(mem', heap_ptr', C) /\ Coalesced(mem', C)
                  /\ Keeps(mem, Blocks, {getBlock(r.at)}, mem', C)
<1> DEFINE b  == getBlock(r.at)
           m0 == [mem EXCEPT ![b + 3] = 1]
           k  == merged(m0, b)
           m1 == IF freeBefore(m0, b) THEN fusion(m0, k) ELSE m0
           B  == Blocks
           t  == IF next(m1, k) # null THEN fusion(m1, k)
                 ELSE [m1 EXCEPT ![prev(m1, k) + 1] = null]
           hq == IF next(m1, k) # null THEN heap_ptr ELSE k
<1>1. /\ head = Base /\ Tiled(mem, heap_ptr, B) /\ Coalesced(mem, B)
      /\ Backed(mem, B, live \cup lost)
    BY Held DEF InUse
<1>2. b \in B \ {Base} /\ mem[b + 3] = 0
  <2>1. b \in B /\ mem[b + 3] = 0
      BY <1>1 DEF Backed, isFree
  <2>2. r.at \in Int /\ r.at # data(Base)
      BY Held DEF Free
  <2> QED BY <2>1, <2>2 DEF getBlock, data, Base, HDR
<1>3. \E C \in SUBSET B : /\ Tiled(m1, heap_ptr, C) /\ LoneFree(m1, C, k)
                          /\ Keeps(mem, B, {b}, m1, C)
  <2>1. /\ Tiled(mem, heap_ptr, B) /\ Coalesced(mem, B) /\ b \in B \ {Base} /\ mem[b + 3] = 0
        /\ m0 = [mem EXCEPT ![b + 3] = 1] /\ k = merged(m0, b)
        /\ m1 = IF freeBefore(m0, b) THEN fusion(m0, k) ELSE m0
      BY <1>1, <1>2
  <2> HIDE DEF b, m0, k, m1, B
  <2> QED BY ONLY <2>1, MergedBack
<1>4. /\ next(m1, k) # null =>
            mem' = fusion(m1, k) /\ heap_ptr' = heap_ptr /\ head' = head
      /\ next(m1, k) = null /\ prev(m1, k) # null =>
            /\ mem' = [m1 EXCEPT ![prev(m1, k) + 1] = null]
            /\ heap_ptr' = k /\ head' = head
    BY DEF Free
<1> HIDE DEF b, m0, k, m1, B
<1>5. PICK C \in SUBSET B : /\ Tiled(m1, heap_ptr, C) /\ LoneFree(m1, C, k)
                            /\ Keeps(mem, B, {b}, m1, C)
    BY <1>3
<1>6. prev(m1, k) # null
  <2>1. k \in C /\ k # Base
      BY <1>5 DEF LoneFree
  <2>2. m1[k + 2] \in C
      BY <1>5, <2>1, Before
  <2> QED BY <1>5, <2>2, InHeap DEF prev
<1>7. mem' = t /\ heap_ptr' = hq /\ head' = head
    BY <1>4, <1>6
<1>8. PICK D \in SUBSET C : /\ Tiled(t, hq, D) /\ Coalesced(t, D)
                            /\ Keeps(m1, C, {}, t, D)
  <2>1. /\ Tiled(m1, heap_ptr, C) /\ LoneFree(m1, C, k)
        /\ t = IF next(m1, k) # null THEN fusion(m1, k)
               ELSE [m1 EXCEPT ![prev(m1, k) + 1] = null]
      BY <1>5
  <2> HIDE DEF t
  <2> QED BY ONLY <2>1, MergedOn
<1> HIDE DEF t, hq
<1>9. Keeps(mem, B, {b}, t, D)
  <2>1. /\ \A c \in B : mem[c] \in Int /\ c \in Int
        /\ \A c \in C : m1[c] \in Int
        /\ \A c \in D : t[c] \in Int
      BY <1>1, <1>5, <1>8, InHeap
  <2> QED BY <1>5, <1>8, <2>1, KeepsThen
<1> QED BY <1>1, <1>7, <1>8, <1>9 DEF b, B

LEMMA FreeHInv ==
    ASSUME HInv, Anchored, NEW r \in live, Free(r)
    PROVE  /\ HInv'
           /\ \A o \in live' : \A a \in words(o) : mem'[a] = mem[a]
<1> DEFINE R == live \cup lost
           S == live' \cup lost'
<1>1. /\ InUse(Blocks) /\ Tiled(mem, heap_ptr, Blocks) /\ Backed(mem, Blocks, R)
      /\ head = Base /\ Coalesced(mem, Blocks)
    BY Held DEF InUse
<1>2. /\ req = {} /\ req' = {} /\ it' = it /\ last_visited' = last_visited
      /\ live' = live \ {r} /\ lost' \in {lost, lost \cup {r}} /\ S \subseteq R
    BY DEF Free
<1>3. HeldOnce(live, lost) /\ HeldOnce(live', lost')
  <2>1. HeldOnce(live, lost)
      BY DEF HInv
  <2> QED BY <1>2, <2>1 DEF HeldOnce
<1>4. \A o \in R : o.at \in Int /\ o.len \in Nat
    BY Held
<1>5. CASE ~validAddr(r.at)
  <2>1. mem' = mem /\ heap_ptr' = heap_ptr /\ head' = head /\ S = R
      BY <1>5 DEF Free
  <2>2. InUse(Blocks)'
      BY <1>1, <1>2, <2>1, InUseThen
  <2>3. HeapTypeOK'
      BY <1>2, <2>1 DEF HInv, HeapTypeOK
  <2>4. HInv'
      BY <1>2, <1>3, <2>2, <2>3 DEF HInv, HeldOnce
  <2> QED BY <2>1, <2>4
<1>6. CASE validAddr(r.at)
  <2>1. PICK C : /\ head' = Base /\ Tiled(mem', heap_ptr', C) /\ Coalesced(mem', C)
                 /\ Keeps(mem, Blocks, {getBlock(r.at)}, mem', C)
      BY <1>6, FreedHeap
  <2>2. lost' = lost
      BY <1>6 DEF Free
  <2>3. \A o \in S : getBlock(o.at) # getBlock(r.at)
    <3> SUFFICES ASSUME NEW o \in S PROVE getBlock(o.at) # getBlock(r.at)
        OBVIOUS
    <3>1. o \in R /\ o # r
        BY <1>2, <1>3, <2>2 DEF HeldOnce
    <3>2. o.at # r.at
        BY <1>3, <3>1 DEF HeldOnce
    <3> QED BY <1>4, <3>1, <3>2 DEF getBlock, HDR
  <2>4. Backed(mem', C, S) /\ \A o \in S : \A a \in words(o) : mem'[a] = mem[a]
    <3>1. /\ Tiled(mem, heap_ptr, Blocks) /\ Backed(mem, Blocks, R) /\ S \in SUBSET R
          /\ Keeps(mem, Blocks, {getBlock(r.at)}, mem', C) /\ Tiled(mem', heap_ptr', C)
          /\ \A o \in S : /\ getBlock(o.at) \notin {getBlock(r.at)}
                          /\ o.at \in Int /\ o.len \in Nat
        BY <1>1, <1>2, <1>4, <2>1, <2>3
    <3> HIDE DEF R, S
    <3> QED BY ONLY <3>1, StillBacked
  <2>5. InUse(Blocks)'
    <3> HIDE DEF R
    <3> QED BY <1>2, <2>1, <2>4, InUseThen
  <2>6. HeapTypeOK'
    <3>1. mem' \in Memory /\ heap_ptr' \in Base..Limit
        BY <2>1 DEF Tiled
    <3> QED BY <1>2, <2>1, <2>2, <3>1 DEF HInv, HeapTypeOK, Memory
  <2>7. HInv'
      BY <1>2, <1>3, <2>5, <2>6 DEF HInv, HeldOnce
  <2> QED BY <2>4, <2>7
<1> QED BY <1>5, <1>6

(* A client writes its block.                                              *)
LEMMA ClientWriteHInv ==
    ASSUME HInv, NEW r \in live, ClientWrite(r)
    PROVE  HInv'
<1> DEFINE R == live \cup lost
           b == getBlock(r.at)
<1>1. /\ InUse(Blocks) /\ Tiled(mem, heap_ptr, Blocks) /\ Backed(mem, Blocks, R)
      /\ head = Base /\ Coalesced(mem, Blocks) /\ r.at \in Int /\ r.len \in Nat
    BY Held DEF InUse
<1>2. /\ req = {} /\ req' = {} /\ it' = it /\ last_visited' = last_visited
      /\ live' = live /\ lost' = lost /\ head' = head /\ heap_ptr' = heap_ptr
      /\ mem' = [a \in Base..(Limit - 1) |-> IF a \in words(r) THEN Junk ELSE mem[a]]
    BY DEF ClientWrite, HInv, HeapTypeOK
<1>3. /\ b \in Blocks /\ r.len <= mem[b] /\ r.at = b + 5 /\ b \in Nat /\ mem[b] \in Nat
  <2>1. b \in Blocks /\ r.len <= mem[b]
      BY <1>1 DEF Backed, size
  <2> QED BY <1>1, <2>1, InHeap DEF getBlock, HDR
<1> HIDE DEF b
<1>4. mem' \in Memory
    BY <1>1, <1>2 DEF Tiled, Memory, Junk
<1>5. \A a \in Base..(Limit - 1) : a \notin (b + 5)..(b + 4 + mem[b]) => mem'[a] = mem[a]
  <2>1. \A a \in words(r) : a \in (b + 5)..(b + 4 + mem[b])
      BY <1>1, <1>3 DEF words
  <2> QED BY <1>2, <2>1
<1>6. /\ Tiled(mem', heap_ptr, Blocks)
      /\ \A c \in Blocks : /\ mem'[c] = mem[c] /\ mem'[c + 1] = mem[c + 1]
                           /\ mem'[c + 2] = mem[c + 2] /\ mem'[c + 3] = mem[c + 3]
    BY <1>1, <1>3, <1>4, <1>5, DataWritten
<1>7. Coalesced(mem', Blocks)
  <2>1. Base \in Blocks /\ \A c \in Blocks : mem[c + 1] # null => mem[c + 1] \in Blocks
      BY <1>1, Behind DEF Tiled
  <2> QED BY <1>1, <1>6, <2>1 DEF Coalesced, isFree, next
<1>8. Backed(mem', Blocks, live' \cup lost')
    BY <1>1, <1>2, <1>6 DEF Backed, isFree, size
<1>9. InUse(Blocks)'
    BY <1>1, <1>2, <1>6, <1>7, <1>8, InUseThen
<1>10. HeapTypeOK'
    BY <1>2, <1>4 DEF HInv, HeapTypeOK, Memory
<1>11. HeldOnce(live', lost')
    BY <1>2 DEF HInv
<1> QED BY <1>2, <1>9, <1>10, <1>11 DEF HInv, HeldOnce
-----------------------------------------------------------------------------
LEMMA NextHInv ==
    ASSUME HInv, Anchored, [Next]_vars
    PROVE  HInv'
<1>1. ASSUME NEW n \in Sizes, Malloc(n) PROVE HInv'
    BY <1>1, MallocHInv
<1>2. ASSUME NEW n \in req, FindBlock(n) PROVE HInv'
    BY <1>2, FindBlockHInv
<1>3. ASSUME NEW n \in req, MallocReuse(n) PROVE HInv'
    BY <1>3, ReuseHInv
<1>4. ASSUME NEW n \in req, MallocExtend(n) PROVE HInv'
    BY <1>4, ExtendHInv
<1>5. ASSUME NEW r \in live, Free(r) PROVE HInv'
    BY <1>5, FreeHInv
<1>6. ASSUME NEW r \in live, ClientWrite(r) PROVE HInv'
    BY <1>6, ClientWriteHInv
<1>7. CASE UNCHANGED vars
  <2>1. CASE Unused
      BY <1>7, <2>1 DEF vars, HInv, HeapTypeOK, Unused, HeldOnce
  <2>2. CASE InUse(Blocks)
    <3>1. InUse(Blocks)'
        BY <1>7, <2>2, InUseThen DEF vars, InUse, AtBlock, next
    <3> QED BY <1>7, <3>1 DEF vars, HInv, HeapTypeOK, HeldOnce
  <2> QED BY <2>1, <2>2 DEF HInv
<1> QED BY <1>1, <1>2, <1>3, <1>4, <1>5, <1>6, <1>7 DEF Next, Searching

(* Every state of a heap that keeps its first block satisfies the          *)
(* invariant.                                                              *)
THEOREM HInvHolds ==
    ASSUME Anchored
    PROVE  Spec => []HInv
BY InitHInv, NextHInv, PTL DEF Spec

(* The heap's variables have their types: the break, the cursors and the   *)
(* clients' blocks never leave the memory it may grow to.                  *)
THEOREM HeapTyped ==
    ASSUME Anchored
    PROVE  Spec => []HeapTypeOK
<1>1. HInv => HeapTypeOK
    BY DEF HInv
<1> QED BY <1>1, HInvHolds, PTL

(* The list FreeList keeps tiles the heap up to the break, the links back  *)
(* are the links forward reversed, free blocks are never neighbours and    *)
(* the last block is in use.                                               *)
THEOREM Tiles ==
    ASSUME Anchored
    PROVE  Spec => []HeapTiled
<1>1. ASSUME HInv PROVE HeapTiled
  <2>1. CASE Unused
    <3>1. Blocks = {}
        BY <1>1, <2>1, NoBlocks DEF Unused, HInv, HeapTypeOK, Memory
    <3> QED BY <2>1, <3>1 DEF Unused, HeapTiled
  <2>2. CASE InUse(Blocks)
    <3>1. head = Base /\ Tiled(mem, heap_ptr, Blocks) /\ Coalesced(mem, Blocks)
          /\ Base \in Blocks
        BY <2>2 DEF InUse, Tiled
    <3>2. head # null /\ heap_ptr # Base
      <4>1. Base + 5 + mem[Base] <= heap_ptr /\ mem[Base] \in Nat /\ Base # null
          BY <3>1, InHeap
      <4> QED BY <3>1, <4>1 DEF Base
    <3>3. prev(mem, head) = null
        BY <3>1 DEF Tiled
    <3>4. ASSUME NEW b \in Blocks
          PROVE  LET n == next(mem, b)
                     e == data(b) + size(mem, b)
                 IN  IF n = null THEN e = heap_ptr /\ ~isFree(mem, b)
                     ELSE /\ n = e /\ prev(mem, n) = b
                          /\ ~(isFree(mem, b) /\ isFree(mem, n))
        BY <3>1 DEF Tiled, Coalesced, end
    <3> QED BY <3>2, <3>3, <3>4 DEF HeapTiled
  <2> QED BY <1>1, <2>1, <2>2 DEF HInv
<1> QED BY <1>1, HInvHolds, PTL

(* Every block a client holds, or gave back in vain, has a block of the    *)
(* list behind it that is in use and large enough.                         *)
THEOREM Backing ==
    ASSUME Anchored
    PROVE  Spec => []LiveBacked
<1>1. ASSUME HInv PROVE LiveBacked
  <2>1. CASE Unused
      BY <2>1 DEF Unused, LiveBacked
  <2>2. CASE InUse(Blocks)
      BY <2>2 DEF InUse, Backed, LiveBacked
  <2> QED BY <1>1, <2>1, <2>2 DEF HInv
<1> QED BY <1>1, HInvHolds, PTL

(* malloc and free change no word of a block a client goes on holding.     *)
THEOREM Payload ==
    ASSUME Anchored
    PROVE  Spec => PayloadUntouched
<1> DEFINE Writes == \E r \in live : ClientWrite(r)
           Left   == \A r \in live \cap live' : \A a \in words(r) : mem'[a] = mem[a]
<1>1. ASSUME HInv, [Next]_vars, ~Writes PROVE Left
  <2>1. ASSUME NEW n \in Sizes, Malloc(n) PROVE Left
      BY <2>1 DEF Malloc
  <2>2. ASSUME NEW n \in req, FindBlock(n) PROVE Left
      BY <2>2 DEF FindBlock
  <2>3. ASSUME NEW n \in req, MallocReuse(n) PROVE Left
      BY <1>1, <2>3, ReuseHInv
  <2>4. ASSUME NEW n \in req, MallocExtend(n) PROVE Left
      BY <1>1, <2>4, ExtendHInv
  <2>5. ASSUME NEW r \in live, Free(r) PROVE Left
      BY <1>1, <2>5, FreeHInv
  <2>6. CASE UNCHANGED vars
      BY <2>6 DEF vars
  <2> QED BY <1>1, <2>1, <2>2, <2>3, <2>4, <2>5, <2>6 DEF Next, Searching
<1>2. HInv /\ [Next]_vars =>
        [(\A r \in live : ~ClientWrite(r)) =>
            \A r \in live \cap live' : \A a \in words(r) : mem'[a] = mem[a]]_vars
    BY <1>1
<1> QED BY <1>2, HInvHolds, PTL DEF Spec, PayloadUntouched

(* Every step of the heap is one Allocator allows, or none of its: a block *)
(* handed out shares no word with one in use or one whose free was         *)
(* ignored, and only blocks in use are given back.                         *)
THEOREM Promise ==
    ASSUME Anchored
    PROVE  Spec => A!ASafety
<1>1. Init => A!AInit
    BY DEF Init, A!AInit
<1>2. ASSUME HInv, [Next]_vars PROVE [A!ANext]_(A!avars)
  <2>1. ASSUME NEW n \in Sizes, Malloc(n) PROVE A!Ask
      BY <2>1 DEF Malloc, A!Ask
  <2>2. ASSUME NEW n \in req, FindBlock(n) PROVE UNCHANGED A!avars
      BY <2>2 DEF FindBlock, A!avars
  <2>3. ASSUME NEW n \in req, NEW b, data(b) \in Base..Limit, Fresh(b, n),
               granted(b, n), lost' = lost
        PROVE  A!Answer
      BY <2>3 DEF granted, Fresh, words, A!Answer, A!words
  <2>4. ASSUME NEW n \in req, MallocReuse(n) PROVE A!Answer
    <3>1. data(it) \in Base..Limit
      <4>1. InUse(Blocks) /\ it \in Blocks
          BY <1>2, <2>4 DEF MallocReuse, HInv, Unused, InUse, AtBlock
      <4>2. data(it) \in data(Base)..Limit
          BY <4>1, Placed DEF InUse
      <4>3. Limit \in Int
          BY HeapAssumption DEF Limit, Base
      <4> QED BY <4>2, <4>3 DEF data, Base, HDR
    <3> QED BY <1>2, <2>3, <2>4, <3>1, ReuseHInv DEF MallocReuse
  <2>5. ASSUME NEW n \in req, MallocExtend(n) PROVE A!Answer
    <3>1. data(heap_ptr) \in Base..Limit
      <4>1. heap_ptr \in Base..Limit /\ heap_ptr + HDR + n <= Limit /\ n \in Nat
          BY <1>2, HeapAssumption DEF HInv, HeapTypeOK
      <4>2. Limit \in Int
          BY HeapAssumption DEF Limit, Base
      <4> QED BY <4>1, <4>2 DEF data, Base, HDR
    <3> QED BY <1>2, <2>3, <2>5, <3>1, ExtendHInv DEF MallocExtend
  <2>6. ASSUME NEW r \in live, Free(r) PROVE A!GiveBack
      BY <2>6 DEF Free, A!GiveBack
  <2>7. ASSUME NEW r \in live, ClientWrite(r) PROVE UNCHANGED A!avars
      BY <2>7 DEF ClientWrite, A!avars
  <2>8. CASE UNCHANGED vars
      BY <2>8 DEF vars, A!avars
  <2> QED BY <1>2, <2>1, <2>2, <2>4, <2>5, <2>6, <2>7, <2>8 DEF Next, Searching, A!ANext
<1> QED BY <1>1, <1>2, HInvHolds, PTL DEF Spec, A!ASafety
=============================================================================
