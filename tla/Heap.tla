-------------------------------- MODULE Heap --------------------------------
(***************************************************************************)
(* Heap::FreeList, the allocator behind the kernel's new and delete        *)
(* (kernel/HeapManager.cpp; HeapImpl/HeapManager.cpp is the same code for  *)
(* the host).  Memory is an array of words, so that block headers, the     *)
(* headers of blocks merged long ago and what clients write lie where the  *)
(* code puts them.  A block at b has size, next, prev, free and ptr in the *)
(* words b..b+4 and its data from b+5; sizes and addresses are in words    *)
(* (align4 has rounded the sizes).                                         *)
(*                                                                         *)
(* The search of findBlock takes a step per block, so that its end is a    *)
(* matter of proof; the rest of malloc, and free, are one step each: the   *)
(* kernel is single threaded and its trap handler does not allocate.       *)
(***************************************************************************)
EXTENDS Integers

CONSTANTS
    Sizes,      \* sizes asked for, in words
    HeapWords,  \* bound: words of memory the heap may grow to
    Anchored    \* TRUE: the first block is never given back

ASSUME HeapAssumption ==
    /\ Sizes \subseteq Nat
    /\ HeapWords \in Nat
    /\ Anchored \in BOOLEAN

null  == 0
Base  == 1                  \* 0xC0000000
HDR   == 5                  \* BLOCKHEADER_OFFSET
Limit == Base + HeapWords
Junk  == -1                 \* what clients write: no address, no flag

VARIABLES
    mem,            \* the words of memory
    heap_ptr,       \* the program break
    head,           \* FreeList::head
    last_visited,   \* FreeList::last_visited
    it,             \* findBlock's cursor
    req,            \* malloc in progress: {} or {size}
    live,           \* blocks clients hold: [at, len]
    lost            \* blocks whose free was ignored

vars == <<mem, heap_ptr, head, last_visited, it, req, live, lost>>

size(m, b)   == m[b]
next(m, b)   == m[b + 1]
prev(m, b)   == m[b + 2]
isFree(m, b) == m[b + 3] # 0
ptr(m, b)    == m[b + 4]
data(b)      == b + HDR
getBlock(p)  == p - HDR

Link(m, b, p) == IF b = null THEN m ELSE [m EXCEPT ![b + 2] = p]

words(r) == r.at..(r.at + r.len - 1)

HeapTypeOK ==
    /\ mem \in [Base..(Limit - 1) -> Int]
    /\ heap_ptr \in Base..Limit
    /\ head \in {null, Base}
    /\ {last_visited, it} \subseteq 0..(Limit - 1)
    /\ req \in {{}} \cup {{n} : n \in Sizes}
    /\ \A r \in live \cup lost : r.at \in data(Base)..Limit /\ r.len \in Sizes

Init ==
    /\ mem = [a \in Base..(Limit - 1) |-> 0]
    /\ heap_ptr = Base
    /\ head = null /\ last_visited = null
    /\ it = null
    /\ req = {}
    /\ live = {} /\ lost = {}

(* The k-th block of the list; HeapWords holds no more than MostBlocks.    *)
MostBlocks == HeapWords \div HDR

walk[k \in 0..MostBlocks] ==
    IF k = 0 THEN head
    ELSE LET b == walk[k - 1] IN IF b = null THEN null ELSE next(mem, b)

Blocks == {walk[k] : k \in 0..MostBlocks} \ {null}

(* Bound: no call starts on a list that reaches out of the memory modelled *)
(* (only one that lost its first block ever does).                         *)
InMemory == \A b \in Blocks : data(b) + size(mem, b) <= Limit

-----------------------------------------------------------------------------
(* malloc(size): the search starts at head, if there is one.               *)
Malloc(n) ==
    /\ req = {} /\ heap_ptr + HDR + n <= Limit /\ InMemory
    /\ req' = {n}
    /\ it' = head
    /\ last_visited' = IF head = null THEN last_visited ELSE head
    /\ UNCHANGED <<mem, heap_ptr, head, live, lost>>

fits(b, n) == isFree(mem, b) /\ size(mem, b) >= n

(* findBlock: one block of the list is passed over.                        *)
FindBlock(n) ==
    /\ it # null /\ ~fits(it, n)
    /\ last_visited' = it
    /\ it' = next(mem, it)
    /\ UNCHANGED <<mem, heap_ptr, head, req, live, lost>>

(* The header splitBlock writes, at add, for what is left of block b.      *)
Headed(m, b, add, left, after) ==
    [m EXCEPT ![add] = left, ![add + 1] = after, ![add + 2] = b, ![add + 3] = 1]

Shortened(m, b, n, add) == [m EXCEPT ![b] = n, ![b + 1] = add]

(* Two bugs: the next block is not linked back, and block->next is set     *)
(* before it is copied.                                                    *)
splitKeepsPrev(m, b, n) ==
    LET add == data(b) + n
    IN  Shortened(Headed(m, b, add, size(m, b) - n - HDR, next(m, b)), b, n, add)
splitSwapped(m, b, n) ==
    LET add == data(b) + n
    IN  Shortened(Headed(m, b, add, size(m, b) - n - HDR, add), b, n, add)

(* splitBlock never sets the ptr of the block it makes.                    *)
splitBlock(m, b, n) ==
    LET add == data(b) + n
    IN  Link(Shortened(Headed(m, b, add, size(m, b) - n - HDR, next(m, b)),
                       b, n, add),
             next(m, b), add)

(* malloc answering with the block instead of its data, and as it does.    *)
grantedHeader(b, n) ==
    live' = live \cup {[at |-> b, len |-> n]} /\ req' = {} /\ it' = null
granted(b, n) ==
    /\ live' = live \cup {[at |-> data(b), len |-> n]}
    /\ req' = {}
    /\ it' = null

Zeroed(m, b, n) ==
    [a \in DOMAIN m |-> IF a \in data(b)..(data(b) + n - 1) THEN 0 ELSE m[a]]

(* calloc clears the bytes it asked for.                                   *)
Cleared(m, b, n) == {m, Zeroed(m, b, n)}

(* There is room for a header and a word of data behind what is taken.     *)
roomy(b, n) == size(mem, b) - n >= HDR + 1

MallocReuse(n) ==
    /\ it # null /\ fits(it, n)
    /\ LET m == IF roomy(it, n) THEN splitBlock(mem, it, n) ELSE mem
       IN  mem' \in Cleared([m EXCEPT ![it + 3] = 0], it, n)
    /\ granted(it, n)
    /\ UNCHANGED <<heap_ptr, head, last_visited, lost>>

(* extendHeap; sbrk(0) and sbrk(n) of the kernel cannot fail.              *)
MallocExtend(n) ==
    /\ it = null
    /\ LET b == heap_ptr
           m == [mem EXCEPT ![b] = n, ![b + 1] = null, ![b + 2] = last_visited,
                            ![b + 4] = data(b)]
           k == IF last_visited = null THEN m
                ELSE [m EXCEPT ![last_visited + 1] = b]
       IN  /\ mem' \in Cleared([k EXCEPT ![b + 3] = 0], b, n)
           /\ head' = IF head = null THEN b ELSE head
           /\ granted(b, n)
    /\ heap_ptr' = heap_ptr + HDR + n
    /\ UNCHANGED <<last_visited, lost>>

-----------------------------------------------------------------------------
(* A fusion that does not ask whether the next block is free.              *)
fusionAlways(m, b) ==
    LET n == next(m, b)
    IN  IF n # null
        THEN Link([m EXCEPT ![b] = @ + HDR + size(m, n), ![b + 1] = next(m, n)],
                  next(m, n), b)
        ELSE m

(* fusion(block): swallow the next block if it is free.                    *)
fusion(m, b) ==
    LET n == next(m, b)
    IN  IF n # null /\ isFree(m, n)
        THEN Link([m EXCEPT ![b] = @ + HDR + size(m, n), ![b + 1] = next(m, n)],
                  next(m, n), b)
        ELSE m

validAddr(p) ==
    /\ head # null /\ p > head /\ p < heap_ptr
    /\ p = ptr(mem, getBlock(p))

(* The block free goes on with: the one before, if that is free, which is  *)
(* fused first, be it itself as in a list that lost its first block.       *)
freeBefore(m, b) == prev(m, b) # null /\ isFree(m, prev(m, b))
merged(m, b)     == IF freeBefore(m, b) THEN prev(m, b) ELSE b

(* free of a block in use.  The last block goes back to the break.         *)
Free(r) ==
    /\ req = {} /\ InMemory
    /\ Anchored => r.at # data(Base)
    /\ live' = live \ {r}
    /\ IF ~validAddr(r.at)
       THEN lost' = lost \cup {r} /\ UNCHANGED <<mem, heap_ptr, head>>
       ELSE LET b  == getBlock(r.at)
                m  == [mem EXCEPT ![b + 3] = 1]
                k  == merged(m, b)
                m1 == IF freeBefore(m, b) THEN fusion(m, k) ELSE m
            IN  /\ IF next(m1, k) # null
                   THEN /\ mem' = fusion(m1, k)
                        /\ UNCHANGED <<heap_ptr, head>>
                   ELSE /\ mem' = IF prev(m1, k) = null THEN m1
                                  ELSE [m1 EXCEPT ![prev(m1, k) + 1] = null]
                        /\ head' = IF prev(m1, k) = null THEN null ELSE head
                        /\ heap_ptr' = k
                /\ UNCHANGED lost
    /\ UNCHANGED <<last_visited, it, req>>

(* A client writes its block.                                              *)
ClientWrite(r) ==
    /\ req = {}
    /\ mem' = [a \in DOMAIN mem |-> IF a \in words(r) THEN Junk ELSE mem[a]]
    /\ UNCHANGED <<heap_ptr, head, last_visited, it, req, live, lost>>

Searching == \E n \in req : FindBlock(n) \/ MallocReuse(n) \/ MallocExtend(n)

Next == \/ \E n \in Sizes : Malloc(n)
        \/ Searching
        \/ \E r \in live : Free(r) \/ ClientWrite(r)

Spec == Init /\ [][Next]_vars

(* malloc runs on.                                                         *)
FairSpec == Spec /\ WF_vars(Searching)

-----------------------------------------------------------------------------
(* The list tiles the heap: from head to the break each block begins where *)
(* the one before it ends, the links back are the links forward reversed,  *)
(* no two neighbours are free (they would have been merged), and the last  *)
(* block is in use (free gives it back to the break).                      *)
HeapTiled ==
    /\ head = null <=> heap_ptr = Base
    /\ head # null => prev(mem, head) = null
    /\ \A b \in Blocks :
          LET n == next(mem, b)
              e == data(b) + size(mem, b)
          IN  IF n = null THEN e = heap_ptr /\ ~isFree(mem, b)
              ELSE /\ n = e /\ prev(mem, n) = b
                   /\ ~(isFree(mem, b) /\ isFree(mem, n))

(* Every block a client holds, or gave back in vain, is backed by a block  *)
(* of the list that is marked in use and is large enough.                  *)
LiveBacked ==
    \A r \in live \cup lost :
        /\ getBlock(r.at) \in Blocks
        /\ ~isFree(mem, getBlock(r.at)) /\ r.len <= size(mem, getBlock(r.at))

(* malloc and free leave the words of every block in use as they are: the  *)
(* headers they write lie outside of all of them.                          *)
PayloadUntouched ==
    [][(\A r \in live : ~ClientWrite(r)) =>
          \A r \in live \cap live' : \A a \in words(r) : mem'[a] = mem[a]]_vars

(* malloc returns: findBlock reaches the end of the list.                  *)
MallocReturns == req # {} ~> req = {}

(* The heap keeps the promise of Allocator.                                *)
A == INSTANCE Allocator WITH Place <- Base..Limit, wanted <- req
ImplementsAllocator == A!ASpec
=============================================================================
