------------------------------- MODULE Bitset -------------------------------
(***************************************************************************)
(* ministl::bitset<N> (kernel/kstl/Bitset.h): N bits in blocks of          *)
(* BlockBits bits, 32 in the kernel.  A block is the set of the positions  *)
(* of its ones; a shift of it drops what leaves the block.  The highest    *)
(* block may have more positions than the bitset has bits: those must stay *)
(* zero, or count(), any() and == would see them.                          *)
(*                                                                         *)
(* Clients pass positions below N, which nothing checks.                   *)
(***************************************************************************)
EXTENDS Integers, FiniteSets

CONSTANTS
    BlockBits,  \* bits_per_block
    BitCounts   \* the template arguments N to look at

ASSUME BitsetAssumption ==
    /\ BlockBits \in Nat \ {0}
    /\ BitCounts \subseteq Nat \ {0}

VARIABLES
    N,          \* the template argument
    blocks,     \* blocks_
    expected    \* history: the positions a client has set

bvars == <<N, blocks, expected>>

Offset    == 0..(BlockBits - 1)
numBlocks == (N + BlockBits - 1) \div BlockBits
Blocks    == 0..(numBlocks - 1)
Positions == 0..(N - 1)

highMask == LET r == N % BlockBits
            IN  IF r = 0 THEN Offset ELSE 0..(r - 1)

(* << and >> of one block.                                                 *)
up(b, k)   == {o + k : o \in b} \cap Offset
down(b, k) == {o - k : o \in b} \cap Offset

index(pos)   == pos \div BlockBits
offset(pos)  == pos % BlockBits
test(b, pos) == offset(pos) \in b[index(pos)]

(* The ones of one block after the other.                                  *)
count(b) ==
    LET upTo[i \in 0..numBlocks] ==
            IF i = 0 THEN 0 ELSE upTo[i - 1] + Cardinality(b[i - 1])
    IN  upTo[numBlocks]

none == [i \in Blocks |-> {}]
masked(b) == [b EXCEPT ![numBlocks - 1] = @ \cap highMask]

symdiff(S, T) == (S \cup T) \ (S \cap T)

(* operator<<: without the bits that cross a block, and in full.           *)
shiftedBlocks(b, k) ==
    LET blk == index(k)
    IN  [i \in Blocks |-> IF i < blk THEN {} ELSE up(b[i - blk], offset(k))]
shiftedLeft(b, k) ==
    LET blk == index(k)
        bit == offset(k)
    IN  IF k >= N THEN none
        ELSE masked([i \in Blocks |->
                IF i < blk THEN {}
                ELSE up(b[i - blk], bit) \cup
                     (IF bit # 0 /\ i > blk
                      THEN down(b[i - blk - 1], BlockBits - bit) ELSE {})])

shiftedRight(b, k) ==
    LET blk == index(k)
        bit == offset(k)
    IN  IF k >= N THEN none
        ELSE [i \in Blocks |->
                IF i + blk >= numBlocks THEN {}
                ELSE down(b[i + blk], bit) \cup
                     (IF bit # 0 /\ i + blk + 1 < numBlocks
                      THEN up(b[i + blk + 1], BlockBits - bit) ELSE {})]

flipped(b) == masked([i \in Blocks |-> Offset \ b[i]])

(* The bitset that holds S, as another one may.                            *)
holding(S) == [i \in Blocks |-> {o \in Offset : i * BlockBits + o \in S}]

BInit ==
    /\ N \in BitCounts
    /\ blocks = none
    /\ expected = {}

-----------------------------------------------------------------------------
becomesBits(b, S) == blocks' = b /\ expected' = S /\ UNCHANGED N

SetBit(pos) == becomesBits([blocks EXCEPT ![index(pos)] = @ \cup {offset(pos)}],
                           expected \cup {pos})
ResetBit(pos) == becomesBits([blocks EXCEPT ![index(pos)] = @ \ {offset(pos)}],
                             expected \ {pos})
FlipBit(pos) ==
    becomesBits([blocks EXCEPT ![index(pos)] = symdiff(@, {offset(pos)})],
                symdiff(expected, {pos}))

ResetAll == becomesBits(none, {})
FlipAll  == becomesBits(flipped(blocks), Positions \ expected)

(* &=, |= and ^= with a bitset that holds S                                *)
AndWith(S) == becomesBits([i \in Blocks |-> blocks[i] \cap holding(S)[i]],
                          expected \cap S)
OrWith(S)  == becomesBits([i \in Blocks |-> blocks[i] \cup holding(S)[i]],
                          expected \cup S)
XorWith(S) == becomesBits([i \in Blocks |-> symdiff(blocks[i], holding(S)[i])],
                          symdiff(expected, S))

ShiftLeft(k)  == becomesBits(shiftedLeft(blocks, k),
                             {p + k : p \in expected} \cap Positions)
ShiftRight(k) == becomesBits(shiftedRight(blocks, k),
                             {p - k : p \in expected} \cap Positions)

BNext ==
    \/ \E pos \in Positions : SetBit(pos) \/ ResetBit(pos) \/ FlipBit(pos)
    \/ ResetAll \/ FlipAll
    \/ \E S \in SUBSET Positions : AndWith(S) \/ OrWith(S) \/ XorWith(S)
    \/ \E k \in 0..(N + 1) : ShiftLeft(k) \/ ShiftRight(k)

BSpec == BInit /\ [][BNext]_bvars
-----------------------------------------------------------------------------
(* The blocks hold the bits a client has set, moved and flipped, across    *)
(* the borders of blocks, and nothing else: no operation leaves a one      *)
(* behind the last bit, where count() and == would see it.                 *)
BitsExact ==
    /\ blocks = holding(expected)
    /\ expected = {pos \in Positions : test(blocks, pos)}
    /\ count(blocks) = Cardinality(expected)
=============================================================================
