---------------------------- MODULE BitsetProofs ----------------------------
(***************************************************************************)
(* The bitset, for every width of a block and every number of bits: its    *)
(* blocks hold exactly the bits its client has set, moved and flipped, and *)
(* count() counts them.                                                    *)
(***************************************************************************)
EXTENDS Bitset, FiniteSetTheorems, FunctionTheorems, WellFoundedInduction, TLAPS

(* Every non-empty set of naturals has a smallest element.                 *)
LEMMA Smallest ==
    ASSUME NEW T, T \subseteq Nat, T # {}
    PROVE  \E x \in T : \A y \in T : x <= y
<1>1. PICK x \in T : \A y \in T : ~(<<y, x>> \in OpToRel(<, Nat))
    BY NatLessThanWellFounded, WFMin
<1>2. \A y \in T : ~(y < x)
    BY <1>1 DEF OpToRel
<1> QED BY <1>2

-----------------------------------------------------------------------------
(* Positions in blocks: B * i + o for the block i and the offset o in it.  *)
B == BlockBits

LEMMA WidthFacts == B \in Nat \ {0} /\ Offset = 0..(B - 1)
BY BitsetAssumption DEF B, Offset

LEMMA Products == \A x, y \in Int : x * y \in Int
OBVIOUS

(* A multiple of the width is a width away from another one.               *)
LEMMA Multiples ==
    ASSUME NEW i \in Int, NEW j \in Int, i < j
    PROVE  B * i + B <= B * j
<1>1. j = i + 1 + (j - 1 - i) /\ j - 1 - i \in Nat
    OBVIOUS
<1>2. \A x, d \in Nat : x * d \in Nat
    OBVIOUS
<1>3. \A x, y, d \in Int : x * (y + 1 + d) = x * y + x + x * d /\ x * y \in Int /\ x * d \in Int
    OBVIOUS
<1> DEFINE d == j - 1 - i
<1>4. B * (i + 1 + d) = B * i + B + B * d /\ B * d \in Nat /\ B * i \in Int
  <2>1. B \in Nat /\ d \in Nat /\ B \in Int /\ d \in Int /\ i \in Int
      BY <1>1, WidthFacts
  <2> HIDE DEF d
  <2> QED BY ONLY <1>2, <1>3, <2>1
<1>5. B \in Int
    BY WidthFacts
<1>6. B * (i + 1 + d) = B * j
    BY <1>1
<1> DEFINE x == B * i
           y == B * d
           z == B * j
<1>7. z = x + B + y /\ y \in Nat /\ x \in Int
    BY <1>4, <1>6
<1> HIDE DEF x, y, z
<1>8. x + B <= z
    BY <1>5, <1>7
<1> QED BY <1>8 DEF x, z

(* A position has one block and one offset.                                *)
LEMMA Unique ==
    ASSUME NEW i \in Int, NEW j \in Int, NEW o \in Offset, NEW q \in Offset,
           B * i + o = B * j + q
    PROVE  i = j /\ o = q
<1>1. B \in Nat \ {0} /\ o \in 0..(B - 1) /\ q \in 0..(B - 1)
    BY WidthFacts
<1>2. B * i \in Int /\ B * j \in Int
  <2>1. B \in Int
      BY <1>1
  <2> QED BY <2>1, Products
<1> DEFINE x == B * i
           y == B * j
<1>3. x + o = y + q /\ x \in Int /\ y \in Int
    BY <1>2
<1>4. ~(i < j)
  <2> SUFFICES ASSUME i < j PROVE FALSE
      OBVIOUS
  <2>1. x + B <= y
      BY Multiples
  <2> HIDE DEF x, y
  <2> QED BY <1>1, <1>3, <2>1
<1>5. ~(j < i)
  <2> SUFFICES ASSUME j < i PROVE FALSE
      OBVIOUS
  <2>1. y + B <= x
      BY Multiples
  <2> HIDE DEF x, y
  <2> QED BY <1>1, <1>3, <2>1
<1>6. i = j
    BY <1>4, <1>5
<1>7. x = y
    BY <1>6
<1> HIDE DEF x, y
<1> QED BY <1>1, <1>3, <1>6, <1>7

LEMMA Divides ==
    ASSUME NEW p \in Nat
    PROVE  /\ index(p) \in Nat /\ offset(p) \in Offset
           /\ p = B * index(p) + offset(p)
<1> DEFINE d == p \div B
           r == p % B
<1>1. B \in Nat \ {0}
    BY WidthFacts
<1>2. d \in Int /\ r \in 0..(B - 1) /\ p = B * d + r
    BY <1>1
<1>3. d >= 0
  <2> SUFFICES ASSUME d < 0 PROVE FALSE
      BY <1>2
  <2>1. B * d + B <= B * 0
      BY <1>2, Multiples
  <2>2. B * 0 = 0 /\ B * d \in Int
      BY <1>1, <1>2, Products
  <2> DEFINE x == B * d
  <2>3. x + B <= 0 /\ x \in Int /\ p = x + r
      BY <1>2, <2>1, <2>2
  <2> HIDE DEF x, r
  <2> QED BY <1>1, <1>2, <2>3
<1> QED BY <1>2, <1>3, WidthFacts DEF index, offset, B

LEMMA IndexOf ==
    ASSUME NEW i \in Nat, NEW o \in Offset, NEW p \in Nat, p = B * i + o
    PROVE  index(p) = i /\ offset(p) = o
BY Divides, Unique

(* The blocks of the bitset and the positions in them.                     *)
LEMMA BlockFacts ==
    ASSUME N \in BitCounts
    PROVE  /\ N \in Nat \ {0} /\ numBlocks \in Nat \ {0}
           /\ B * numBlocks >= N /\ B * (numBlocks - 1) < N
           /\ Blocks = 0..(numBlocks - 1) /\ Positions = 0..(N - 1)
<1>1. N \in Nat \ {0}
    BY BitsetAssumption
<1>2. B \in Nat \ {0}
    BY WidthFacts
<1> DEFINE m == N + B - 1
           d == m \div B
           r == m % B
<1>3. m \in Nat
    BY <1>1, <1>2
<1>4. d = index(m) /\ r = offset(m)
    BY DEF index, offset, B
<1>5. d \in Nat /\ r \in 0..(B - 1) /\ m = B * d + r /\ d = numBlocks
    BY <1>3, <1>4, Divides, WidthFacts DEF numBlocks, B
<1> DEFINE x == B * d
           y == B * (d - 1)
<1>6. x \in Int /\ y \in Int /\ y + B <= x
  <2>1. B \in Int /\ d \in Int /\ d - 1 \in Int /\ d - 1 < d
      BY <1>2, <1>5
  <2> HIDE DEF d
  <2> QED BY <2>1, Products, Multiples
<1>7. y + B = x
  <2>1. \A b, e \in Int : b * (e - 1) + b = b * e
      OBVIOUS
  <2>2. B \in Int /\ d \in Int
      BY <1>2, <1>5
  <2> HIDE DEF d
  <2> QED BY <2>1, <2>2
<1>8. N + B - 1 = x + r
    BY <1>5
<1>9. x >= N /\ y < N
  <2> HIDE DEF x, y, r, d
  <2> QED BY <1>1, <1>2, <1>5, <1>6, <1>7, <1>8
<1>10. d # 0
  <2> SUFFICES ASSUME d = 0 PROVE FALSE
      OBVIOUS
  <2>1. x = 0
    <3>1. \A b \in Int : b * 0 = 0
        OBVIOUS
    <3>2. B \in Int
        BY <1>2
    <3> HIDE DEF d
    <3> QED BY <3>1, <3>2
  <2> HIDE DEF x, d
  <2> QED BY <1>1, <1>9, <2>1
<1>11. B * numBlocks >= N /\ B * (numBlocks - 1) < N
    BY <1>5, <1>9
<1> QED BY <1>1, <1>5, <1>10, <1>11 DEF Blocks, Positions

LEMMA Less ==
    ASSUME NEW i \in Int, NEW j \in Int, B * i < B * j
    PROVE  i < j
<1>1. B \in Nat \ {0} /\ B * i \in Int /\ B * j \in Int
  <2>1. B \in Int
      BY WidthFacts
  <2> QED BY <2>1, WidthFacts, Products
<1>2. ~(j < i)
  <2> SUFFICES ASSUME j < i PROVE FALSE
      OBVIOUS
  <2> DEFINE x == B * i
             y == B * j
  <2>1. y + B <= x /\ x < y /\ x \in Int /\ y \in Int
      BY <1>1, Multiples
  <2> HIDE DEF x, y
  <2> QED BY <1>1, <2>1
<1>3. i # j
    BY <1>1
<1> QED BY <1>2, <1>3

(* Of the highest block exactly the positions in the mask are below N.     *)
LEMMA HighMask ==
    ASSUME N \in BitCounts, NEW o \in Offset
    PROVE  /\ B * (numBlocks - 1) + o < N <=> o \in highMask
           /\ highMask \subseteq Offset
<1> DEFINE n == numBlocks
           d == index(N)
           r == offset(N)
<1>1. /\ N \in Nat \ {0} /\ n \in Nat \ {0} /\ B * n >= N /\ B * (n - 1) < N
    BY BlockFacts
<1>2. /\ d \in Nat /\ r \in Offset /\ N = B * d + r /\ B \in Nat \ {0}
      /\ Offset = 0..(B - 1)
    BY <1>1, Divides, WidthFacts
<1>3. highMask = IF r = 0 THEN Offset ELSE 0..(r - 1)
    BY DEF highMask, offset
<1> HIDE DEF n, d, r
<1> DEFINE X == B * n
           Y == B * (n - 1)
           Z == B * d
           W == B * (d + 1)
<1>4. X \in Int /\ Y \in Int /\ Z \in Int /\ W \in Int
  <2>1. B \in Int /\ n \in Int /\ n - 1 \in Int /\ d \in Int /\ d + 1 \in Int
      BY <1>1, <1>2
  <2> QED BY <2>1, Products
<1>5. W = Z + B
  <2>1. \A b, e \in Int : b * (e + 1) = b * e + b
      OBVIOUS
  <2>2. B \in Int /\ d \in Int
      BY <1>2
  <2> QED BY <2>1, <2>2
<1>6. X = Y + B
  <2>1. \A b, e \in Int : b * (e - 1) + b = b * e
      OBVIOUS
  <2>2. B \in Int /\ n \in Int
      BY <1>1, <1>2
  <2> QED BY <2>1, <2>2
<1>7. X >= N /\ Y < N /\ N = Z + r
    BY <1>1, <1>2
<1>8. CASE r = 0
  <2>1. d = n
    <3>1. Y < Z
        BY <1>4, <1>7, <1>8
    <3>2. n - 1 < d
        BY <1>1, <1>2, <3>1, Less
    <3>3. ~(n < d)
      <4> SUFFICES ASSUME n < d PROVE FALSE
          OBVIOUS
      <4>1. X + B <= Z
          BY <1>1, <1>2, Multiples
      <4> HIDE DEF X, Z
      <4> QED BY <1>2, <1>4, <1>7, <1>8, <4>1
    <3> QED BY <1>1, <1>2, <3>2, <3>3
  <2>2. N = X
    <3>1. Z = X
        BY <2>1
    <3> HIDE DEF X, Z
    <3> QED BY <1>4, <1>7, <1>8, <3>1
  <2>3. Y + o < N
    <3> HIDE DEF X, Y
    <3> QED BY <1>2, <1>4, <1>6, <2>2
  <2> QED BY <1>3, <1>8, <2>3 DEF n
<1>9. CASE r # 0
  <2>1. d = n - 1
    <3>1. n - 1 < d + 1
      <4>1. Y < W
        <5> HIDE DEF Y, W, Z
        <5> QED BY <1>2, <1>4, <1>5, <1>7
      <4> QED BY <1>1, <1>2, <4>1, Less
    <3>2. d < n
      <4>1. Z < X
        <5> HIDE DEF X, Z
        <5> QED BY <1>2, <1>4, <1>7, <1>9
      <4> QED BY <1>1, <1>2, <4>1, Less
    <3> QED BY <1>1, <1>2, <3>1, <3>2
  <2>2. N = Y + r
    <3>1. Z = Y
        BY <2>1
    <3> HIDE DEF Y, Z
    <3> QED BY <1>7, <3>1
  <2>3. Y + o < N <=> o \in 0..(r - 1)
    <3> HIDE DEF Y
    <3> QED BY <1>2, <1>4, <2>2
  <2>4. 0..(r - 1) \subseteq Offset
      BY <1>2
  <2> QED BY <1>3, <1>9, <2>3, <2>4 DEF n
<1> QED BY <1>8, <1>9

(* Every position of a lower block is below N.                             *)
LEMMA LowerBlocks ==
    ASSUME N \in BitCounts, NEW i \in Blocks, i # numBlocks - 1, NEW o \in Offset
    PROVE  B * i + o < N
<1>1. /\ N \in Nat \ {0} /\ numBlocks \in Nat \ {0} /\ B * (numBlocks - 1) < N
      /\ Blocks = 0..(numBlocks - 1)
    BY BlockFacts
<1>2. B \in Nat \ {0} /\ o \in 0..(B - 1)
    BY WidthFacts
<1> DEFINE x == B * i
           y == B * (numBlocks - 1)
<1>3. x \in Int /\ y \in Int /\ x + B <= y
  <2>1. B \in Int /\ i \in Int /\ numBlocks - 1 \in Int /\ i < numBlocks - 1
      BY <1>1, <1>2
  <2> QED BY <2>1, Products, Multiples
<1>4. y < N
    BY <1>1
<1> HIDE DEF x, y
<1>5. x + o < N
    BY <1>1, <1>2, <1>3, <1>4
<1> QED BY <1>5 DEF x

LEMMA PositionFacts ==
    ASSUME N \in BitCounts
    PROVE  /\ \A i \in Blocks, o \in Offset : B * i + o \in Nat
           /\ \A p \in Positions : /\ index(p) \in Blocks /\ offset(p) \in Offset
                                   /\ p = B * index(p) + offset(p)
<1>1. /\ N \in Nat \ {0} /\ numBlocks \in Nat \ {0} /\ B * numBlocks >= N
      /\ Blocks = 0..(numBlocks - 1) /\ Positions = 0..(N - 1)
    BY BlockFacts
<1>2. B \in Nat \ {0} /\ Offset = 0..(B - 1) /\ B \in Nat
    BY WidthFacts
<1>3. \A x, y \in Nat : x * y \in Nat
    OBVIOUS
<1>4. ASSUME NEW i \in Blocks, NEW o \in Offset PROVE B * i + o \in Nat
  <2>1. i \in Nat /\ o \in Nat
      BY <1>1, <1>2
  <2>2. B * i \in Nat
      BY <1>2, <1>3, <2>1
  <2> QED BY <2>1, <2>2
<1>5. ASSUME NEW p \in Positions
      PROVE  /\ index(p) \in Blocks /\ offset(p) \in Offset
             /\ p = B * index(p) + offset(p)
  <2>1. p \in Nat /\ p < N
      BY <1>1
  <2>2. index(p) \in Nat /\ offset(p) \in Offset /\ p = B * index(p) + offset(p)
      BY <2>1, Divides
  <2> DEFINE i == index(p)
             x == B * i
             y == B * numBlocks
  <2>3. x \in Int /\ y \in Int
    <3>1. B \in Int /\ i \in Int /\ numBlocks \in Int
        BY <1>1, <1>2, <2>2
    <3> HIDE DEF i
    <3> QED BY <3>1, Products
  <2>4. x < y
    <3>1. p = x + offset(p) /\ offset(p) \in Nat /\ y >= N
        BY <1>1, <1>2, <2>2
    <3> HIDE DEF x, y
    <3> QED BY <1>1, <2>1, <2>3, <3>1
  <2>5. i < numBlocks
    <3>1. i \in Int /\ numBlocks \in Int
        BY <1>1, <2>2
    <3> HIDE DEF i
    <3> QED BY <2>4, <3>1, Less
  <2> QED BY <1>1, <2>2, <2>5
<1> QED BY <1>4, <1>5

-----------------------------------------------------------------------------
(* The blocks that hold S.                                                 *)
Hold(b, S) == /\ b = [i \in Blocks |-> b[i]]
              /\ \A i \in Blocks : b[i] \subseteq Offset
              /\ \A i \in Blocks, o \in Offset : o \in b[i] <=> B * i + o \in S

LEMMA Holding ==
    ASSUME N \in BitCounts, NEW S
    PROVE  /\ Hold(holding(S), S)
           /\ \A b : Hold(b, S) => b = holding(S)
<1>1. holding(S) = [i \in Blocks |-> {o \in Offset : B * i + o \in S}]
  <2>1. \A i \in Blocks : i * BlockBits = B * i
    <3>1. \A x, y \in Int : x * y = y * x
        OBVIOUS
    <3>2. B \in Int /\ \A i \in Blocks : i \in Int
        BY WidthFacts, BlockFacts
    <3> QED BY <3>1, <3>2 DEF B
  <2> QED BY <2>1 DEF holding
<1>2. Hold(holding(S), S)
    BY <1>1 DEF Hold
<1>3. ASSUME NEW b, Hold(b, S) PROVE b = holding(S)
  <2>1. \A i \in Blocks : b[i] = {o \in Offset : B * i + o \in S}
      BY <1>3 DEF Hold
  <2>2. b = [i \in Blocks |-> b[i]]
      BY <1>3 DEF Hold
  <2> QED BY <1>1, <2>1, <2>2
<1> QED BY <1>2, <1>3

BitInv == /\ N \in BitCounts /\ expected \subseteq Positions
          /\ Hold(blocks, expected)

LEMMA Becomes ==
    ASSUME BitInv, NEW b, NEW S \in SUBSET Positions, becomesBits(b, S), Hold(b, S)
    PROVE  BitInv'
BY DEF BitInv, becomesBits, Hold, Positions, Blocks, numBlocks

-----------------------------------------------------------------------------
(* What the operations make of blocks that hold S.                         *)
LEMMA NoneHolds == Hold(none, {})
BY DEF Hold, none

LEMMA OneBit ==
    ASSUME BitInv, NEW pos \in Positions, NEW i \in Blocks, NEW o \in Offset
    PROVE  B * i + o = pos <=> i = index(pos) /\ o = offset(pos)
<1>1. index(pos) \in Blocks /\ offset(pos) \in Offset /\ pos = B * index(pos) + offset(pos)
    BY PositionFacts DEF BitInv
<1>2. i \in Int /\ index(pos) \in Int
    BY <1>1, BlockFacts DEF BitInv
<1>3. ASSUME B * i + o = pos PROVE i = index(pos) /\ o = offset(pos)
  <2> DEFINE j == index(pos)
             q == offset(pos)
  <2>1. /\ i \in Int /\ j \in Int /\ o \in Offset /\ q \in Offset
        /\ B * i + o = B * j + q
      BY <1>1, <1>2, <1>3
  <2> HIDE DEF j, q
  <2> QED BY <2>1, Unique DEF j, q
<1> QED BY <1>1, <1>3

(* A change of the bit at pos alone.                                       *)
LEMMA OneBitHolds ==
    ASSUME BitInv, NEW pos \in Positions, NEW c \in SUBSET Offset, NEW S,
           \A o \in Offset : o \in c <=> IF o = offset(pos) THEN pos \in S
                                         ELSE o \in blocks[index(pos)],
           \A p \in Nat : p # pos => (p \in S <=> p \in expected)
    PROVE  Hold([blocks EXCEPT ![index(pos)] = c], S)
<1> DEFINE b == [blocks EXCEPT ![index(pos)] = c]
<1>1. /\ blocks = [i \in Blocks |-> blocks[i]] /\ \A i \in Blocks : blocks[i] \subseteq Offset
      /\ \A i \in Blocks, o \in Offset : o \in blocks[i] <=> B * i + o \in expected
    BY DEF BitInv, Hold
<1>2. index(pos) \in Blocks
    BY PositionFacts DEF BitInv
<1>3. \A i \in Blocks : b[i] = IF i = index(pos) THEN c ELSE blocks[i]
    BY <1>1
<1>4. b = [i \in Blocks |-> b[i]]
    BY <1>1
<1> HIDE DEF b
<1>5. ASSUME NEW i \in Blocks, NEW o \in Offset
      PROVE  o \in b[i] <=> B * i + o \in S
  <2>1. B * i + o = pos <=> i = index(pos) /\ o = offset(pos)
      BY OneBit
  <2>2. B * i + o \in Nat
      BY PositionFacts DEF BitInv
  <2> DEFINE p == B * i + o
  <2>3. CASE p = pos
      BY <1>3, <2>1, <2>3
  <2>4. CASE p # pos
    <3>1. p \in S <=> p \in expected
        BY <2>2, <2>4
    <3>2. o \in blocks[i] <=> p \in expected
        BY <1>1
    <3>3. o \in b[i] <=> o \in blocks[i]
      <4>1. CASE i = index(pos)
        <5>1. o # offset(pos)
            BY <2>1, <2>4, <4>1
        <5> QED BY <1>3, <4>1, <5>1
      <4>2. CASE i # index(pos)
          BY <1>3, <4>2
      <4> QED BY <4>1, <4>2
    <3> QED BY <3>1, <3>2, <3>3
  <2> QED BY <2>3, <2>4
<1> QED BY <1>1, <1>3, <1>4, <1>5 DEF Hold, b

LEMMA FlipHolds ==
    ASSUME BitInv
    PROVE  Hold(flipped(blocks), Positions \ expected)
<1> DEFINE f == [i \in Blocks |-> Offset \ blocks[i]]
           b == masked(f)
<1>1. /\ N \in BitCounts
      /\ \A i \in Blocks, o \in Offset : o \in blocks[i] <=> B * i + o \in expected
    BY DEF BitInv, Hold
<1>2. N \in Nat \ {0} /\ Positions = 0..(N - 1)
    BY <1>1, BlockFacts
<1>3. \A i \in Blocks : b[i] = IF i = numBlocks - 1 THEN f[i] \cap highMask ELSE f[i]
    BY DEF masked
<1>4. b = [i \in Blocks |-> b[i]] /\ b = flipped(blocks)
    BY DEF masked, flipped
<1>5. \A i \in Blocks : f[i] = Offset \ blocks[i]
    OBVIOUS
<1> HIDE DEF b, f
<1>6. ASSUME NEW i \in Blocks, NEW o \in Offset
      PROVE  o \in b[i] <=> B * i + o \in Positions \ expected
  <2>1. B * i + o \in Nat
      BY <1>1, PositionFacts
  <2>2. B * i + o \in Positions <=> B * i + o < N
    <3> DEFINE p == B * i + o
    <3>1. p \in Nat
        BY <2>1
    <3> HIDE DEF p
    <3>2. p \in Positions <=> p < N
        BY <1>2, <3>1
    <3> QED BY <3>2 DEF p
  <2>3. CASE i = numBlocks - 1
    <3>1. B * (numBlocks - 1) + o < N <=> o \in highMask
        BY <1>1, HighMask
    <3> QED BY <1>1, <1>3, <1>5, <2>2, <2>3, <3>1
  <2>4. CASE i # numBlocks - 1
    <3>1. B * i + o < N
        BY <1>1, <2>4, LowerBlocks
    <3> QED BY <1>1, <1>3, <1>5, <2>2, <2>4, <3>1
  <2> QED BY <2>3, <2>4
<1>7. \A i \in Blocks : b[i] \subseteq Offset
    BY <1>3, <1>5
<1> QED BY <1>4, <1>6, <1>7 DEF Hold

LEMMA WithHolds ==
    ASSUME BitInv, NEW S \in SUBSET Positions
    PROVE  /\ Hold([i \in Blocks |-> blocks[i] \cap holding(S)[i]], expected \cap S)
           /\ Hold([i \in Blocks |-> blocks[i] \cup holding(S)[i]], expected \cup S)
           /\ Hold([i \in Blocks |-> symdiff(blocks[i], holding(S)[i])], symdiff(expected, S))
<1>1. Hold(blocks, expected) /\ Hold(holding(S), S)
    BY Holding DEF BitInv
<1>2. /\ \A i \in Blocks : blocks[i] \subseteq Offset /\ holding(S)[i] \subseteq Offset
      /\ \A i \in Blocks, o \in Offset : /\ o \in blocks[i] <=> B * i + o \in expected
                                         /\ o \in holding(S)[i] <=> B * i + o \in S
    BY <1>1 DEF Hold
<1> DEFINE x == [i \in Blocks |-> blocks[i] \cap holding(S)[i]]
           y == [i \in Blocks |-> blocks[i] \cup holding(S)[i]]
           z == [i \in Blocks |-> symdiff(blocks[i], holding(S)[i])]
<1>3. Hold(x, expected \cap S)
    BY <1>2 DEF Hold
<1>4. Hold(y, expected \cup S)
    BY <1>2 DEF Hold
<1>5. Hold(z, symdiff(expected, S))
    BY <1>2 DEF Hold, symdiff
<1> QED BY <1>3, <1>4, <1>5

LEMMA MaskHolds ==
    ASSUME N \in BitCounts, NEW f, NEW S, Hold(f, S)
    PROVE  Hold(masked(f), S \cap Positions)
<1> DEFINE b == masked(f)
<1>1. /\ f = [i \in Blocks |-> f[i]] /\ \A i \in Blocks : f[i] \subseteq Offset
      /\ \A i \in Blocks, o \in Offset : o \in f[i] <=> B * i + o \in S
    BY DEF Hold
<1>2. N \in Nat \ {0} /\ Positions = 0..(N - 1)
    BY BlockFacts
<1>3. /\ b = [i \in Blocks |-> b[i]]
      /\ \A i \in Blocks : b[i] = IF i = numBlocks - 1 THEN f[i] \cap highMask ELSE f[i]
    BY <1>1 DEF masked
<1> HIDE DEF b
<1>4. ASSUME NEW i \in Blocks, NEW o \in Offset
      PROVE  o \in b[i] <=> B * i + o \in S \cap Positions
  <2>1. B * i + o \in Positions <=> B * i + o < N
    <3> DEFINE p == B * i + o
    <3>1. p \in Nat
        BY PositionFacts
    <3> HIDE DEF p
    <3>2. p \in Positions <=> p < N
        BY <1>2, <3>1
    <3> QED BY <3>2 DEF p
  <2>2. CASE i = numBlocks - 1
    <3>1. B * (numBlocks - 1) + o < N <=> o \in highMask
        BY HighMask
    <3> QED BY <1>1, <1>3, <2>1, <2>2, <3>1
  <2>3. CASE i # numBlocks - 1
    <3>1. B * i + o < N
        BY <2>3, LowerBlocks
    <3> QED BY <1>1, <1>3, <2>1, <2>3, <3>1
  <2> QED BY <2>2, <2>3
<1>5. \A i \in Blocks : b[i] \subseteq Offset
    BY <1>1, <1>3
<1> QED BY <1>3, <1>4, <1>5 DEF Hold, b

LEMMA UpDown ==
    ASSUME NEW c \in SUBSET Offset, NEW o \in Offset, NEW k \in 0..B
    PROVE  /\ o \in up(c, k) <=> o - k \in c
           /\ o \in down(c, k) <=> o + k \in c
<1>1. /\ o \in Int /\ k \in Int /\ \A q \in c : q \in Int
    BY WidthFacts
<1>2. \A q \in c : (o = q + k <=> q = o - k) /\ (o = q - k <=> q = o + k)
    BY <1>1
<1> QED BY <1>2 DEF up, down

(* Moving a position by blocks and bits.                                   *)
LEMMA Moved ==
    ASSUME NEW i \in Int, NEW j \in Int
    PROVE  /\ B * (i - j) = B * i - B * j /\ B * (i + j) = B * i + B * j
           /\ B * (i + 1) = B * i + B /\ B * (i - 1) = B * i - B
           /\ B * i \in Int /\ B * j \in Int
<1>1. \A b, x, y \in Int : /\ b * (x - y) = b * x - b * y /\ b * (x + y) = b * x + b * y
                           /\ b * (x + 1) = b * x + b /\ b * (x - 1) = b * x - b
                           /\ b * x \in Int /\ b * y \in Int
    OBVIOUS
<1>2. B \in Int
    BY WidthFacts
<1> QED BY ONLY <1>1, <1>2, i \in Int, j \in Int

LEMMA LeftMoves ==
    ASSUME BitInv, NEW k \in Nat, NEW i \in Blocks, NEW o \in Offset
    PROVE  LET blk == index(k)
               bit == offset(k)
           IN  B * i + (o - k) \in expected <=>
                   /\ i >= blk
                   /\ \/ o \in up(blocks[i - blk], bit)
                      \/ /\ bit # 0 /\ i > blk
                         /\ o \in down(blocks[i - blk - 1], BlockBits - bit)
<1> DEFINE j == index(k)
           t == offset(k)
           x == B * i
           y == B * j
<1>1. /\ N \in Nat \ {0} /\ numBlocks \in Nat \ {0} /\ Blocks = 0..(numBlocks - 1)
      /\ \A p \in expected : p \in Nat
    BY BlockFacts DEF BitInv
<1>2. j \in Nat /\ t \in Offset /\ k = y + t
    BY Divides
<1>3. /\ B \in Nat \ {0} /\ Offset = 0..(B - 1) /\ B = BlockBits
      /\ o \in 0..(B - 1) /\ t \in 0..(B - 1) /\ i \in Int /\ j \in Int
    BY <1>1, <1>2, WidthFacts DEF B
<1>4. /\ \A l \in Blocks : blocks[l] \subseteq Offset
      /\ \A l \in Blocks, q \in Offset : q \in blocks[l] <=> B * l + q \in expected
    BY DEF BitInv, Hold
<1>5. x \in Int /\ y \in Int /\ B * (i - j) = x - y /\ B * (i - j - 1) = x - y - B
  <2>1. B * (i - j) = x - y /\ x \in Int /\ y \in Int
      BY <1>3, Moved
  <2>2. i - j \in Int
      BY <1>3
  <2>3. B * ((i - j) - 1) = B * (i - j) - B
      BY <2>2, <1>3, Moved
  <2> QED BY <2>1, <2>3
<1> HIDE DEF j, t, x, y
<1>6. x + o - k = x - y + o - t
    BY <1>2, <1>3, <1>5
<1>7. CASE i < j
  <2>1. x + B <= y
      BY <1>3, <1>7, Multiples DEF x, y
  <2>2. x + o - k < 0
      BY <1>3, <1>5, <1>6, <2>1
  <2>3. x + o - k \notin expected
    <3> DEFINE p == x + o - k
    <3>1. p < 0
        BY <2>2
    <3> HIDE DEF p
    <3>2. p \notin expected
        BY <1>1, <3>1
    <3> QED BY <3>2 DEF p
  <2>4. ~(i >= j)
      BY <1>3, <1>7
  <2> QED BY <2>3, <2>4 DEF x, j, t
<1>8. CASE i >= j
  <2>1. i - j \in Blocks
      BY <1>1, <1>2, <1>3, <1>8
  <2>2. blocks[i - j] \subseteq Offset
      BY <1>4, <2>1
  <2>3. o \in up(blocks[i - j], t) <=> o - t \in blocks[i - j]
    <3>1. t \in 0..B
        BY <1>3
    <3> QED BY <2>2, <3>1, UpDown
  <2>4. CASE o >= t
    <3>1. o - t \in Offset
        BY <1>3, <2>4
    <3>2. o - t \in blocks[i - j] <=> B * (i - j) + (o - t) \in expected
        BY <1>4, <2>1, <3>1
    <3>3. B * (i - j) + (o - t) = x + o - k
        BY <1>3, <1>5, <1>6
    <3>4. ~(t # 0 /\ i > j /\ o \in down(blocks[i - j - 1], BlockBits - t))
      <4> SUFFICES ASSUME i > j, o \in down(blocks[i - j - 1], BlockBits - t) PROVE FALSE
          OBVIOUS
      <4>1. i - j - 1 \in Blocks
          BY <1>1, <1>2, <1>3
      <4>2. blocks[i - j - 1] \subseteq Offset /\ B - t \in 0..B
          BY <1>3, <1>4, <4>1
      <4>3. o + (B - t) \in blocks[i - j - 1]
          BY <1>3, <4>2, UpDown
      <4>4. o + (B - t) \in 0..(B - 1)
          BY <1>3, <4>2, <4>3
      <4> QED BY <1>3, <2>4, <4>4
    <3> QED BY <1>8, <2>3, <3>2, <3>3, <3>4 DEF x, j, t
  <2>5. CASE o < t
    <3>1. o - t \notin blocks[i - j]
      <4>1. o - t \notin Offset
          BY <1>3, <2>5
      <4> QED BY <2>2, <4>1
    <3>2. t # 0
        BY <1>3, <2>5
    <3>3. CASE i > j
      <4>1. i - j - 1 \in Blocks
          BY <1>1, <1>2, <1>3, <3>3
      <4>2. blocks[i - j - 1] \subseteq Offset /\ B - t \in 0..B /\ o + (B - t) \in Offset
          BY <1>3, <1>4, <2>5, <4>1
      <4>3. o \in down(blocks[i - j - 1], B - t) <=> o + (B - t) \in blocks[i - j - 1]
          BY <4>2, UpDown
      <4>4. o + (B - t) \in blocks[i - j - 1] <=>
                B * (i - j - 1) + (o + (B - t)) \in expected
          BY <1>4, <4>1, <4>2
      <4>5. B * (i - j - 1) + (o + (B - t)) = x + o - k
          BY <1>3, <1>5, <1>6
      <4> QED BY <1>3, <1>8, <2>3, <3>1, <3>2, <3>3, <4>3, <4>4, <4>5 DEF x, j, t
    <3>4. CASE ~(i > j)
      <4>1. i = j
          BY <1>3, <1>8, <3>4
      <4>2. x = y
          BY <4>1 DEF x, y
      <4> DEFINE p == x + o - k
      <4>3. p < 0
          BY <1>3, <1>5, <1>6, <2>5, <4>2
      <4> HIDE DEF p
      <4>4. p \notin expected
          BY <1>1, <4>3
      <4> QED BY <2>3, <3>1, <3>4, <4>4 DEF x, j, t, p
    <3> QED BY <3>3, <3>4
  <2> QED BY <1>3, <2>4, <2>5
<1> QED BY <1>3, <1>7, <1>8

LEMMA RightMoves ==
    ASSUME BitInv, NEW k \in Nat, NEW i \in Blocks, NEW o \in Offset
    PROVE  LET blk == index(k)
               bit == offset(k)
           IN  B * i + o + k \in expected <=>
                   /\ i + blk < numBlocks
                   /\ \/ o \in down(blocks[i + blk], bit)
                      \/ /\ bit # 0 /\ i + blk + 1 < numBlocks
                         /\ o \in up(blocks[i + blk + 1], BlockBits - bit)
<1> DEFINE j == index(k)
           t == offset(k)
           n == numBlocks
           x == B * i
           y == B * j
           z == B * n
<1>1. /\ N \in Nat \ {0} /\ n \in Nat \ {0} /\ Blocks = 0..(n - 1) /\ z >= N
      /\ \A p \in expected : p \in Nat /\ p < N
    BY BlockFacts DEF BitInv
<1>2. j \in Nat /\ t \in Offset /\ k = y + t
    BY Divides
<1>3. /\ B \in Nat \ {0} /\ Offset = 0..(B - 1) /\ B = BlockBits
      /\ o \in 0..(B - 1) /\ t \in 0..(B - 1) /\ i \in Int /\ j \in Int /\ n \in Int
    BY <1>1, <1>2, WidthFacts DEF B
<1>4. /\ \A l \in Blocks : blocks[l] \subseteq Offset
      /\ \A l \in Blocks, q \in Offset : q \in blocks[l] <=> B * l + q \in expected
    BY DEF BitInv, Hold
<1>5. /\ x \in Int /\ y \in Int /\ z \in Int
      /\ B * (i + j) = x + y /\ B * (i + j + 1) = x + y + B
  <2>1. B * (i + j) = x + y /\ x \in Int /\ y \in Int
      BY <1>3, Moved
  <2>2. i + j \in Int
      BY <1>3
  <2>3. B * ((i + j) + 1) = B * (i + j) + B
      BY <2>2, <1>3, Moved
  <2>4. z \in Int
      BY <1>3, Moved
  <2> QED BY <2>1, <2>3, <2>4
<1> HIDE DEF j, t, x, y, z, n
<1>6. x + o + k = x + y + o + t /\ x + o + k \in Int
    BY <1>2, <1>3, <1>5
<1>7. \A p \in Int : p >= z => p \notin expected
    BY <1>1, <1>5
<1>8. CASE i + j >= n
  <2>1. x + y >= z
    <3>1. CASE i + j = n
        BY <1>5, <3>1 DEF z
    <3>2. CASE i + j # n
      <4>1. n < i + j /\ i + j \in Int
          BY <1>3, <1>8, <3>2
      <4>2. z + B <= B * (i + j)
          BY <1>3, <4>1, Multiples DEF z
      <4> QED BY <1>3, <1>5, <4>2
    <3> QED BY <3>1, <3>2
  <2>2. x + o + k >= z
      BY <1>3, <1>5, <1>6, <2>1
  <2>3. x + o + k \notin expected
      BY <1>6, <1>7, <2>2
  <2>4. ~(i + j < n)
      BY <1>3, <1>8
  <2> QED BY <2>3, <2>4 DEF x, j, t, n
<1>9. CASE i + j < n
  <2>1. i + j \in Blocks
      BY <1>1, <1>2, <1>3, <1>9
  <2>2. blocks[i + j] \subseteq Offset
      BY <1>4, <2>1
  <2>3. o \in down(blocks[i + j], t) <=> o + t \in blocks[i + j]
    <3>1. t \in 0..B
        BY <1>3
    <3> QED BY <2>2, <3>1, UpDown
  <2>4. CASE o + t < B
    <3>1. o + t \in Offset
        BY <1>3, <2>4
    <3>2. o + t \in blocks[i + j] <=> B * (i + j) + (o + t) \in expected
        BY <1>4, <2>1, <3>1
    <3>3. B * (i + j) + (o + t) = x + o + k
        BY <1>3, <1>5, <1>6
    <3>4. ~(t # 0 /\ i + j + 1 < n /\ o \in up(blocks[i + j + 1], BlockBits - t))
      <4> SUFFICES ASSUME i + j + 1 < n, o \in up(blocks[i + j + 1], BlockBits - t) PROVE FALSE
          OBVIOUS
      <4>1. i + j + 1 \in Blocks
          BY <1>1, <1>2, <1>3
      <4>2. blocks[i + j + 1] \subseteq Offset /\ B - t \in 0..B
          BY <1>3, <1>4, <4>1
      <4>3. o - (B - t) \in blocks[i + j + 1]
          BY <1>3, <4>2, UpDown
      <4>4. o - (B - t) \in 0..(B - 1)
          BY <1>3, <4>2, <4>3
      <4> QED BY <1>3, <2>4, <4>4
    <3> QED BY <1>9, <2>3, <3>2, <3>3, <3>4 DEF x, j, t, n
  <2>5. CASE o + t >= B
    <3>1. o + t \notin blocks[i + j]
      <4>1. o + t \notin Offset
          BY <1>3, <2>5
      <4> QED BY <2>2, <4>1
    <3>2. t # 0
        BY <1>3, <2>5
    <3>3. CASE i + j + 1 < n
      <4>1. i + j + 1 \in Blocks
          BY <1>1, <1>2, <1>3, <3>3
      <4>2. blocks[i + j + 1] \subseteq Offset /\ B - t \in 0..B /\ o - (B - t) \in Offset
          BY <1>3, <1>4, <2>5, <4>1
      <4>3. o \in up(blocks[i + j + 1], B - t) <=> o - (B - t) \in blocks[i + j + 1]
          BY <4>2, UpDown
      <4>4. o - (B - t) \in blocks[i + j + 1] <=>
                B * (i + j + 1) + (o - (B - t)) \in expected
          BY <1>4, <4>1, <4>2
      <4>5. B * (i + j + 1) + (o - (B - t)) = x + o + k
          BY <1>3, <1>5, <1>6
      <4> QED BY <1>3, <1>9, <2>3, <3>1, <3>2, <3>3, <4>3, <4>4, <4>5 DEF x, j, t, n
    <3>4. CASE ~(i + j + 1 < n)
      <4>1. i + j + 1 = n
          BY <1>3, <1>9, <3>4
      <4>2. x + y + B = z
          BY <1>5, <4>1 DEF z
      <4>3. x + o + k >= z
          BY <1>3, <1>5, <1>6, <2>5, <4>2
      <4>4. x + o + k \notin expected
          BY <1>6, <1>7, <4>3
      <4> QED BY <2>3, <3>1, <3>4, <4>4 DEF x, j, t, n
    <3> QED BY <3>3, <3>4
  <2> QED BY <1>3, <2>4, <2>5
<1> QED BY <1>3, <1>8, <1>9

LEMMA LeftHolds ==
    ASSUME BitInv, NEW k \in Nat
    PROVE  Hold(shiftedLeft(blocks, k), {p + k : p \in expected} \cap Positions)
<1> DEFINE j == index(k)
           t == offset(k)
           S == {p + k : p \in expected}
           f == [i \in Blocks |->
                    IF i < j THEN {}
                    ELSE up(blocks[i - j], t) \cup
                         (IF t # 0 /\ i > j
                          THEN down(blocks[i - j - 1], BlockBits - t) ELSE {})]
<1>1. /\ N \in BitCounts /\ N \in Nat \ {0} /\ Positions = 0..(N - 1)
      /\ \A p \in expected : p \in Nat
    BY BlockFacts DEF BitInv
<1>2. CASE k >= N
  <2>1. S \cap Positions = {}
      BY <1>1, <1>2
  <2> QED BY <1>2, <2>1, NoneHolds DEF shiftedLeft
<1>3. CASE ~(k >= N)
  <2>1. shiftedLeft(blocks, k) = masked(f)
      BY <1>3 DEF shiftedLeft
  <2>2. ASSUME NEW i \in Blocks, NEW o \in Offset
        PROVE  o \in f[i] <=> B * i + o \in S
    <3>1. B * i + (o - k) \in expected <=>
              /\ i >= j
              /\ \/ o \in up(blocks[i - j], t)
                 \/ /\ t # 0 /\ i > j
                    /\ o \in down(blocks[i - j - 1], BlockBits - t)
      <4>1. BitInv /\ k \in Nat /\ i \in Blocks /\ o \in Offset
          OBVIOUS
      <4> HIDE DEF S, f
      <4> QED BY ONLY <4>1, LeftMoves
    <3> DEFINE p == B * i + o
    <3>2. p \in Nat /\ i \in Int /\ j \in Int
        BY <1>1, PositionFacts, BlockFacts, Divides
    <3> HIDE DEF p
    <3>3. p \in S <=> p - k \in expected
      <4>1. \A q \in expected : p = q + k <=> q = p - k
          BY <1>1, <3>2
      <4> QED BY <4>1
    <3>4. i < j <=> ~(i >= j)
        BY <3>2
    <3>5. o \in f[i] <=> p - k \in expected
      <4>1. p - k = B * i + (o - k)
        <5> DEFINE x == B * i
        <5>1. x \in Int /\ o \in Int /\ k \in Int
          <6>1. o \in Int
              BY DEF Offset
          <6>2. i \in Int
              BY <3>2
          <6> QED BY ONLY <6>1, <6>2, k \in Nat, Moved
        <5>2. p = x + o
            BY DEF p
        <5> HIDE DEF x
        <5>3. p - k = x + (o - k)
            BY ONLY <5>1, <5>2
        <5> QED BY <5>3 DEF x
      <4>2. o \in f[i] <=> B * i + (o - k) \in expected
        <5> HIDE DEF j, t
        <5> QED BY <3>1, <3>4
      <4> QED BY ONLY <4>1, <4>2
    <3> QED BY <3>3, <3>5 DEF p
  <2>3. \A i \in Blocks : f[i] \subseteq Offset
      BY DEF up, down
  <2>4. f = [i \in Blocks |-> f[i]]
      OBVIOUS
  <2> HIDE DEF f, S
  <2>5. Hold(f, S)
      BY <2>2, <2>3, <2>4 DEF Hold
  <2>6. Hold(masked(f), S \cap Positions)
      BY <1>1, <2>5, MaskHolds
  <2> QED BY <2>1, <2>6 DEF S
<1> QED BY <1>2, <1>3

LEMMA RightHolds ==
    ASSUME BitInv, NEW k \in Nat
    PROVE  Hold(shiftedRight(blocks, k), {p - k : p \in expected} \cap Positions)
<1> DEFINE j == index(k)
           t == offset(k)
           S == {p - k : p \in expected} \cap Positions
           f == [i \in Blocks |->
                    IF i + j >= numBlocks THEN {}
                    ELSE down(blocks[i + j], t) \cup
                         (IF t # 0 /\ i + j + 1 < numBlocks
                          THEN up(blocks[i + j + 1], BlockBits - t) ELSE {})]
<1>1. /\ N \in BitCounts /\ N \in Nat \ {0} /\ Positions = 0..(N - 1)
      /\ \A p \in expected : p \in Nat /\ p < N
    BY BlockFacts DEF BitInv
<1>2. CASE k >= N
  <2>1. S = {}
      BY <1>1, <1>2
  <2> QED BY <1>2, <2>1, NoneHolds DEF shiftedRight
<1>3. CASE ~(k >= N)
  <2>1. shiftedRight(blocks, k) = f
      BY <1>3 DEF shiftedRight
  <2>2. ASSUME NEW i \in Blocks, NEW o \in Offset
        PROVE  o \in f[i] <=> B * i + o \in S
    <3> DEFINE p == B * i + o
    <3>1. p + k \in expected <=>
              /\ i + j < numBlocks
              /\ \/ o \in down(blocks[i + j], t)
                 \/ t # 0 /\ i + j + 1 < numBlocks /\ o \in up(blocks[i + j + 1], BlockBits - t)
      <4>1. BitInv /\ k \in Nat /\ i \in Blocks /\ o \in Offset
          OBVIOUS
      <4> QED BY ONLY <4>1, RightMoves
    <3>2. p \in Nat /\ i \in Int /\ j \in Int /\ numBlocks \in Int
        BY <1>1, PositionFacts, BlockFacts, Divides
    <3> HIDE DEF p
    <3>3. p \in S <=> p + k \in expected
      <4>1. \A q \in expected : p = q - k <=> q = p + k
          BY <1>1, <3>2
      <4>2. p + k \in expected => p \in Positions
        <5> SUFFICES ASSUME p + k \in expected PROVE p \in Positions
            OBVIOUS
        <5>1. p + k < N
            BY <1>1
        <5> QED BY <1>1, <3>2, <5>1
      <4> QED BY <4>1, <4>2
    <3>4. i + j >= numBlocks <=> ~(i + j < numBlocks)
        BY <3>2
    <3>5. o \in f[i] <=> p + k \in expected
      <4> HIDE DEF j, t
      <4> QED BY <3>1, <3>4
    <3> QED BY <3>3, <3>5 DEF p
  <2>3. \A i \in Blocks : f[i] \subseteq Offset
      BY DEF up, down
  <2>4. f = [i \in Blocks |-> f[i]]
      OBVIOUS
  <2> HIDE DEF f, S
  <2>5. Hold(f, S)
      BY <2>2, <2>3, <2>4 DEF Hold
  <2> QED BY <2>1, <2>5 DEF S
<1> QED BY <1>2, <1>3

-----------------------------------------------------------------------------
(* The bitset holds what its client put there.                             *)
LEMMA BitInvInit == BInit => BitInv
<1> SUFFICES ASSUME BInit PROVE BitInv
    OBVIOUS
<1>1. N \in BitCounts /\ blocks = none /\ expected = {}
    BY DEF BInit
<1> QED BY <1>1, NoneHolds DEF BitInv

LEMMA BitInvStep == BitInv /\ [BNext]_bvars => BitInv'
<1> SUFFICES ASSUME BitInv, [BNext]_bvars PROVE BitInv'
    OBVIOUS
<1>1. /\ N \in BitCounts /\ expected \subseteq Positions /\ Hold(blocks, expected)
      /\ \A p \in Positions : p \in Nat
    BY BlockFacts DEF BitInv
<1>2. \A pos \in Positions :
         /\ index(pos) \in Blocks /\ offset(pos) \in Offset
         /\ blocks[index(pos)] \subseteq Offset
         /\ offset(pos) \in blocks[index(pos)] <=> pos \in expected
    BY <1>1, PositionFacts DEF Hold
<1>3. ASSUME NEW pos \in Positions, SetBit(pos) PROVE BitInv'
  <2> DEFINE c == blocks[index(pos)] \cup {offset(pos)}
             S == expected \cup {pos}
  <2>1. c \in SUBSET Offset /\ S \in SUBSET Positions
      BY <1>1, <1>2
  <2>2. Hold([blocks EXCEPT ![index(pos)] = c], S)
    <3>1. \A o \in Offset : o \in c <=> IF o = offset(pos) THEN pos \in S
                                        ELSE o \in blocks[index(pos)]
        OBVIOUS
    <3>2. \A p \in Nat : p # pos => (p \in S <=> p \in expected)
        OBVIOUS
    <3> HIDE DEF c, S
    <3> QED BY <2>1, <3>1, <3>2, OneBitHolds
  <2>3. becomesBits([blocks EXCEPT ![index(pos)] = c], S)
      BY <1>3 DEF SetBit
  <2> HIDE DEF c, S
  <2> QED BY <2>1, <2>2, <2>3, Becomes
<1>4. ASSUME NEW pos \in Positions, ResetBit(pos) PROVE BitInv'
  <2> DEFINE c == blocks[index(pos)] \ {offset(pos)}
             S == expected \ {pos}
  <2>1. c \in SUBSET Offset /\ S \in SUBSET Positions
      BY <1>1, <1>2
  <2>2. Hold([blocks EXCEPT ![index(pos)] = c], S)
    <3>1. \A o \in Offset : o \in c <=> IF o = offset(pos) THEN pos \in S
                                        ELSE o \in blocks[index(pos)]
        OBVIOUS
    <3>2. \A p \in Nat : p # pos => (p \in S <=> p \in expected)
        OBVIOUS
    <3> HIDE DEF c, S
    <3> QED BY <2>1, <3>1, <3>2, OneBitHolds
  <2>3. becomesBits([blocks EXCEPT ![index(pos)] = c], S)
      BY <1>4 DEF ResetBit
  <2> HIDE DEF c, S
  <2> QED BY <2>1, <2>2, <2>3, Becomes
<1>5. ASSUME NEW pos \in Positions, FlipBit(pos) PROVE BitInv'
  <2> DEFINE c == symdiff(blocks[index(pos)], {offset(pos)})
             S == symdiff(expected, {pos})
  <2>1. c \in SUBSET Offset /\ S \in SUBSET Positions
      BY <1>1, <1>2 DEF symdiff
  <2>2. Hold([blocks EXCEPT ![index(pos)] = c], S)
    <3>1. \A o \in Offset : o \in c <=> IF o = offset(pos) THEN pos \in S
                                        ELSE o \in blocks[index(pos)]
        BY <1>2 DEF symdiff
    <3>2. \A p \in Nat : p # pos => (p \in S <=> p \in expected)
        BY DEF symdiff
    <3> HIDE DEF c, S
    <3> QED BY <2>1, <3>1, <3>2, OneBitHolds
  <2>3. becomesBits([blocks EXCEPT ![index(pos)] = c], S)
      BY <1>5 DEF FlipBit
  <2> HIDE DEF c, S
  <2> QED BY <2>1, <2>2, <2>3, Becomes
<1>6. ASSUME ResetAll PROVE BitInv'
    BY <1>6, NoneHolds, Becomes DEF ResetAll
<1>7. ASSUME FlipAll PROVE BitInv'
    BY <1>7, FlipHolds, Becomes DEF FlipAll
<1>8. ASSUME NEW S \in SUBSET Positions, AndWith(S) \/ OrWith(S) \/ XorWith(S)
      PROVE  BitInv'
  <2>1. /\ expected \cap S \in SUBSET Positions /\ expected \cup S \in SUBSET Positions
        /\ symdiff(expected, S) \in SUBSET Positions
      BY <1>1 DEF symdiff
  <2>2. CASE AndWith(S)
      BY <2>1, <2>2, WithHolds, Becomes DEF AndWith
  <2>3. CASE OrWith(S)
      BY <2>1, <2>3, WithHolds, Becomes DEF OrWith
  <2>4. CASE XorWith(S)
      BY <2>1, <2>4, WithHolds, Becomes DEF XorWith
  <2> QED BY <1>8, <2>2, <2>3, <2>4
<1>9. ASSUME NEW k \in 0..(N + 1), ShiftLeft(k) \/ ShiftRight(k)
      PROVE  BitInv'
  <2>1. k \in Nat
      BY <1>1, BlockFacts
  <2>2. CASE ShiftLeft(k)
      BY <2>1, <2>2, LeftHolds, Becomes DEF ShiftLeft
  <2>3. CASE ShiftRight(k)
      BY <2>1, <2>3, RightHolds, Becomes DEF ShiftRight
  <2> QED BY <1>9, <2>2, <2>3
<1>10. CASE UNCHANGED bvars
    BY <1>10 DEF bvars, BitInv, Hold, Positions, Blocks, numBlocks
<1> QED BY <1>3, <1>4, <1>5, <1>6, <1>7, <1>8, <1>9, <1>10 DEF BNext

-----------------------------------------------------------------------------
(* count() counts the bits.                                                *)
LEMMA Counting ==
    ASSUME BitInv
    PROVE  count(blocks) = Cardinality(expected)
<1> DEFINE n == numBlocks
           below(i) == {p \in expected : p < B * i}
           F == [i \in 0..n |-> Cardinality(below(i))]
           P(g) == g = [i \in 0..numBlocks |->
                           IF i = 0 THEN 0 ELSE g[i - 1] + Cardinality(blocks[i - 1])]
<1>1. /\ N \in BitCounts /\ N \in Nat \ {0} /\ n \in Nat \ {0} /\ Blocks = 0..(n - 1)
      /\ B * n >= N /\ \A p \in expected : p \in Nat /\ p < N
    BY BlockFacts DEF BitInv
<1>2. /\ \A i \in Blocks : blocks[i] \subseteq Offset
      /\ \A i \in Blocks, o \in Offset : o \in blocks[i] <=> B * i + o \in expected
    BY DEF BitInv, Hold
<1>3. B \in Nat \ {0} /\ Offset = 0..(B - 1) /\ IsFiniteSet(Offset)
  <2>1. B \in Nat \ {0} /\ Offset = 0..(B - 1) /\ 0 \in Int /\ B - 1 \in Int
      BY WidthFacts
  <2> QED BY <2>1, FS_Interval
<1>4. IsFiniteSet(expected)
  <2>1. expected \in SUBSET Nat /\ N \in Nat /\ \A p \in expected : p <= N
      BY <1>1
  <2> QED BY <2>1, FS_BoundedSetOfNaturals
<1>5. \A i : IsFiniteSet(below(i)) /\ Cardinality(below(i)) \in Nat
  <2> SUFFICES ASSUME NEW i PROVE IsFiniteSet(below(i)) /\ Cardinality(below(i)) \in Nat
      OBVIOUS
  <2>1. below(i) \in SUBSET expected
      OBVIOUS
  <2> HIDE DEF below
  <2>2. IsFiniteSet(below(i))
      BY <1>4, <2>1, FS_Subset
  <2> QED BY <2>2, FS_CardinalityType
<1>6. Cardinality(below(0)) = 0
  <2>1. B * 0 = 0
      BY <1>3
  <2>2. below(0) = {}
      BY <1>1, <2>1
  <2> HIDE DEF below
  <2> QED BY <2>2, FS_EmptySet
<1>7. ASSUME NEW i \in 1..n
      PROVE  Cardinality(below(i)) = Cardinality(below(i - 1)) + Cardinality(blocks[i - 1])
  <2> DEFINE j == i - 1
             b == blocks[j]
             T == {p \in expected : p >= B * j /\ p < B * i}
             h == [o \in b |-> B * j + o]
  <2>1. j \in Blocks /\ j \in Nat /\ i \in Int /\ j \in Int
      BY <1>1
  <2>2. b \subseteq Offset /\ IsFiniteSet(b)
      BY <1>2, <1>3, <2>1, FS_Subset
  <2>3. B * j \in Int /\ B * i \in Int /\ B * i = B * j + B
    <3>1. B * (j + 1) = B * j + B /\ B * j \in Int
        BY <2>1, Moved
    <3>2. B * i = B * (j + 1)
        BY <2>1
    <3> QED BY <1>3, <3>1, <3>2
  <2>4. \A p \in expected : p \in T <=> index(p) = j
    <3> SUFFICES ASSUME NEW p \in expected PROVE p \in T <=> index(p) = j
        OBVIOUS
    <3>1. p \in Positions
        BY DEF BitInv
    <3>2. index(p) \in Blocks /\ offset(p) \in Offset /\ p = B * index(p) + offset(p) /\ p \in Nat
        BY <1>1, <3>1, PositionFacts
    <3> DEFINE d == index(p)
               r == offset(p)
               x == B * j
               y == B * d
    <3>3. d \in Int /\ r \in 0..(B - 1) /\ y \in Int /\ x \in Int /\ p = y + r
      <4>1. d \in Int
          BY <1>1, <3>2
      <4>2. y \in Int
          BY <2>1, <4>1, Moved
      <4> QED BY <1>3, <2>3, <3>2, <4>1, <4>2
    <3>4. p \in T <=> p >= x /\ p < x + B
        BY <2>3
    <3>5. d < j => y + B <= x
        BY <2>1, <3>3, Multiples
    <3>6. j < d => x + B <= y
        BY <2>1, <3>3, Multiples
    <3>7. d = j => y = x
        OBVIOUS
    <3> HIDE DEF d, r, x, y, T, j
    <3>8. p >= x /\ p < x + B <=> d = j
        BY <1>3, <2>1, <3>3, <3>5, <3>6, <3>7
    <3> QED BY <3>4, <3>8 DEF d
  <2>5. h \in Bijection(b, T)
    <3>1. \A o \in b : B * j + o \in T
      <4> SUFFICES ASSUME NEW o \in b PROVE B * j + o \in T
          OBVIOUS
      <4>1. o \in Offset /\ B * j + o \in expected
          BY <1>2, <2>1, <2>2
      <4> QED BY <1>3, <2>3, <4>1
    <3>2. h \in [b -> T]
        BY <3>1
    <3>3. \A o, q \in b : h[o] = h[q] => o = q
      <4>1. \A o \in b : o \in Int
          BY <1>3, <2>2
      <4> DEFINE x == B * j
      <4>2. \A o \in b : h[o] = x + o
          OBVIOUS
      <4>3. x \in Int
          BY <2>3
      <4> HIDE DEF x, h, b
      <4> SUFFICES ASSUME NEW o \in b, NEW q \in b, h[o] = h[q] PROVE o = q
          OBVIOUS
      <4>4. o \in Int /\ q \in Int /\ x + o = x + q
          BY <4>1, <4>2
      <4> QED BY ONLY <4>3, <4>4
    <3>4. \A p \in T : \E o \in b : h[o] = p
      <4> SUFFICES ASSUME NEW p \in T PROVE \E o \in b : h[o] = p
          OBVIOUS
      <4>1. p \in Positions /\ p \in expected
          BY DEF BitInv
      <4>2. index(p) = j
          BY <2>4, <4>1
      <4>3. offset(p) \in Offset /\ p = B * j + offset(p)
          BY <1>1, <4>1, <4>2, PositionFacts
      <4>4. offset(p) \in b
          BY <1>2, <2>1, <4>1, <4>3
      <4> QED BY <4>3, <4>4
    <3> HIDE DEF h, b, T
    <3> QED BY <3>2, <3>3, <3>4, Fun_IsBij
  <2>6. IsFiniteSet(T) /\ Cardinality(T) = Cardinality(b)
    <3> HIDE DEF h, b, T
    <3>1. ExistsBijection(b, T)
        BY <2>5 DEF ExistsBijection
    <3> QED BY <2>2, <3>1, FS_Bijection
  <2>7. below(i) = below(j) \cup T /\ below(j) \cap T = {}
    <3>1. \A p \in expected : /\ p < B * i <=> p < B * j \/ (p >= B * j /\ p < B * i)
                              /\ ~(p < B * j /\ p >= B * j)
      <4> DEFINE x == B * j
                 y == B * i
      <4>1. x \in Int /\ y = x + B
          BY <2>3
      <4> HIDE DEF x, y
      <4>2. \A p \in expected : /\ p < y <=> p < x \/ (p >= x /\ p < y)
                                /\ ~(p < x /\ p >= x)
          BY <1>1, <1>3, <4>1
      <4> QED BY <4>2 DEF x, y
    <3> QED BY <3>1
  <2>8. Cardinality(below(i)) = Cardinality(below(j)) + Cardinality(T) - Cardinality({})
    <3>1. IsFiniteSet(below(j))
        BY <1>5
    <3> HIDE DEF below, T
    <3> QED BY <2>6, <2>7, <3>1, FS_Union
  <2>9. Cardinality({}) = 0 /\ Cardinality(below(j)) \in Nat /\ Cardinality(T) \in Nat
    <3> HIDE DEF below, T
    <3> QED BY <1>5, <2>6, FS_EmptySet, FS_CardinalityType
  <2> HIDE DEF below, T, b
  <2>10. Cardinality(below(i)) = Cardinality(below(j)) + Cardinality(b)
      BY <2>6, <2>8, <2>9
  <2> QED BY <2>10 DEF b
<1> HIDE DEF below
<1>8. P(F)
  <2>1. F = [i \in 0..n |-> IF i = 0 THEN 0 ELSE F[i - 1] + Cardinality(blocks[i - 1])]
    <3> SUFFICES ASSUME NEW i \in 0..n
                 PROVE  F[i] = IF i = 0 THEN 0 ELSE F[i - 1] + Cardinality(blocks[i - 1])
        OBVIOUS
    <3>1. CASE i = 0
        BY <1>6, <3>1
    <3>2. CASE i # 0
      <4>1. i \in 1..n /\ i - 1 \in 0..n
          BY <1>1, <3>2
      <4>2. F[i] = Cardinality(below(i)) /\ F[i - 1] = Cardinality(below(i - 1))
          BY <4>1
      <4> QED BY <1>7, <3>2, <4>1, <4>2
    <3> QED BY <3>1, <3>2
  <2> QED BY <2>1
<1> DEFINE u == CHOOSE g : P(g)
<1>9. P(u)
    BY <1>8
<1>10. count(blocks) = u[n]
    BY DEF count
<1> HIDE DEF u
<1>11. u[0] = 0 /\ \A i \in 1..n : u[i] = u[i - 1] + Cardinality(blocks[i - 1])
  <2>1. 0 \in 0..n /\ \A i \in 1..n : i \in 0..n /\ i # 0
      BY <1>1
  <2> QED BY <1>9, <2>1
<1> HIDE DEF P
<1>12. \A i \in 0..n : u[i] = Cardinality(below(i))
  <2> DEFINE T == {i \in 0..n : u[i] # Cardinality(below(i))}
  <2> SUFFICES ASSUME T # {} PROVE FALSE
      OBVIOUS
  <2>1. T \subseteq Nat
      OBVIOUS
  <2>2. PICK i \in T : \A j \in T : i <= j
      BY <2>1, Smallest
  <2>3. i \in 1..n
      BY <1>1, <1>6, <1>11
  <2>4. i - 1 \in 0..n /\ i - 1 \notin T
    <3>1. i - 1 \in 0..n
        BY ONLY <1>1, <2>3
    <3>2. i - 1 \notin T
      <4> HIDE DEF T
      <4> QED BY <2>1, <2>2, <2>3
    <3> QED BY <3>1, <3>2
  <2>5. u[i] = Cardinality(below(i))
      BY <1>7, <1>11, <2>3, <2>4
  <2> QED BY <2>2, <2>5
<1>13. below(n) = expected
  <2> DEFINE x == B * n
  <2>1. x >= N /\ x \in Int
    <3>1. n \in Int
        BY <1>1
    <3> QED BY <1>1, <3>1, Moved
  <2> HIDE DEF x
  <2>2. \A p \in expected : p < x
      BY <1>1, <2>1
  <2> QED BY <2>2 DEF below, x
<1>14. n \in 0..n
    BY <1>1
<1> QED BY <1>10, <1>12, <1>13, <1>14

(* The invariant holds of every sequence of operations.                    *)
THEOREM BitInvHolds == BSpec => []BitInv
<1>1. BInit => BitInv
    BY BitInvInit
<1>2. BitInv /\ [BNext]_bvars => BitInv'
    BY BitInvStep
<1> QED BY <1>1, <1>2, PTL DEF BSpec

(* For every width of blocks and every number of bits the blocks hold the  *)
(* bits a client has set, shifted and flipped and no others, and test()    *)
(* and count() tell so (Bitset.h).                                         *)
THEOREM BitsAreExact == BSpec => []BitsExact
<1>1. BitInv => BitsExact
  <2> SUFFICES ASSUME BitInv PROVE BitsExact
      OBVIOUS
  <2>1. blocks = holding(expected)
      BY Holding DEF BitInv
  <2>2. \A pos \in Positions : test(blocks, pos) <=> pos \in expected
      BY PositionFacts DEF BitInv, Hold, test
  <2>3. expected = {pos \in Positions : test(blocks, pos)}
      BY <2>2 DEF BitInv
  <2> QED BY <2>1, <2>3, Counting DEF BitsExact
<1> QED BY <1>1, BitInvHolds, PTL
=============================================================================
