----------------------------- MODULE CpuProofs -----------------------------
(***************************************************************************)
(* The CPU for every word width, register set, image and encoding: what    *)
(* arithmetic, memory and each instruction yield (RunEnds), what the cache *)
(* of decoded instructions holds, that traps are precise, that calls       *)
(* return behind themselves, and that the CPU with its cache implements    *)
(* the processor without (Architecture).                                   *)
(***************************************************************************)
EXTENDS Cpu, WellFoundedInduction, TLAPS

-----------------------------------------------------------------------------
(* Every non-empty set of naturals has a smallest element.                 *)
LEMMA Smallest ==
    ASSUME NEW T, T \subseteq Nat, T # {}
    PROVE  \E x \in T : \A y \in T : x <= y
<1>1. PICK x \in T : \A y \in T : ~(<<y, x>> \in OpToRel(<, Nat))
    BY NatLessThanWellFounded, WFMin
<1>2. \A y \in T : ~(y < x)
    BY <1>1 DEF OpToRel
<1> QED BY <1>2

(* A sequence of numbers may be defined step by step.                      *)
LEMMA StepByStep ==
    ASSUME NEW n \in Nat, NEW z \in Int, NEW h \in [(1..n) \X Int -> Int]
    PROVE  \E f \in [0..n -> Int] : /\ f[0] = z
                                    /\ \A k \in 1..n : f[k] = h[<<k, f[k - 1]>>]
<1> DEFINE Steps(f, m) == /\ f \in [0..m -> Int] /\ f[0] = z
                          /\ \A k \in 1..m : f[k] = h[<<k, f[k - 1]>>]
           T == {m \in 0..n : ~ \E f : Steps(f, m)}
<1>1. T = {}
  <2> SUFFICES ASSUME T # {} PROVE FALSE
      OBVIOUS
  <2>1. T \subseteq Nat
      OBVIOUS
  <2>2. PICK m \in T : \A i \in T : m <= i
      BY <2>1, Smallest
  <2>3. m \in 0..n /\ ~ \E f : Steps(f, m)
      OBVIOUS
  <2>4. m # 0
    <3>1. Steps([k \in 0..0 |-> z], 0)
        OBVIOUS
    <3> QED BY <2>3, <3>1
  <2>5. m - 1 \in 0..n /\ m - 1 \notin T
    <3> HIDE DEF T
    <3> QED BY <2>1, <2>2, <2>3, <2>4
  <2>6. PICK f : Steps(f, m - 1)
      BY <2>5
  <2> DEFINE g == [k \in 0..m |-> IF k = m THEN h[<<m, f[m - 1]>>] ELSE f[k]]
  <2>7. h[<<m, f[m - 1]>>] \in Int
    <3>1. m \in 1..n /\ f[m - 1] \in Int
        BY <2>3, <2>4, <2>6
    <3> QED BY <3>1
  <2>8. g \in [0..m -> Int] /\ g[0] = z
    <3>1. \A k \in 0..m : k # m => k \in 0..(m - 1)
        BY <2>3
    <3>2. \A k \in 0..m : k # m => f[k] \in Int
        BY <2>6, <3>1
    <3>3. 0 \in 0..m
        BY <2>3
    <3> QED BY <2>4, <2>6, <2>7, <3>2, <3>3
  <2>9. ASSUME NEW k \in 1..m PROVE g[k] = h[<<k, g[k - 1]>>]
    <3>1. k \in 0..m /\ k - 1 \in 0..m /\ k - 1 # m /\ m \in Nat
        BY <2>3
    <3>2. g[k - 1] = f[k - 1]
        BY <3>1
    <3>3. CASE k = m
        BY <3>1, <3>2, <3>3
    <3>4. CASE k # m
      <4>1. k \in 1..(m - 1)
          BY <3>1, <3>4
      <4>2. f[k] = h[<<k, f[k - 1]>>]
          BY <2>6, <4>1
      <4> QED BY <3>1, <3>2, <3>4, <4>2
    <3> QED BY <3>3, <3>4
  <2> QED BY <2>3, <2>8, <2>9
<1>2. \E f : Steps(f, n)
  <2>1. n \in 0..n /\ n \notin T
    <3> HIDE DEF T
    <3> QED BY <1>1
  <2> QED BY <2>1
<1> QED BY <1>2

LEMMA WidthNat == ByteBits \in Nat /\ ByteBits >= 1 /\ Width \in Nat /\ Width = 4 * ByteBits
BY WidthAssumption DEF Width

LEMMA PowersOfTwo ==
    /\ pow2 \in [0..Width -> Int] /\ pow2[0] = 1
    /\ \A k \in 1..Width : pow2[k] = 2 * pow2[k - 1]
    /\ \A k \in 0..Width : pow2[k] \in Nat /\ pow2[k] >= 1
<1> DEFINE h == [p \in (1..Width) \X Int |-> 2 * p[2]]
           P(g) == g = [k \in 0..Width |-> IF k = 0 THEN 1 ELSE 2 * g[k - 1]]
<1>1. PICK f \in [0..Width -> Int] :
         f[0] = 1 /\ \A k \in 1..Width : f[k] = h[<<k, f[k - 1]>>]
  <2>1. h \in [(1..Width) \X Int -> Int] /\ Width \in Nat /\ 1 \in Int
      BY WidthNat
  <2> HIDE DEF h
  <2> QED BY ONLY <2>1, StepByStep
<1>2. P(f)
  <2>1. ASSUME NEW k \in 0..Width, k # 0 PROVE f[k] = 2 * f[k - 1]
    <3>1. k \in 1..Width /\ k - 1 \in 0..Width
        BY <2>1, WidthNat
    <3>2. f[k - 1] \in Int
        BY <3>1
    <3> QED BY <1>1, <3>1, <3>2
  <2>2. f = [k \in 0..Width |-> f[k]]
      OBVIOUS
  <2> QED BY <1>1, <2>1, <2>2
<1>3. pow2 = CHOOSE g : P(g)
    BY DEF pow2
<1>4. P(pow2)
    BY <1>2, <1>3
<1>5. pow2[0] = 1 /\ \A k \in 1..Width : pow2[k] = 2 * pow2[k - 1]
  <2>1. 0 \in 0..Width /\ \A k \in 1..Width : k \in 0..Width /\ k # 0
      BY WidthNat
  <2> QED BY <1>4, <2>1
<1>6. \A k \in 0..Width : pow2[k] \in Nat /\ pow2[k] >= 1
  <2> DEFINE T == {k \in 0..Width : ~(pow2[k] \in Nat /\ pow2[k] >= 1)}
  <2> SUFFICES ASSUME T # {} PROVE FALSE
      OBVIOUS
  <2>1. T \subseteq Nat
      OBVIOUS
  <2>2. PICK k \in T : \A i \in T : k <= i
      BY <2>1, Smallest
  <2>3. k \in 1..Width
      BY <1>5, WidthNat
  <2>4. k - 1 \in 0..Width /\ k - 1 \notin T
      BY <2>2, <2>3, WidthNat
  <2> QED BY <1>5, <2>2, <2>3, <2>4
<1>7. pow2 = [k \in 0..Width |-> pow2[k]]
    BY <1>4
<1>8. \A k \in 0..Width : pow2[k] \in Int
    BY <1>6
<1>9. pow2 \in [0..Width -> Int]
    BY <1>7, <1>8
<1> QED BY <1>5, <1>6, <1>9

LEMMA PowerOfSum ==
    ASSUME NEW a \in Nat, NEW b \in Nat, a + b <= Width
    PROVE  pow2[a + b] = pow2[a] * pow2[b]
<1> DEFINE T == {c \in 0..b : pow2[a + c] # pow2[a] * pow2[c]}
<1> SUFFICES ASSUME T # {} PROVE FALSE
    OBVIOUS
<1>1. T \subseteq Nat
    OBVIOUS
<1>2. PICK c \in T : \A i \in T : c <= i
    BY <1>1, Smallest
<1>3. a \in 0..Width /\ pow2[a] \in Nat /\ pow2[0] = 1 /\ a + 0 = a
  <2>1. a \in 0..Width
      BY WidthNat
  <2> QED BY <2>1, PowersOfTwo
<1>4. c # 0
    BY <1>3
<1>5. c - 1 \in 0..b /\ c - 1 \notin T /\ c \in 1..Width /\ a + c \in 1..Width /\ c - 1 \in 0..Width
    BY <1>2, <1>4, WidthNat
<1>6. pow2[a + (c - 1)] = pow2[a] * pow2[c - 1]
    BY <1>5
<1>7. pow2[a + c] = 2 * pow2[a + (c - 1)]
  <2>1. (a + c) - 1 = a + (c - 1)
      BY <1>5
  <2> QED BY <1>5, <2>1, PowersOfTwo
<1>8. pow2[c] = 2 * pow2[c - 1] /\ pow2[c - 1] \in Nat
    BY <1>5, PowersOfTwo
<1>9. \A x, y \in Nat : 2 * (x * y) = x * (2 * y)
    OBVIOUS
<1> QED BY <1>2, <1>3, <1>6, <1>7, <1>8, <1>9

(* The moduli, and the number of values each has room for.                 *)
LEMMA Moduli ==
    /\ ByteMod \in Nat /\ ByteMod >= 2
    /\ HalfMod \in Nat /\ HalfMod >= 2 /\ HalfMod = ByteMod * ByteMod
    /\ WordMod \in Nat /\ WordMod >= 2 /\ WordMod = HalfMod * HalfMod
    /\ WordMod = pow2[Width] /\ HalfMod <= WordMod /\ ByteMod <= HalfMod
<1> DEFINE b == ByteBits
<1>1. ByteMod \in Nat /\ ByteMod >= 2
  <2>1. b \in 1..Width /\ b - 1 \in 0..Width
      BY WidthNat
  <2> QED BY <2>1, PowersOfTwo DEF ByteMod
<1>2. \A x \in Nat : x >= 2 => x * x \in Nat /\ x * x >= x /\ x * x >= 2
    OBVIOUS
<1>3. HalfMod \in Nat /\ HalfMod >= 2 /\ HalfMod = ByteMod * ByteMod /\ HalfMod >= ByteMod
    BY <1>1, <1>2 DEF HalfMod
<1>4. WordMod \in Nat /\ WordMod >= 2 /\ WordMod = HalfMod * HalfMod /\ WordMod >= HalfMod
    BY <1>2, <1>3 DEF WordMod
<1>5. pow2[b + b] = HalfMod
  <2>1. b \in Nat /\ b + b <= Width
      BY WidthNat
  <2> QED BY <2>1, PowerOfSum DEF HalfMod, ByteMod
<1>6. pow2[Width] = WordMod
  <2>1. b + b \in Nat /\ (b + b) + (b + b) = Width
      BY WidthNat
  <2>2. pow2[(b + b) + (b + b)] = pow2[b + b] * pow2[b + b]
      BY <2>1, WidthNat, PowerOfSum
  <2> QED BY <1>5, <2>1, <2>2 DEF WordMod
<1> QED BY <1>1, <1>3, <1>4, <1>6

(* A number of Width binary digits is a word.                              *)
LEMMA NumberIsWord ==
    ASSUME NEW S
    PROVE  number(S) \in Word
<1> DEFINE digit(k) == IF k - 1 \in S THEN pow2[k - 1] ELSE 0
           h == [p \in (1..Width) \X Int |-> p[2] + digit(p[1])]
           P(g) == g = [k \in 0..Width |->
                           IF k = 0 THEN 0
                           ELSE g[k - 1] + (IF k - 1 \in S THEN pow2[k - 1] ELSE 0)]
<1>1. \A k \in 1..Width : k - 1 \in 0..Width /\ digit(k) \in Nat /\ digit(k) <= pow2[k - 1]
  <2> SUFFICES ASSUME NEW k \in 1..Width
               PROVE  k - 1 \in 0..Width /\ digit(k) \in Nat /\ digit(k) <= pow2[k - 1]
      OBVIOUS
  <2>1. k - 1 \in 0..Width
      BY WidthNat
  <2>2. pow2[k - 1] \in Nat
      BY <2>1, PowersOfTwo
  <2> QED BY <2>1, <2>2
<1>2. PICK f \in [0..Width -> Int] :
         f[0] = 0 /\ \A k \in 1..Width : f[k] = h[<<k, f[k - 1]>>]
  <2> HIDE DEF digit
  <2>1. h \in [(1..Width) \X Int -> Int] /\ Width \in Nat /\ 0 \in Int
      BY <1>1, WidthNat
  <2> HIDE DEF h
  <2> QED BY ONLY <2>1, StepByStep
<1>3. \A k \in 1..Width : f[k] = f[k - 1] + digit(k)
  <2> HIDE DEF digit
  <2> SUFFICES ASSUME NEW k \in 1..Width PROVE f[k] = f[k - 1] + digit(k)
      OBVIOUS
  <2>1. f[k - 1] \in Int
      BY <1>1
  <2> QED BY <1>2, <2>1
<1>4. P(f)
  <2>1. \A k \in 0..Width : k # 0 => k \in 1..Width
      BY WidthNat
  <2>2. f = [k \in 0..Width |-> f[k]]
      OBVIOUS
  <2> QED BY <1>2, <1>3, <2>1, <2>2
<1> DEFINE u == CHOOSE g : P(g)
<1>5. P(u)
    BY <1>4
<1>6. number(S) = u[Width]
    BY DEF number
<1> HIDE DEF u
<1>7. u[0] = 0 /\ \A k \in 1..Width : u[k] = u[k - 1] + digit(k)
  <2>1. 0 \in 0..Width /\ \A k \in 1..Width : k \in 0..Width /\ k # 0
      BY WidthNat
  <2> QED BY <1>5, <2>1
<1> HIDE DEF P, digit
<1>8. \A k \in 0..Width : u[k] \in Nat /\ u[k] <= pow2[k] - 1
  <2> DEFINE T == {k \in 0..Width : ~(u[k] \in Nat /\ u[k] <= pow2[k] - 1)}
  <2> SUFFICES ASSUME T # {} PROVE FALSE
      OBVIOUS
  <2>1. T \subseteq Nat
      OBVIOUS
  <2>2. PICK k \in T : \A i \in T : k <= i
      BY <2>1, Smallest
  <2>3. k \in 1..Width
    <3>1. u[0] = 0 /\ pow2[0] = 1
        BY <1>7, PowersOfTwo
    <3> QED BY <3>1, WidthNat
  <2>4. k - 1 \in 0..Width /\ k - 1 \notin T
      BY <2>2, <2>3, WidthNat
  <2>5. /\ u[k - 1] \in Nat /\ u[k - 1] <= pow2[k - 1] - 1
        /\ u[k] = u[k - 1] + digit(k) /\ digit(k) \in Nat /\ digit(k) <= pow2[k - 1]
        /\ pow2[k] = 2 * pow2[k - 1] /\ pow2[k - 1] \in Nat
      BY <1>1, <1>7, <2>3, <2>4, PowersOfTwo
  <2> QED BY <2>2, <2>5
<1>9. Width \in 0..Width
    BY WidthNat
<1> QED BY <1>6, <1>8, <1>9, Moduli DEF Word
-----------------------------------------------------------------------------

(* Division and remainder by a natural number.                             *)
LEMMA Divided ==
    ASSUME NEW M \in Nat, M >= 1, NEW h \in Int
    PROVE  /\ h % M \in 0..(M - 1) /\ h \div M \in Int
           /\ h = M * (h \div M) + (h % M)
OBVIOUS

(* The upper half of a number, and a number of two halves.                 *)
LEMMA Upper ==
    ASSUME NEW M \in Nat, M >= 1, NEW h \in 0..(M * M - 1)
    PROVE  h \div M \in 0..(M - 1)
<1>1. h \div M \in Int /\ h = M * (h \div M) + (h % M) /\ h % M \in 0..(M - 1)
    BY Divided
<1> DEFINE q == h \div M
<1>2. q \in Int /\ M * q <= h /\ h < M * q + M
    BY <1>1
<1> HIDE DEF q
<1>3. q >= 0
  <2> SUFFICES ASSUME q <= -1 PROVE FALSE
      BY <1>2
  <2>1. M * q <= M * (-1)
      BY <1>2
  <2> QED BY <1>2, <2>1
<1>4. q <= M - 1
  <2> SUFFICES ASSUME q >= M PROVE FALSE
      BY <1>2
  <2>1. M * q >= M * M
      BY <1>2
  <2> QED BY <1>2, <2>1
<1> QED BY <1>2, <1>3, <1>4 DEF q

LEMMA Joined ==
    ASSUME NEW M \in Nat, NEW h \in 0..(M - 1), NEW l \in 0..(M - 1)
    PROVE  h * M + l \in 0..(M * M - 1)
<1>1. h * M <= (M - 1) * M /\ h * M >= 0
    OBVIOUS
<1>2. (M - 1) * M = M * M - M
    OBVIOUS
<1>3. h * M \in Int /\ M * M \in Int
    OBVIOUS
<1> QED BY <1>1, <1>2, <1>3

LEMMA Quotient ==
    ASSUME NEW y \in Nat, NEW p \in Nat, p >= 1
    PROVE  y \div p \in 0..y
<1> DEFINE q == y \div p
<1>1. q \in Int /\ y = p * q + (y % p) /\ y % p \in 0..(p - 1)
    BY Divided
<1> HIDE DEF q
<1>2. q >= 0
  <2> SUFFICES ASSUME q <= -1 PROVE FALSE
      BY <1>1
  <2>1. p * q <= p * (-1)
      BY <1>1
  <2> QED BY <1>1, <2>1
<1>3. p * q >= q
    BY <1>1, <1>2
<1> QED BY <1>1, <1>2, <1>3 DEF q

LEMMA Words ==
    /\ 0 \in Word /\ 1 \in Word /\ Byte \subseteq Word /\ Half \subseteq Word
    /\ Word \subseteq Nat
    /\ \A n \in Int : wrap(n) \in Word
    /\ \A b : bit(b) \in Word
<1>1. \A n \in Int : wrap(n) \in Word
    BY Moduli, Divided DEF wrap, Word
<1> QED BY <1>1, Moduli DEF Word, Half, Byte, bit

LEMMA Numbers == \A w \in Word : w \in Int
BY DEF Word

LEMMA Remainders ==
    ASSUME NEW w \in Word
    PROVE  w % HalfMod \in Half /\ w % ByteMod \in Byte
<1>1. /\ w \in Int /\ HalfMod \in Nat /\ HalfMod >= 1 /\ ByteMod \in Nat /\ ByteMod >= 1
    BY Words, Moduli
<1>2. w % HalfMod \in 0..(HalfMod - 1)
    BY ONLY <1>1, Divided
<1>3. w % ByteMod \in 0..(ByteMod - 1)
    BY ONLY <1>1, Divided
<1> QED BY <1>2, <1>3 DEF Half, Byte

LEMMA Signs ==
    /\ \A n, mod \in Int : extend(n, mod) \in Int
    /\ \A w \in Word : signed(w) \in Int /\ (w # 0 => signed(w) # 0)
<1>1. \A n, mod \in Int : extend(n, mod) \in Int
    BY DEF extend
<1>2. \A w \in Word : signed(w) \in Int /\ (w # 0 => signed(w) # 0)
    BY Moduli DEF signed, extend, Word
<1> QED BY <1>1, <1>2

-----------------------------------------------------------------------------
(* What memory yields and becomes.                                         *)
LEMMA Reads ==
    ASSUME NEW m \in [Word -> Byte], NEW a \in Word
    PROVE  m[a] \in Byte /\ getHalfWord(m, a) \in Half /\ getWord(m, a) \in Word
<1>1. \A b \in Word : getHalfWord(m, b) \in Half
  <2> SUFFICES ASSUME NEW b \in Word PROVE getHalfWord(m, b) \in Half
      OBVIOUS
  <2>1. b + 1 \in Int
      BY Words
  <2>2. wrap(b + 1) \in Word
      BY <2>1, Words
  <2>3. m[b] \in 0..(ByteMod - 1) /\ m[wrap(b + 1)] \in 0..(ByteMod - 1) /\ ByteMod \in Nat
      BY <2>2, Moduli DEF Byte
  <2>4. m[b] * ByteMod + m[wrap(b + 1)] \in 0..(ByteMod * ByteMod - 1)
      BY ONLY <2>3, Joined
  <2> QED BY <2>4, Moduli DEF getHalfWord, Half
<1>2. getWord(m, a) \in Word
  <2>1. a + 2 \in Int
      BY Words
  <2>2. wrap(a + 2) \in Word
      BY <2>1, Words
  <2>3. /\ getHalfWord(m, a) \in 0..(HalfMod - 1) /\ HalfMod \in Nat
        /\ getHalfWord(m, wrap(a + 2)) \in 0..(HalfMod - 1)
      BY <1>1, <2>2, Moduli DEF Half
  <2>4. getHalfWord(m, a) * HalfMod + getHalfWord(m, wrap(a + 2)) \in 0..(HalfMod * HalfMod - 1)
      BY ONLY <2>3, Joined
  <2> QED BY <2>4, Moduli DEF getWord, Word
<1> QED BY <1>1, <1>2

LEMMA SetsHalf ==
    ASSUME NEW m \in [Word -> Byte], NEW a \in Word, NEW h \in Half
    PROVE  setHalfWord(m, a, h) \in [Word -> Byte]
<1>1. h \div ByteMod \in Byte
  <2>1. h \in 0..(ByteMod * ByteMod - 1) /\ ByteMod \in Nat /\ ByteMod >= 1
      BY Moduli DEF Half
  <2>2. h \div ByteMod \in 0..(ByteMod - 1)
      BY ONLY <2>1, Upper
  <2> QED BY <2>2 DEF Byte
<1>2. h % ByteMod \in Byte
    BY Remainders, Words
<1> QED BY <1>1, <1>2 DEF setHalfWord

LEMMA Sets ==
    ASSUME NEW m \in [Word -> Byte], NEW a \in Word, NEW w \in Word
    PROVE  setWord(m, a, w) \in [Word -> Byte]
<1>1. w \div HalfMod \in Half
  <2>1. w \in 0..(HalfMod * HalfMod - 1) /\ HalfMod \in Nat /\ HalfMod >= 1
      BY Moduli DEF Word
  <2>2. w \div HalfMod \in 0..(HalfMod - 1)
      BY ONLY <2>1, Upper
  <2> QED BY <2>2 DEF Half
<1>2. w % HalfMod \in Half
    BY Remainders
<1>3. a + 2 \in Int
    BY Words
<1>4. wrap(a + 2) \in Word
    BY <1>3, Words
<1> QED BY <1>1, <1>2, <1>4, SetsHalf DEF setWord

(* What an instruction computes is a word.                                 *)
LEMMA Powers ==
    ASSUME NEW x \in Word
    PROVE  pow2[x % Width] \in Nat /\ pow2[x % Width] >= 1
<1>1. x % Width \in 0..(Width - 1)
    BY WidthNat, Divided, Words
<1> QED BY <1>1, PowersOfTwo, WidthNat

LEMMA AluIsWord ==
    ASSUME NEW op \in ThreeRegister, NEW x \in Word, NEW y \in Word
    PROVE  alu(op, x, y) \in Word
<1> DEFINE p == pow2[x % Width]
<1>1. p \in Nat /\ p >= 1
    BY Powers
<1> HIDE DEF p
<1>2. x \in Nat /\ y \in Nat /\ signed(y) \in Int /\ x + y \in Int /\ x - y \in Int /\ y * p \in Int
    BY <1>1, Words, Signs
<1>3. wrap(x + y) \in Word /\ wrap(x - y) \in Word /\ wrap(y * p) \in Word
    BY <1>2, Words
<1>4. y \div p \in Word
  <2>1. y \div p \in 0..y
      BY <1>1, <1>2, Quotient
  <2>2. y \in 0..(WordMod - 1) /\ WordMod \in Nat
      BY Moduli DEF Word
  <2> QED BY <2>1, <2>2 DEF Word
<1>5. wrap(signed(y) \div p) \in Word
  <2>1. signed(y) \div p \in Int
      BY <1>1, <1>2, Divided
  <2> QED BY <2>1, Words
<1>6. \A S : WordMod - 1 - number(S) \in Word
    BY NumberIsWord, Moduli DEF Word
<1>7. CASE op \in {"addu", "subu", "sllv", "srlv", "srav"}
    BY <1>3, <1>4, <1>5, <1>7 DEF alu, p
<1>8. CASE op \in {"and", "or", "xor", "nor"}
    BY <1>6, <1>8, NumberIsWord DEF alu
<1>9. CASE op \in {"slt", "sltu"}
    BY <1>9, Words DEF alu
<1> QED BY <1>7, <1>8, <1>9 DEF ThreeRegister

LEMMA Operands ==
    ASSUME NEW i \in Instruction
    PROVE  /\ i.op \in Op /\ i.rd \in Reg /\ i.rs \in Reg /\ i.rt \in Reg
           /\ i.imm \in Word /\ simm(i) \in Int
           /\ i.op \notin {"j", "jal"} => i.imm \in Half
<1>1. /\ i.rd \in Reg /\ i.rs \in Reg /\ i.rt \in Reg /\ i.imm \in Word
      /\ i.op \notin {"j", "jal"} => i.imm \in Half
    BY Words DEF Instruction
<1>2. i.op \in Op
    BY DEF Instruction, Op, Jump
<1>3. simm(i) \in Int
  <2>1. i.imm \in Int /\ HalfMod \in Int
      BY <1>1, Numbers, Moduli
  <2> QED BY <2>1, Signs DEF simm
<1> QED BY <1>1, <1>2, <1>3

LEMMA ImmediateIsWord ==
    ASSUME NEW i \in Instruction, i.op \in Immediate, NEW x \in Word
    PROVE  aluImmediate(i.op, x, i) \in Word
<1>1. i.imm \in Word /\ simm(i) \in Int /\ x \in Int
    BY Operands, Words
<1>2. CASE i.op = "addiu"
    BY <1>1, <1>2, Words DEF aluImmediate
<1>3. CASE i.op \in {"slti", "sltiu"}
    BY <1>3, Words DEF aluImmediate
<1>4. CASE i.op \in {"andi", "ori", "xori"}
  <2>1. alu("and", x, i.imm) \in Word /\ alu("or", x, i.imm) \in Word /\ alu("xor", x, i.imm) \in Word
      BY <1>1, AluIsWord DEF ThreeRegister
  <2> QED BY <1>4, <2>1 DEF aluImmediate
<1> QED BY <1>2, <1>3, <1>4 DEF Immediate

LEMMA LoadedIsWord ==
    ASSUME NEW op \in Load, NEW m \in [Word -> Byte], NEW a \in Word
    PROVE  loaded(op, m, a) \in Word
<1>1. m[a] \in Byte /\ getHalfWord(m, a) \in Half /\ getWord(m, a) \in Word
    BY Reads
<1>2. m[a] \in Word /\ getHalfWord(m, a) \in Word
    BY <1>1, Words
<1>3. wrap(extend(getHalfWord(m, a), HalfMod)) \in Word /\ wrap(extend(m[a], ByteMod)) \in Word
  <2>1. m[a] \in Int /\ getHalfWord(m, a) \in Int
      BY <1>2, Numbers
  <2>3. HalfMod \in Int /\ ByteMod \in Int
      BY Moduli
  <2>2. extend(getHalfWord(m, a), HalfMod) \in Int /\ extend(m[a], ByteMod) \in Int
      BY <2>1, <2>3, Signs
  <2> QED BY <2>2, Words
<1> QED BY <1>1, <1>2, <1>3 DEF Load, loaded

LEMMA StoredIsMemory ==
    ASSUME NEW op \in Store, NEW m \in [Word -> Byte], NEW a \in Word, NEW w \in Word
    PROVE  stored(op, m, a, w) \in [Word -> Byte]
<1>1. w % HalfMod \in Half /\ w % ByteMod \in Byte
    BY Remainders
<1>2. setWord(m, a, w) \in [Word -> Byte] /\ setHalfWord(m, a, w % HalfMod) \in [Word -> Byte]
    BY <1>1, Sets, SetsHalf
<1> QED BY <1>1, <1>2 DEF Store, stored
-----------------------------------------------------------------------------
(* What instructions do to a state leaves it a state.                      *)
LEMMA Parts ==
    ASSUME NEW s \in State
    PROVE  /\ s.reg \in [Reg -> Word] /\ s.fpr \in [Reg -> Word]
           /\ s.hi \in Word /\ s.lo \in Word /\ s.pc \in Word
           /\ s.mem \in [Word -> Byte]
BY DEF State

LEMMA WriteState ==
    ASSUME NEW s \in State, NEW r \in Reg, NEW v \in Word
    PROVE  /\ write(s, r, v) \in State
           /\ [s EXCEPT !.fpr[r] = v] \in State
BY DEF State, write

LEMMA SetState ==
    ASSUME NEW s \in State, NEW v \in Word
    PROVE  /\ [s EXCEPT !.pc = v] \in State
           /\ [s EXCEPT !.hi = v] \in State
           /\ [s EXCEPT !.lo = v] \in State
BY DEF State

LEMMA MemState ==
    ASSUME NEW s \in State, NEW m \in [Word -> Byte]
    PROVE  [s EXCEPT !.mem = m] \in State
BY DEF State

LEMMA HiLoState ==
    ASSUME NEW s \in State, NEW h \in Word, NEW l \in Word
    PROVE  [s EXCEPT !.hi = h, !.lo = l] \in State
BY DEF State

LEMMA PairState ==
    ASSUME NEW s \in State, NEW r \in Reg, NEW q \in Reg, NEW v \in Word, NEW w \in Word
    PROVE  [s EXCEPT !.fpr[r] = v, !.fpr[q] = w] \in State
BY DEF State

(* How i may end in s: the state is a state, and a trap has left it as it  *)
(* was, but for the register that an overflow has stored.                  *)
Ends(i, s, o) ==
    /\ o.st \in State
    /\ o.trap \in {NOTRAP, SYSCALL, OVERFLOW, TRAP, DIES}
    /\ o.trap \in {SYSCALL, TRAP, DIES} => o.st = s
    /\ o.trap = OVERFLOW => \E v \in Word : o.st = write(s, i.rt, v)

LEMMA DoneEnds ==
    ASSUME NEW i, NEW s, NEW t \in State
    PROVE  Ends(i, s, done(t))
<1>1. t.pc + 4 \in Int
    BY Parts, Numbers
<1>2. wrap(t.pc + 4) \in Word
    BY <1>1, Words
<1>3. [t EXCEPT !.pc = wrap(@ + 4)] = [t EXCEPT !.pc = wrap(t.pc + 4)]
    OBVIOUS
<1>4. done(t).st \in State /\ done(t).trap = NOTRAP
    BY <1>2, <1>3, SetState DEF done, State
<1> QED BY <1>4 DEF Ends, NOTRAP, SYSCALL, OVERFLOW, TRAP, DIES

LEMMA ThrowsEnds ==
    ASSUME NEW i, NEW s \in State, NEW code \in {SYSCALL, TRAP, DIES}
    PROVE  Ends(i, s, throws(s, code))
BY DEF Ends, throws, NOTRAP, SYSCALL, OVERFLOW, TRAP, DIES

LEMMA CheckedEnds ==
    ASSUME NEW i \in Instruction, NEW s \in State, NEW n \in Int
    PROVE  Ends(i, s, checked(s, i.rt, n))
<1> DEFINE t == write(s, i.rt, wrap(n))
<1>1. wrap(n) \in Word /\ i.rt \in Reg
    BY Words, Operands
<1>2. t \in State
    BY <1>1, WriteState
<1>3. Ends(i, s, done(t))
    BY <1>2, DoneEnds
<1>4. Ends(i, s, throws(t, OVERFLOW))
    BY <1>1, <1>2 DEF Ends, throws, NOTRAP, SYSCALL, OVERFLOW, TRAP, DIES
<1>5. checked(s, i.rt, n) = IF signed(wrap(n)) = n THEN done(t) ELSE throws(t, OVERFLOW)
    BY DEF checked
<1> QED BY <1>3, <1>4, <1>5

LEMMA SetHiLoEnds ==
    ASSUME NEW i, NEW s \in State, NEW h \in Int, NEW l \in Int
    PROVE  Ends(i, s, setHiLo(s, h, l))
<1>1. wrap(h) \in Word /\ wrap(l) \in Word
    BY Words
<1>2. [s EXCEPT !.hi = wrap(h), !.lo = wrap(l)] \in State
    BY <1>1, HiLoState
<1> QED BY <1>2, DoneEnds DEF setHiLo

(* Truncating division by a number other than 0 yields integers.           *)
LEMMA Truncated ==
    ASSUME NEW n \in Int, NEW d \in Int, d # 0
    PROVE  quotient(n, d) \in Int /\ remainder(n, d) \in Int
<1>1. magnitude(n) \in Int /\ magnitude(d) \in Nat /\ magnitude(d) >= 1
    BY DEF magnitude
<1>2. magnitude(n) \div magnitude(d) \in Int
    BY ONLY <1>1, Divided
<1>3. quotient(n, d) \in Int
    BY <1>2 DEF quotient
<1> QED BY <1>3 DEF remainder

LEMMA HiLoEnds ==
    ASSUME NEW i, NEW s \in State, NEW op \in {"mult", "multu", "div", "divu"},
           NEW x \in Word, NEW y \in Word, NEW o \in hiLoOp(op, s, x, y)
    PROVE  Ends(i, s, o)
<1> DEFINE p == signed(x) * signed(y)
           q == signed(wrap(p))
<1>1. x \in Int /\ y \in Nat /\ signed(x) \in Int /\ signed(y) \in Int /\ (y # 0 => signed(y) # 0)
    BY Words, Signs, Numbers
<1>2. p \in Int
    BY <1>1
<1>3. q \in Int
    BY <1>2, Words, Signs
<1>4. CASE op = "mult"
  <2>1. o \in {setHiLo(s, p \div WordMod, p), setHiLo(s, q \div WordMod, q)}
      BY <1>4 DEF hiLoOp
  <2> HIDE DEF p, q
  <2>2. WordMod \in Nat /\ WordMod >= 1
      BY Moduli
  <2>3. p \div WordMod \in Int /\ q \div WordMod \in Int
      BY <1>2, <1>3, <2>2, Divided
  <2> QED BY <1>2, <1>3, <2>1, <2>3, SetHiLoEnds
<1>5. CASE op = "multu"
  <2>1. o = setHiLo(s, 0, x * y)
      BY <1>5 DEF hiLoOp
  <2>2. 0 \in Int /\ x * y \in Int
      BY <1>1
  <2> QED BY <2>1, <2>2, SetHiLoEnds
<1>6. CASE op = "div"
  <2>1. CASE y = 0 \/ (signed(y) = -1 /\ x = WordMod \div 2)
      BY <1>6, <2>1, ThrowsEnds DEF hiLoOp
  <2>2. CASE ~(y = 0 \/ (signed(y) = -1 /\ x = WordMod \div 2))
    <3>1. o = setHiLo(s, remainder(signed(x), signed(y)), quotient(signed(x), signed(y)))
        BY <1>6, <2>2 DEF hiLoOp
    <3>2. signed(x) \in Int /\ signed(y) \in Int /\ signed(y) # 0
        BY <1>1, <2>2
    <3>3. /\ remainder(signed(x), signed(y)) \in Int
          /\ quotient(signed(x), signed(y)) \in Int
        BY <3>2, Truncated
    <3> QED BY <3>1, <3>3, SetHiLoEnds
  <2> QED BY <2>1, <2>2
<1>7. CASE op = "divu"
  <2>1. CASE y = 0
      BY <1>7, <2>1, ThrowsEnds DEF hiLoOp
  <2>2. CASE y # 0
    <3>1. o = setHiLo(s, x % y, x \div y)
        BY <1>7, <2>2 DEF hiLoOp
    <3>2. y \in Nat /\ y >= 1 /\ x \in Int
        BY <1>1, <2>2
    <3>3. x % y \in 0..(y - 1) /\ x \div y \in Int
        BY ONLY <3>2, Divided
    <3>4. x % y \in Int
        BY <3>3
    <3> QED BY <3>1, <3>3, <3>4, SetHiLoEnds
  <2> QED BY <2>1, <2>2
<1> QED BY <1>4, <1>5, <1>6, <1>7

LEMMA FpEnds ==
    ASSUME NEW i \in Instruction, NEW s \in State, NEW o \in fpOperation(i, s)
    PROVE  Ends(i, s, o)
<1>1. i.rd \in Reg
    BY Operands
<1>2. CASE i.op = "fp.s"
  <2>1. PICK v \in FpResults : o = single(i, s, v)
      BY <1>2 DEF fpOperation
  <2>2. [s EXCEPT !.fpr[i.rd] = v] \in State
      BY <1>1, FpAssumption, WriteState
  <2> QED BY <2>1, <2>2, DoneEnds DEF single
<1>3. CASE i.op = "fp.d" /\ {i.rd, i.rs, i.rt} \subseteq DOMAIN Odd
  <2>1. PICK v \in FpResults \X FpResults : o = double(i, s, v)
      BY <1>3 DEF fpOperation
  <2>2. Odd[i.rd] \in Reg /\ v[1] \in Word /\ v[2] \in Word
      BY <1>3, RegAssumption, FpAssumption
  <2>3. [s EXCEPT !.fpr[i.rd] = v[1], !.fpr[Odd[i.rd]] = v[2]] \in State
      BY <1>1, <2>2, PairState
  <2> QED BY <2>1, <2>3, DoneEnds DEF double
<1>4. CASE i.op # "fp.s" /\ ~(i.op = "fp.d" /\ {i.rd, i.rs, i.rt} \subseteq DOMAIN Odd)
  <2>1. fpOperation(i, s) = {throws(s, DIES)}
      BY <1>4 DEF fpOperation
  <2> QED BY <2>1, ThrowsEnds
<1> QED BY <1>2, <1>3, <1>4

LEMMA JumpedState ==
    ASSUME NEW i \in Instruction, i.op \in Jump, NEW s \in State
    PROVE  jumped(i, s) \in State
<1>1. /\ i.rd \in Reg /\ i.rs \in Reg /\ i.imm \in Int /\ i.imm - 4 \in Int
      /\ s.pc \in Word /\ RA \in Reg
    BY Operands, Numbers, Parts, RegAssumption
<1>2. wrap(i.imm - 4) \in Word
    BY <1>1, Words
<1> DEFINE t(r) == write(s, r, s.pc)
<1>3. t(RA) \in State /\ t(i.rd) \in State
    BY <1>1, WriteState
<1>4. t(i.rd).reg[i.rs] \in Word /\ s.reg[i.rs] \in Word
    BY <1>1, <1>3, Parts
<1>5. /\ [t(RA) EXCEPT !.pc = wrap(i.imm - 4)] \in State
      /\ [s EXCEPT !.pc = wrap(i.imm - 4)] \in State
      /\ [s EXCEPT !.pc = s.reg[i.rs]] \in State
      /\ [t(i.rd) EXCEPT !.pc = t(i.rd).reg[i.rs]] \in State
  <2> HIDE DEF t
  <2> QED BY <1>2, <1>3, <1>4, SetState
<1> QED BY <1>5 DEF jumped, Jump, link
LEMMA MovedState ==
    ASSUME NEW i \in Instruction, i.op \in {"mfhi", "mflo", "mthi", "mtlo"}, NEW s \in State
    PROVE  moveHiLo(i, s) \in State
<1>1. i.rd \in Reg /\ s.hi \in Word /\ s.lo \in Word /\ s.reg[i.rs] \in Word
    BY Operands, Parts
<1> QED BY <1>1, WriteState, SetState DEF moveHiLo

LEMMA FpMovedState ==
    ASSUME NEW i \in Instruction, NEW s \in State, NEW a \in Word
    PROVE  fpMove(i, s, a) \in State
<1>1. i.rt \in Reg /\ s.mem \in [Word -> Byte] /\ s.fpr[i.rt] \in Word
    BY Operands, Parts
<1>2. getWord(s.mem, a) \in Word /\ setWord(s.mem, a, s.fpr[i.rt]) \in [Word -> Byte]
    BY <1>1, Reads, Sets
<1> QED BY <1>1, <1>2, WriteState, MemState DEF fpMove

(* Every instruction of the set ends in one of those ways.                 *)
LEMMA RunEnds ==
    ASSUME NEW i \in Instruction, NEW s \in State, NEW o \in run(i, s)
    PROVE  Ends(i, s, o)
<1> DEFINE x == s.reg[i.rs]
           y == s.reg[i.rt]
           a == wrap(x + simm(i))
<1>1. /\ i.op \in Op /\ i.rd \in Reg /\ i.rs \in Reg /\ i.rt \in Reg
      /\ i.imm \in Word /\ simm(i) \in Int
      /\ i.op \notin {"j", "jal"} => i.imm \in Half
    BY Operands
<1>2. x \in Word /\ y \in Word
    BY <1>1, Parts
<1>3. signed(x) \in Int /\ signed(y) \in Int
    BY <1>2, Signs
<1>4. a \in Word
  <2>1. x + simm(i) \in Int
      BY <1>1, <1>2, Numbers
  <2> QED BY <2>1, Words
<1>5. s.mem \in [Word -> Byte] /\ s.pc \in Word
    BY Parts
<1>6. CASE i.op \in ThreeRegister
  <2>1. o = done(write(s, i.rd, alu(i.op, x, y)))
      BY <1>6 DEF run, ThreeRegister, Shift, Immediate, Load, Store, Branch, Jump,
                  FpMove, FpFormat
  <2>2. write(s, i.rd, alu(i.op, x, y)) \in State
      BY <1>1, <1>2, <1>6, AluIsWord, WriteState
  <2> QED BY <2>1, <2>2, DoneEnds
<1>7. CASE i.op \in Shift
  <2>1. o = done(write(s, i.rd, alu(shiftOf[i.op], i.imm, y)))
      BY <1>7 DEF run, ThreeRegister, Shift, Immediate, Load, Store, Branch, Jump,
                  FpMove, FpFormat
  <2>2. shiftOf[i.op] \in ThreeRegister
      BY <1>7 DEF shiftOf, Shift, ThreeRegister
  <2>3. alu(shiftOf[i.op], i.imm, y) \in Word
      BY <1>1, <1>2, <2>2, AluIsWord
  <2> QED BY <1>1, <2>1, <2>3, WriteState, DoneEnds
<1>8. CASE i.op \in Immediate
  <2>1. o = done(write(s, i.rt, aluImmediate(i.op, x, i)))
      BY <1>8 DEF run, ThreeRegister, Shift, Immediate, Load, Store, Branch, Jump,
                  FpMove, FpFormat
  <2>2. aluImmediate(i.op, x, i) \in Word
      BY <1>2, <1>8, ImmediateIsWord
  <2> QED BY <1>1, <2>1, <2>2, WriteState, DoneEnds
<1>9. CASE i.op \in {"lui", "movn", "teq", "syscall", "sync"}
  <2>1. i.imm * HalfMod \in Word
    <3>1. /\ i.imm \in 0..(HalfMod - 1) /\ HalfMod \in Nat /\ 0 \in 0..(HalfMod - 1)
        BY <1>1, <1>9, Moduli DEF Half
    <3>2. i.imm * HalfMod + 0 \in 0..(HalfMod * HalfMod - 1)
        BY ONLY <3>1, Joined
    <3>3. i.imm * HalfMod \in Int
        BY <3>1
    <3> QED BY <3>2, <3>3, Moduli DEF Word
  <2>2. CASE i.op = "lui"
    <3>1. o = done(write(s, i.rt, i.imm * HalfMod))
        BY <2>2 DEF run, ThreeRegister, Shift, Immediate, Load, Store, Branch, Jump,
                    FpMove, FpFormat
    <3> QED BY <1>1, <2>1, <3>1, WriteState, DoneEnds
  <2>3. CASE i.op = "movn"
    <3>1. o = done(IF y # 0 THEN write(s, i.rd, x) ELSE s)
        BY <2>3 DEF run, ThreeRegister, Shift, Immediate, Load, Store, Branch, Jump,
                    FpMove, FpFormat
    <3>2. (IF y # 0 THEN write(s, i.rd, x) ELSE s) \in State
        BY <1>1, <1>2, WriteState
    <3> QED BY <3>1, <3>2, DoneEnds
  <2>4. CASE i.op = "teq"
    <3>1. o = throws(s, TRAP) \/ o = done(s)
        BY <2>4 DEF run, ThreeRegister, Shift, Immediate, Load, Store, Branch, Jump,
                    FpMove, FpFormat
    <3> QED BY <3>1, ThrowsEnds, DoneEnds
  <2>5. CASE i.op = "syscall"
    <3>1. o = throws(s, SYSCALL)
        BY <2>5 DEF run, ThreeRegister, Shift, Immediate, Load, Store, Branch, Jump,
                    FpMove, FpFormat
    <3> QED BY <3>1, ThrowsEnds
  <2>6. CASE i.op = "sync"
    <3>1. o = done(s)
        BY <2>6 DEF run, ThreeRegister, Shift, Immediate, Load, Store, Branch, Jump,
                    FpMove, FpFormat
    <3> QED BY <3>1, DoneEnds
  <2> QED BY <1>9, <2>2, <2>3, <2>4, <2>5, <2>6
<1>10. CASE i.op \in Checked
  <2>1. \E n \in Int : o = checked(s, i.rt, n)
    <3>1. CASE i.op = "add"
      <4>1. o = checked(s, i.rt, signed(x) + signed(y))
          BY <3>1 DEF run, ThreeRegister, Shift, Immediate, Load, Store, Branch, Jump,
                      FpMove, FpFormat
      <4> QED BY <1>3, <4>1
    <3>2. CASE i.op = "sub"
      <4>1. o = checked(s, i.rt, signed(x) - signed(y))
          BY <3>2 DEF run, ThreeRegister, Shift, Immediate, Load, Store, Branch, Jump,
                      FpMove, FpFormat
      <4> QED BY <1>3, <4>1
    <3>3. CASE i.op = "addi"
      <4>1. o = checked(s, i.rt, signed(x) + simm(i))
          BY <3>3 DEF run, ThreeRegister, Shift, Immediate, Load, Store, Branch, Jump,
                      FpMove, FpFormat
      <4> QED BY <1>1, <1>3, <4>1
    <3> QED BY <1>10, <3>1, <3>2, <3>3 DEF Checked
  <2> QED BY <2>1, CheckedEnds
<1>11. CASE i.op \in Load
  <2>1. o = done(write(s, i.rt, loaded(i.op, s.mem, a)))
      BY <1>11 DEF run, ThreeRegister, Shift, Immediate, Load, Store, Branch, Jump,
                   FpMove, FpFormat
  <2>2. loaded(i.op, s.mem, a) \in Word
      BY <1>4, <1>5, <1>11, LoadedIsWord
  <2> QED BY <1>1, <2>1, <2>2, WriteState, DoneEnds
<1>12. CASE i.op \in Store
  <2>1. o = done([s EXCEPT !.mem = stored(i.op, s.mem, a, y)])
      BY <1>12 DEF run, ThreeRegister, Shift, Immediate, Load, Store, Branch, Jump,
                   FpMove, FpFormat
  <2>2. stored(i.op, s.mem, a, y) \in [Word -> Byte]
      BY <1>2, <1>4, <1>5, <1>12, StoredIsMemory
  <2>3. [s EXCEPT !.mem = stored(i.op, s.mem, a, y)] \in State
      BY <2>2, MemState
  <2> QED BY <2>1, <2>3, DoneEnds
<1>13. CASE i.op \in Branch
  <2>1. o = done(IF taken(i.op, x, y) THEN [s EXCEPT !.pc = wrap(s.pc + 4 * simm(i))] ELSE s)
      BY <1>13 DEF run, ThreeRegister, Shift, Immediate, Load, Store, Branch, Jump,
                   FpMove, FpFormat
  <2>2. wrap(s.pc + 4 * simm(i)) \in Word
    <3>1. s.pc + 4 * simm(i) \in Int
        BY <1>1, <1>5, Numbers
    <3> QED BY <3>1, Words
  <2>3. [s EXCEPT !.pc = wrap(s.pc + 4 * simm(i))] \in State
      BY <2>2, SetState
  <2> QED BY <2>1, <2>3, DoneEnds
<1>14. CASE i.op \in Jump
  <2>1. o = done(jumped(i, s))
      BY <1>14 DEF run, ThreeRegister, Shift, Immediate, Load, Store, Branch, Jump,
                   FpMove, FpFormat
  <2> QED BY <1>14, <2>1, JumpedState, DoneEnds
<1>15. CASE i.op \in {"mult", "multu", "div", "divu"}
  <2>1. o \in hiLoOp(i.op, s, x, y)
      BY <1>15 DEF run, ThreeRegister, Shift, Immediate, Load, Store, Branch, Jump,
                   FpMove, FpFormat
  <2> QED BY <1>2, <1>15, <2>1, HiLoEnds
<1>16. CASE i.op \in {"mfhi", "mflo", "mthi", "mtlo"}
  <2>1. o = done(moveHiLo(i, s))
      BY <1>16 DEF run, ThreeRegister, Shift, Immediate, Load, Store, Branch, Jump,
                   FpMove, FpFormat
  <2> QED BY <1>16, <2>1, MovedState, DoneEnds
<1>17. CASE i.op \in FpMove
  <2>1. o = done(fpMove(i, s, a))
      BY <1>17 DEF run, ThreeRegister, Shift, Immediate, Load, Store, Branch, Jump,
                   FpMove, FpFormat
  <2> QED BY <1>4, <2>1, FpMovedState, DoneEnds
<1>18. CASE i.op \in FpFormat
  <2>1. o \in fpOperation(i, s)
      BY <1>18 DEF run, ThreeRegister, Shift, Immediate, Load, Store, Branch, Jump,
                   FpMove, FpFormat
  <2> QED BY <2>1, FpEnds
<1>19. i.op \in HiLo => i.op \in {"mult", "multu", "div", "divu"} \cup {"mfhi", "mflo", "mthi", "mtlo"}
    BY DEF HiLo
<1> QED BY <1>1, <1>6, <1>7, <1>8, <1>9, <1>10, <1>11, <1>12, <1>13, <1>14,
           <1>15, <1>16, <1>17, <1>18, <1>19 DEF Op
-----------------------------------------------------------------------------
(* CacheMatches, with the shape of the cache and of the encoding.          *)
CacheInv ==
    /\ cache = [a \in Word |-> cache[a]]
    /\ encoding = [w \in Word |-> encoding[w]]
    /\ CacheMatches

(* At boot the cache is empty.                                             *)
LEMMA CacheInitially == Init => CacheInv
<1> SUFFICES ASSUME Init PROVE CacheInv
    OBVIOUS
<1>1. encoding \in Encoding
    BY ImageAssumption DEF Init, Start
<1> QED BY <1>1 DEF Init, CacheInv, CacheMatches, cached, Encoding

(* An instruction that ran is in the cache under the address it was        *)
(* fetched from, and whatever it overwrote is in changed.                  *)
LEMMA RanKeepsCache ==
    ASSUME CacheInv, ran(current)
    PROVE  CacheInv'
<1>1. cache' = [a \in Word |-> IF a = st.pc THEN current ELSE cache[a]]
    BY DEF ran, slot, CacheInv
<1>2. cache' = [a \in Word |-> cache'[a]]
    BY <1>1
<1>3. CacheMatches'
  <2> SUFFICES ASSUME NEW a \in Word, cache'[a] # Empty,
                      cache'[a] # encoding'[getWord(st'.mem, a)]
               PROVE  a \in changed'
      BY DEF CacheMatches, cached, decode
  <2>1. CASE getWord(st'.mem, a) # getWord(st.mem, a)
    <3>1. a \in cached \cup {st.pc}
        BY <1>1 DEF cached
    <3> QED BY <2>1, <3>1 DEF ran
  <2>2. CASE getWord(st'.mem, a) = getWord(st.mem, a)
    <3>1. cache'[a] # decode(a)
        BY <2>2 DEF ran, decode
    <3>2. cache[a] # Empty /\ cache[a] # decode(a)
        BY <1>1, <3>1 DEF current, cached
    <3> QED BY <3>2 DEF CacheInv, CacheMatches, cached, ran
  <2> QED BY <2>1, <2>2
<1> QED BY <1>2, <1>3 DEF CacheInv, ran

(* A step runs an instruction, or decode throws and leaves cache and       *)
(* memory alone.                                                           *)
LEMMA CacheStep == CacheInv /\ [Next]_vars => CacheInv'
<1> SUFFICES ASSUME CacheInv, [Next]_vars PROVE CacheInv'
    OBVIOUS
<1>1. CASE Cycle
    BY <1>1, RanKeepsCache DEF Cycle, Complete, Throw, Die
<1>2. CASE DecodeThrows
  <2>1. UNCHANGED <<encoding, cache, changed>> /\ st' = [st EXCEPT !.pc = TrapEntry]
      BY <1>2 DEF DecodeThrows, raiseTrap
  <2>2. CacheMatches'
    <3> SUFFICES ASSUME NEW a \in cached
                 PROVE  cache[a] = encoding[getWord(st'.mem, a)] \/ a \in changed
        BY <2>1 DEF CacheMatches, cached, decode
    <3>1. cache[a] = decode(a) \/ a \in changed
        BY DEF CacheInv, CacheMatches
    <3> QED BY <2>1, <3>1 DEF decode
  <2> QED BY <2>1, <2>2 DEF CacheInv
<1>3. CASE UNCHANGED vars
    BY <1>3 DEF vars, CacheInv, CacheMatches, cached, decode
<1> QED BY <1>1, <1>2, <1>3 DEF Next

(* A cached instruction is the one in memory, or its word was overwritten  *)
(* after it had been executed.                                             *)
THEOREM CacheIsMemory == Spec => []CacheMatches
<1>1. CacheInv => CacheMatches
    BY DEF CacheInv
<1> QED BY CacheInitially, CacheStep, <1>1, PTL DEF Spec

-----------------------------------------------------------------------------
(* The invariant of the CPU: a cached instruction stands for some word of  *)
(* the image, and a link that is still remembered is still in its register.*)
FromImage == \A a \in cached : \E w \in Word : cache[a] = encoding[w]
LinksHeld == \A r \in Reg : calls[r] # NoCall => st.reg[r] = calls[r]

CpuInv ==
    /\ CpuTypeOK
    /\ CacheMatches
    /\ changed \subseteq cached
    /\ FromImage
    /\ LinksHeld

LEMMA InitCpuInv == Init => CpuInv
<1> SUFFICES ASSUME Init PROVE CpuInv
    OBVIOUS
<1>1. PICK im \in Images, h \in Uninitialised, l \in Uninitialised :
         encoding = im.encoding /\ st = Booted(im, h, l)
    BY DEF Init, Start
<1>2. /\ im.mem \in [Word -> Byte] /\ im.entry \in Word /\ im.encoding \in Encoding
      /\ h \in Word /\ l \in Word /\ 0 \in Word
    BY ImageAssumption, Words
<1>3. st \in State
    BY <1>1, <1>2 DEF Booted, State
<1>4. cached = {} /\ changed = {} /\ LinksHeld
    BY DEF Init, cached, LinksHeld
<1>5. CpuTypeOK
    BY <1>1, <1>2, <1>3 DEF Init, CpuTypeOK
<1> QED BY <1>4, <1>5 DEF CpuInv, CacheMatches, FromImage

(* What is fetched is an instruction of the image.                         *)
LEMMA Current ==
    ASSUME CpuInv
    PROVE  /\ \E w \in Word : current = encoding[w]
           /\ current # Reserved => current \in Instruction
           /\ current # Empty
           /\ current = decode(st.pc) \/ st.pc \in changed
           /\ st.pc \in cached => current # Reserved
<1>1. /\ encoding \in [Word -> Instruction \cup {Reserved}] /\ st \in State
      /\ cache \in [Word -> Instruction \cup {Empty}]
    BY DEF CpuInv, CpuTypeOK, Encoding
<1>2. st.pc \in Word /\ getWord(st.mem, st.pc) \in Word
  <2>1. st.pc \in Word /\ st.mem \in [Word -> Byte]
      BY <1>1, Parts
  <2> QED BY <2>1, Reads
<1>3. Reserved.op = "reserved" /\ Empty.op = "empty"
    BY DEF Reserved, Empty, Nothing
<1>4. \A i \in Instruction : i.op \notin {"reserved", "empty"}
    BY Operands DEF Op, ThreeRegister, Shift, Immediate, Load, Store, Branch, Checked,
                    Jump, HiLo, FpMove, FpFormat
<1>5. CASE st.pc \in cached
  <2>1. current = cache[st.pc] /\ cache[st.pc] \in Instruction
      BY <1>1, <1>2, <1>5 DEF current, cached
  <2> QED BY <1>3, <1>4, <1>5, <2>1 DEF CpuInv, FromImage, CacheMatches
<1>6. CASE st.pc \notin cached
  <2>1. current = encoding[getWord(st.mem, st.pc)]
      BY <1>6 DEF current, decode
  <2>2. current \in Instruction \cup {Reserved}
      BY <1>1, <1>2, <2>1
  <2> QED BY <1>2, <1>3, <1>4, <1>6, <2>1, <2>2 DEF decode
<1> QED BY <1>5, <1>6

(* One of the ways the instruction ends, and what cycle() makes of it.     *)
Outcome(o) ==
    /\ o \in run(current, st)
    /\ Ends(current, st, o)
    /\ o.trap = NOTRAP => st' = o.st /\ UNCHANGED <<epc, cause, alive>>
    /\ o.trap = DIES => alive' = FALSE /\ UNCHANGED <<st, epc, cause>>
    /\ o.trap \notin {NOTRAP, DIES} => raiseTrap(o.st, o.trap)

LEMMA CycleOutcome ==
    ASSUME CpuInv, Cycle
    PROVE  current \in Instruction /\ ran(current) /\ \E o : Outcome(o)
<1>1. current \in Instruction /\ st \in State
    BY Current DEF Cycle, CpuInv, CpuTypeOK
<1>2. \A o \in run(current, st) : Ends(current, st, o)
    BY <1>1, RunEnds
<1>3. NOTRAP # DIES
    BY DEF NOTRAP, DIES
<1>4. CASE Complete(current)
    BY <1>1, <1>2, <1>3, <1>4 DEF Complete, Outcome
<1>5. CASE Throw(current)
    BY <1>1, <1>2, <1>3, <1>5 DEF Throw, Outcome
<1>6. CASE Die(current)
    BY <1>1, <1>2, <1>3, <1>6 DEF Die, Outcome
<1> QED BY <1>4, <1>5, <1>6 DEF Cycle

(* A call stores the link.                                                 *)
LEMMA CallLinks ==
    ASSUME NEW i \in Instruction, NEW s \in State, NEW r \in linked(i), NEW o \in run(i, s)
    PROVE  o.trap = NOTRAP /\ r \in Reg /\ o.st.reg[r] = s.pc
<1>1. i.op \in {"jal", "jalr"} /\ r = (IF i.op = "jal" THEN RA ELSE i.rd)
    BY DEF linked
<1>2. r \in Reg /\ s.reg \in [Reg -> Word]
    BY <1>1, Operands, RegAssumption, Parts
<1>3. o = done(jumped(i, s))
    BY <1>1 DEF run, ThreeRegister, Shift, Immediate, Load, Store, Branch, Jump,
                FpMove, FpFormat
<1>4. jumped(i, s) \in State
    BY <1>1, JumpedState DEF Jump
<1>5. o.st.reg = jumped(i, s).reg /\ o.trap = NOTRAP
    BY <1>3, <1>4 DEF done, State
<1>6. jumped(i, s).reg[r] = s.pc
  <2>1. write(s, r, s.pc).reg = [s.reg EXCEPT ![r] = s.pc]
      BY DEF write, State
  <2>2. write(s, r, s.pc) \in State
      BY <1>2, Parts, WriteState
  <2>3. \A v : [write(s, r, s.pc) EXCEPT !.pc = v].reg = write(s, r, s.pc).reg
      BY <2>2 DEF State
  <2>4. jumped(i, s).reg = write(s, r, s.pc).reg
      BY <1>1, <2>3 DEF jumped, link
  <2> QED BY <1>2, <2>1, <2>4
<1> QED BY <1>2, <1>5, <1>6

LEMMA CycleState ==
    ASSUME CpuInv, Cycle
    PROVE  /\ st' \in State /\ epc' \in Word /\ alive' \in BOOLEAN
           /\ cause' \in {0, SYSCALL, RI, OVERFLOW, TRAP}
<1>1. PICK o : Outcome(o)
    BY CycleOutcome
<1>2. /\ o.st \in State /\ TrapEntry \in Word /\ o.st.pc \in Word
      /\ epc \in Word /\ cause \in {0, SYSCALL, RI, OVERFLOW, TRAP} /\ alive \in BOOLEAN
      /\ st \in State
    BY <1>1, ImageAssumption, Parts DEF Outcome, Ends, CpuInv, CpuTypeOK
<1>3. CASE o.trap = NOTRAP
    BY <1>1, <1>2, <1>3 DEF Outcome
<1>4. CASE o.trap = DIES
    BY <1>1, <1>2, <1>4 DEF Outcome
<1>5. CASE o.trap \notin {NOTRAP, DIES}
  <2>1. raiseTrap(o.st, o.trap) /\ o.trap \in {SYSCALL, OVERFLOW, TRAP}
      BY <1>1, <1>5 DEF Outcome, Ends
  <2>2. epc' = o.st.pc /\ cause' = o.trap /\ st' = [o.st EXCEPT !.pc = TrapEntry] /\ alive' = alive
      BY <2>1 DEF raiseTrap, trapPc
  <2> QED BY <1>2, <2>1, <2>2, SetState
<1> QED BY <1>3, <1>4, <1>5

(* The cache and the two histories after an instruction.                   *)
LEMMA CycleCache ==
    ASSUME CpuInv, Cycle
    PROVE  /\ cache' \in [Word -> Instruction \cup {Empty}]
           /\ cached' = cached \cup {st.pc}
           /\ changed' = changed \cup
                 {a \in cached' : getWord(st'.mem, a) # getWord(st.mem, a)}
           /\ changed' \subseteq cached'
           /\ cached' \subseteq Word
           /\ FromImage'
<1>1. current \in Instruction /\ current # Empty /\ ran(current)
    BY CycleOutcome, Current
<1>2. /\ cache \in [Word -> Instruction \cup {Empty}] /\ st.pc \in Word
      /\ changed \subseteq cached
    BY Parts DEF CpuInv, CpuTypeOK
<1>3. cache' = [cache EXCEPT ![st.pc] = current] /\ encoding' = encoding
    BY <1>1 DEF ran, slot
<1>4. cached' = cached \cup {st.pc}
    BY <1>1, <1>2, <1>3 DEF cached
<1>5. changed' = changed \cup
          {a \in cached' : getWord(st'.mem, a) # getWord(st.mem, a)}
    BY <1>1, <1>4 DEF ran
<1>6. FromImage'
  <2> SUFFICES ASSUME NEW a \in cached' PROVE \E w \in Word : cache'[a] = encoding[w]
      BY <1>3 DEF FromImage
  <2>1. CASE a = st.pc
      BY <1>2, <1>3, <2>1, Current
  <2>2. CASE a # st.pc
      BY <1>2, <1>3, <1>4, <2>2 DEF CpuInv, FromImage, cached
  <2> QED BY <2>1, <2>2
<1>7. cached' \subseteq Word
    BY DEF cached
<1> QED BY <1>1, <1>2, <1>3, <1>4, <1>5, <1>6, <1>7

LEMMA CycleLinks ==
    ASSUME CpuInv, Cycle
    PROVE  calls' \in [Reg -> Word \cup {NoCall}] /\ LinksHeld'
<1>1. current \in Instruction /\ ran(current) /\ st \in State
    BY CycleOutcome DEF CpuInv, CpuTypeOK
<1>2. PICK o : Outcome(o)
    BY CycleOutcome
<1>3. calls \in [Reg -> Word \cup {NoCall}] /\ st.pc \in Word
    BY Parts DEF CpuInv, CpuTypeOK
<1>4. calls' = [r \in Reg |->
          IF r \in linked(current) THEN st.pc
          ELSE IF st'.reg[r] = st.reg[r] THEN calls[r] ELSE NoCall]
    BY <1>1 DEF ran
<1>5. calls' \in [Reg -> Word \cup {NoCall}]
    BY <1>3, <1>4
<1>6. LinksHeld'
  <2> SUFFICES ASSUME NEW r \in Reg, calls'[r] # NoCall PROVE st'.reg[r] = calls'[r]
      BY DEF LinksHeld, NoCall, WordMod, HalfMod, ByteMod
  <2>1. CASE r \in linked(current)
    <3>1. o \in run(current, st)
        BY <1>2 DEF Outcome
    <3>2. o.trap = NOTRAP /\ o.st.reg[r] = st.pc
        BY <1>1, <2>1, <3>1, CallLinks
    <3>3. st' = o.st
        BY <1>2, <3>2 DEF Outcome
    <3> QED BY <1>4, <2>1, <3>2, <3>3
  <2>2. CASE r \notin linked(current)
      BY <1>4, <2>2 DEF CpuInv, LinksHeld
  <2> QED BY <2>1, <2>2
<1> QED BY <1>5, <1>6

LEMMA CycleCpuInv ==
    ASSUME CpuInv, Cycle
    PROVE  CpuInv'
<1>1. encoding' = encoding
    BY CycleOutcome DEF ran
<1>2. /\ encoding' \in Encoding /\ changed' \subseteq Word
    BY <1>1, CycleCache DEF CpuInv, CpuTypeOK
<1>3. CpuTypeOK'
    BY <1>2, CycleState, CycleCache, CycleLinks DEF CpuTypeOK, Empty, NoCall
<1>4. CacheMatches'
  <2>1. cache = [a \in Word |-> cache[a]] /\ encoding = [w \in Word |-> encoding[w]]
      BY DEF CpuInv, CpuTypeOK, Encoding
  <2>2. CacheInv /\ ran(current)
      BY <2>1, CycleOutcome DEF CpuInv, CacheInv
  <2>3. CacheInv'
      BY <2>2, RanKeepsCache
  <2> QED BY <2>3 DEF CacheInv
<1> QED BY <1>3, <1>4, CycleCache, CycleLinks DEF CpuInv

LEMMA RefusedCpuInv ==
    ASSUME CpuInv, DecodeThrows
    PROVE  CpuInv'
<1>1. /\ UNCHANGED <<encoding, cache, changed, calls, alive>>
      /\ st' = [st EXCEPT !.pc = TrapEntry] /\ epc' = st.pc /\ cause' = RI
    BY DEF DecodeThrows, raiseTrap, trapPc
<1>2. st \in State /\ TrapEntry \in Word /\ st.pc \in Word
    BY ImageAssumption, Parts DEF CpuInv, CpuTypeOK
<1>3. st' \in State /\ st'.mem = st.mem /\ st'.reg = st.reg
    BY <1>1, <1>2, SetState DEF State
<1>4. cached' = cached
    BY <1>1 DEF cached
<1>5. CpuTypeOK'
    BY <1>1, <1>2, <1>3 DEF CpuInv, CpuTypeOK
<1>6. CacheMatches' /\ FromImage' /\ LinksHeld'
    BY <1>1, <1>3, <1>4 DEF CpuInv, CacheMatches, FromImage, LinksHeld, decode
<1> QED BY <1>1, <1>4, <1>5, <1>6 DEF CpuInv

LEMMA NextCpuInv == CpuInv /\ [Next]_vars => CpuInv'
<1> SUFFICES ASSUME CpuInv, [Next]_vars PROVE CpuInv'
    OBVIOUS
<1>1. CASE UNCHANGED vars
    BY <1>1 DEF vars, CpuInv, CpuTypeOK, CacheMatches, FromImage, LinksHeld, cached, decode
<1> QED BY <1>1, CycleCpuInv, RefusedCpuInv DEF Next

THEOREM CpuInvHolds == Spec => []CpuInv
BY InitCpuInv, NextCpuInv, PTL DEF Spec

THEOREM CpuTyped == Spec => []CpuTypeOK
<1>1. CpuInv => CpuTypeOK
    BY DEF CpuInv
<1> QED BY CpuInvHolds, <1>1, PTL
-----------------------------------------------------------------------------
(* Traps are precise.                                                      *)
TrapIsPrecise ==
    /\ epc' = st.pc
    /\ st'.mem = st.mem /\ st'.fpr = st.fpr /\ st'.hi = st.hi /\ st'.lo = st.lo
    /\ \A r \in Reg : st'.reg[r] # st.reg[r] =>
          cause' = OVERFLOW /\ r = current.rt

(* What an instruction that throws has written.                            *)
LEMMA ThrownPrecise ==
    ASSUME CpuInv, NEW o, Outcome(o), o.trap \notin {NOTRAP, DIES}
    PROVE  TrapIsPrecise
<1>1. st \in State /\ o.st \in State
    BY DEF CpuInv, CpuTypeOK, Outcome, Ends
<1>2. epc' = o.st.pc /\ cause' = o.trap /\ st' = [o.st EXCEPT !.pc = TrapEntry]
    BY DEF Outcome, raiseTrap, trapPc
<1>3. /\ st'.mem = o.st.mem /\ st'.fpr = o.st.fpr /\ st'.hi = o.st.hi
      /\ st'.lo = o.st.lo /\ st'.reg = o.st.reg
    BY <1>1, <1>2 DEF State
<1>4. CASE o.trap \in {SYSCALL, TRAP}
    BY <1>2, <1>3, <1>4 DEF Outcome, Ends, TrapIsPrecise
<1>5. CASE o.trap = OVERFLOW
  <2>1. PICK v \in Word : o.st = write(st, current.rt, v)
      BY <1>5 DEF Outcome, Ends
  <2>2. /\ o.st.mem = st.mem /\ o.st.fpr = st.fpr /\ o.st.hi = st.hi
        /\ o.st.lo = st.lo /\ o.st.pc = st.pc
        /\ o.st.reg = [st.reg EXCEPT ![current.rt] = v]
      BY <1>1, <2>1 DEF write, State
  <2>3. \A r \in Reg : o.st.reg[r] # st.reg[r] => r = current.rt
      BY <1>1, <2>2 DEF State
  <2> QED BY <1>2, <1>3, <1>5, <2>2, <2>3 DEF TrapIsPrecise
<1> QED BY <1>4, <1>5 DEF Outcome, Ends

LEMMA StepIsPrecise ==
    ASSUME CpuInv, Next, epc' # epc \/ cause' # cause
    PROVE  TrapIsPrecise
<1>1. CASE Cycle
  <2>1. PICK o : Outcome(o)
      BY <1>1, CycleOutcome
  <2>2. o.trap \notin {NOTRAP, DIES}
      BY <2>1 DEF Outcome
  <2> QED BY <2>1, <2>2, ThrownPrecise
<1>2. CASE DecodeThrows
  <2>1. epc' = st.pc /\ st' = [st EXCEPT !.pc = TrapEntry] /\ st \in State
      BY <1>2 DEF DecodeThrows, raiseTrap, trapPc, CpuInv, CpuTypeOK
  <2> QED BY <2>1 DEF TrapIsPrecise, State
<1> QED BY <1>1, <1>2 DEF Next

(* Whatever trap is taken, at whatever instruction: coprocessor 0 gets the *)
(* address of that instruction and nothing of it has happened, but for the *)
(* register that an overflow has stored.                                   *)
THEOREM TrapsArePrecise == Spec => PreciseTraps
<1>1. CpuInv /\ [Next]_vars =>
         [st'.pc = TrapEntry /\ (epc' # epc \/ cause' # cause) => TrapIsPrecise]_vars
    BY StepIsPrecise
<1> QED BY CpuInvHolds, <1>1, PTL DEF Spec, PreciseTraps, TrapIsPrecise

-----------------------------------------------------------------------------
(* A return through a link is a jump behind the call.                      *)
BehindCall ==
    current # Reserved /\ current.op = "jr" /\ calls[current.rs] # NoCall =>
        st'.pc = wrap(calls[current.rs] + 4)

LEMMA StepReturns ==
    ASSUME CpuInv, Next
    PROVE  BehindCall
<1> SUFFICES ASSUME current # Reserved, current.op = "jr", calls[current.rs] # NoCall
             PROVE  st'.pc = wrap(calls[current.rs] + 4)
    BY DEF BehindCall
<1>1. Cycle /\ current \in Instruction /\ st \in State
    BY Current DEF Next, CpuInv, CpuTypeOK
<1>2. PICK o : Outcome(o)
    BY <1>1, CycleOutcome
<1>3. o = done([st EXCEPT !.pc = st.reg[current.rs]])
  <2>1. run(current, st) = {done(jumped(current, st))}
      BY DEF run, ThreeRegister, Shift, Immediate, Load, Store, Branch, Jump,
             FpMove, FpFormat
  <2> QED BY <1>2, <2>1 DEF Outcome, jumped
<1>4. o.trap = NOTRAP /\ o.st.pc = wrap(st.reg[current.rs] + 4)
    BY <1>1, <1>3 DEF done, State
<1>5. st.reg[current.rs] = calls[current.rs]
    BY <1>1, Operands DEF CpuInv, LinksHeld
<1> QED BY <1>2, <1>4, <1>5 DEF Outcome

(* jr through a register that still holds the link of a call goes to the   *)
(* instruction behind that call.                                           *)
THEOREM CallsReturn == Spec => ReturnsBehindCall
<1>1. CpuInv /\ [Next]_vars => [BehindCall]_vars
    BY StepReturns
<1> QED BY CpuInvHolds, <1>1, PTL DEF Spec, ReturnsBehindCall, BehindCall

-----------------------------------------------------------------------------
(* The CPU with its cache is the architecture without.                     *)
LEMMA InitIsArch == Init => Arch!ArchInit
<1>1. Init => cached = {}
    BY DEF Init, cached
<1> QED BY <1>1 DEF Init, Arch!ArchInit

(* What the cache yields, the memory holds, or a word overwritten since.   *)
LEMMA CurrentFetched ==
    ASSUME CpuInv, current # Reserved
    PROVE  current \in Arch!Fetched
<1>1. DOMAIN encoding = Word
    BY DEF CpuInv, CpuTypeOK, Encoding
<1>2. CASE st.pc \in changed
    BY <1>1, <1>2, Current DEF Arch!Fetched
<1>3. CASE st.pc \notin changed
  <2>1. current = Arch!InMemory
      BY <1>3, Current DEF decode, Arch!InMemory
  <2> QED BY <1>3, <2>1 DEF Arch!Fetched
<1> QED BY <1>2, <1>3

LEMMA CycleExecutes ==
    ASSUME CpuInv, alive, Cycle
    PROVE  Arch!Execute
<1>1. PICK o : Outcome(o)
    BY CycleOutcome
<1>2. current \in Arch!Fetched /\ o \in run(current, st)
    BY <1>1, CurrentFetched DEF Cycle, Outcome
<1>3. /\ o.trap = NOTRAP => st' = o.st /\ UNCHANGED <<epc, cause>>
      /\ o.trap = DIES => UNCHANGED <<st, epc, cause>>
      /\ o.trap \notin {NOTRAP, DIES} => Arch!Trap(o.st, o.trap)
      /\ alive' = (o.trap # DIES)
  <2>1. o.trap \notin {NOTRAP, DIES} =>
           Arch!Trap(o.st, o.trap) /\ UNCHANGED alive
      BY <1>1 DEF Outcome, raiseTrap, trapPc, Arch!Trap
  <2>2. alive = TRUE /\ NOTRAP # DIES
      BY DEF CpuInv, CpuTypeOK, NOTRAP, DIES
  <2> QED BY <1>1, <2>1, <2>2 DEF Outcome
<1>4. cached' = cached \cup {st.pc} /\ encoding' = encoding
    BY CycleCache, CycleOutcome DEF ran
<1>5. changed' = changed \cup
          {a \in cached' : getWord(st'.mem, a) # getWord(st.mem, a)}
    BY CycleCache
<1> QED BY <1>2, <1>3, <1>4, <1>5 DEF Arch!Execute

LEMMA DecodeRefuses ==
    ASSUME CpuInv, alive, current = Reserved, DecodeThrows
    PROVE  Arch!Refuse
<1>1. st.pc \notin changed /\ Arch!InMemory = Reserved
    BY Current DEF CpuInv, decode, Arch!InMemory
<1>2. UNCHANGED cached
    BY DEF DecodeThrows, cached
<1> QED BY <1>1, <1>2 DEF DecodeThrows, raiseTrap, trapPc, Arch!Refuse, Arch!Trap

(* The CPU with its cache of decoded instructions implements the processor *)
(* that reads each instruction from memory, except for the words that were *)
(* overwritten after they had been executed.                               *)
THEOREM CpuIsArchitecture == Spec => ImplementsArchitecture
<1>1. CpuInv /\ [Next]_vars => [Arch!ArchNext]_Arch!archVars
  <2> SUFFICES ASSUME CpuInv, [Next]_vars
               PROVE  Arch!ArchNext \/ UNCHANGED Arch!archVars
      OBVIOUS
  <2>1. CASE UNCHANGED vars
    <3>1. UNCHANGED cached
        BY <2>1 DEF vars, cached
    <3> QED BY <2>1, <3>1 DEF vars, Arch!archVars
  <2> QED BY <2>1, CycleExecutes, DecodeRefuses DEF Next, Arch!ArchNext
<1> QED BY InitIsArch, CpuInvHolds, <1>1, PTL DEF Spec, ImplementsArchitecture, Arch!ArchSpec
=============================================================================
