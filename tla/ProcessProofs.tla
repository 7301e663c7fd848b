---------------------------- MODULE ProcessProofs ----------------------------
(***************************************************************************)
(* Starting up, for every kernel, command line, file system and every size *)
(* of rows, words and reads: the kernel finds its arguments, nothing but   *)
(* them is changed of it, and the program in memory is the one in its      *)
(* file.                                                                   *)
(***************************************************************************)
EXTENDS Process, SequenceTheorems, WellFoundedInduction, TLAPS

-----------------------------------------------------------------------------
(* Every non-empty set of naturals has a smallest element.                 *)
LEMMA Smallest ==
    ASSUME NEW T, T \subseteq Nat, T # {}
    PROVE  \E x \in T : \A y \in T : x <= y
<1>1. PICK x \in T : \A y \in T : ~(<<y, x>> \in OpToRel(<, Nat))
    BY NatLessThanWellFounded, WFMin
<1>2. \A y \in T : ~(y < x)
    BY <1>1 DEF OpToRel
<1> QED BY <1>2

(* A sequence of elements of S may be defined step by step.                *)
Steppers(n, S)  == [(1..n) \X S -> S]
Runs(n, S, z, h) == {f \in [0..n -> S] :
                        f[0] = z /\ \A k \in 1..n : f[k] = h[<<k, f[k - 1]>>]}

LEMMA StepByStep ==
    ASSUME NEW n \in Nat, NEW S, NEW z \in S, NEW h \in Steppers(n, S)
    PROVE  Runs(n, S, z, h) # {}
<1> DEFINE Steps(f, m) == /\ f \in [0..m -> S] /\ f[0] = z
                          /\ \A k \in 1..m : f[k] = h[<<k, f[k - 1]>>]
           T == {m \in 0..n : ~ \E f : Steps(f, m)}
<1>1. T = {}
  <2> SUFFICES ASSUME T # {} PROVE FALSE
      OBVIOUS
  <2>1. T \subseteq Nat
      OBVIOUS
  <2>2. PICK m \in T : \A i \in T : m <= i
      BY <2>1, Smallest
  <2>3. m \in 0..n /\ ~ \E f : Steps(f, m)
      OBVIOUS
  <2>4. m # 0
    <3>1. Steps([k \in 0..0 |-> z], 0)
        OBVIOUS
    <3> QED BY <2>3, <3>1
  <2>5. m - 1 \in 0..n /\ m - 1 \notin T
    <3> HIDE DEF T
    <3> QED BY <2>1, <2>2, <2>3, <2>4
  <2>6. PICK f : Steps(f, m - 1)
      BY <2>5
  <2> DEFINE g == [k \in 0..m |-> IF k = m THEN h[<<m, f[m - 1]>>] ELSE f[k]]
  <2>7. h[<<m, f[m - 1]>>] \in S
    <3>1. m \in 1..n /\ f[m - 1] \in S
        BY <2>3, <2>4, <2>6
    <3> QED BY <3>1 DEF Steppers
  <2>8. g \in [0..m -> S] /\ g[0] = z
    <3>1. \A k \in 0..m : k # m => k \in 0..(m - 1)
        BY <2>3
    <3>2. \A k \in 0..m : k # m => f[k] \in S
        BY <2>6, <3>1
    <3>3. 0 \in 0..m
        BY <2>3
    <3> QED BY <2>4, <2>6, <2>7, <3>2, <3>3
  <2>9. ASSUME NEW k \in 1..m PROVE g[k] = h[<<k, g[k - 1]>>]
    <3>1. k \in 0..m /\ k - 1 \in 0..m /\ k - 1 # m /\ m \in Nat
        BY <2>3
    <3>2. g[k - 1] = f[k - 1]
        BY <3>1
    <3>3. CASE k = m
        BY <3>1, <3>2, <3>3
    <3>4. CASE k # m
      <4>1. k \in 1..(m - 1)
          BY <3>1, <3>4
      <4>2. f[k] = h[<<k, f[k - 1]>>]
          BY <2>6, <4>1
      <4> QED BY <3>1, <3>2, <3>4, <4>2
    <3> QED BY <3>3, <3>4
  <2> QED BY <2>3, <2>8, <2>9
<1>2. \E f : Steps(f, n)
  <2>1. n \in 0..n /\ n \notin T
    <3> HIDE DEF T
    <3> QED BY <1>1
  <2> QED BY <2>1
<1> QED BY <1>2 DEF Runs

-----------------------------------------------------------------------------
(* Where rows of argv begin.                                               *)
LEMMA Rows ==
    ASSUME NEW b \in Nat, NEW i \in Nat \ {0}
    PROVE  /\ ArgLen * (i - 1) \in Nat /\ b + ArgLen * (i - 1) \in Nat
           /\ b + ArgLen * (i - 1) >= b
           /\ \A j \in Nat : j > i =>
                 b + ArgLen * (j - 1) >= b + ArgLen * (i - 1) + ArgLen
<1>1. ArgLen \in Nat /\ i - 1 \in Nat
    BY LoaderAssumption
<1>2. \A x, y \in Nat : x * y \in Nat
    OBVIOUS
<1>3. ArgLen * (i - 1) \in Nat
    BY ONLY <1>1, <1>2
<1>4. ASSUME NEW j \in Nat, j > i
      PROVE  ArgLen * (j - 1) >= ArgLen * (i - 1) + ArgLen
  <2>1. j - 1 = (i - 1) + 1 + (j - 1 - i) /\ j - 1 - i \in Nat
      BY <1>4
  <2>2. \A x, y, z \in Nat : x * (y + 1 + z) = x * y + x + x * z /\ x * z \in Nat
      OBVIOUS
  <2> DEFINE d == j - 1 - i
             e == i - 1
  <2>3. ArgLen * (e + 1 + d) = ArgLen * e + ArgLen + ArgLen * d /\ ArgLen * d \in Nat
    <3> HIDE DEF d, e
    <3>1. d \in Nat /\ e \in Nat
        BY <2>1, <1>1 DEF d, e
    <3> QED BY ONLY <1>1, <2>2, <3>1
  <2> QED BY <1>3, <2>1, <2>3, <1>1
<1>5. ASSUME NEW j \in Nat, j > i
      PROVE  b + ArgLen * (j - 1) >= b + ArgLen * (i - 1) + ArgLen
  <2> DEFINE c == ArgLen * (i - 1)
             d == ArgLen * (j - 1)
  <2>1. j \in Nat \ {0}
      BY <1>5
  <2>2. d \in Nat /\ d >= c + ArgLen
    <3>1. j - 1 \in Nat
        BY <2>1
    <3>2. d \in Nat
        BY ONLY <1>1, <1>2, <3>1
    <3> QED BY <1>4, <1>5, <3>2
  <2> HIDE DEF c, d
  <2>3. c \in Nat
      BY <1>3 DEF c
  <2>4. b + d >= b + c + ArgLen
      BY <1>1, <2>2, <2>3
  <2> QED BY <2>4 DEF c, d
<1>6. b + ArgLen * (i - 1) \in Nat /\ b + ArgLen * (i - 1) >= b
    BY <1>3
<1> QED BY <1>3, <1>5, <1>6

(* Placing bytes in memory.                                                *)
LEMMA Placing ==
    ASSUME NEW m, NEW a, NEW s
    PROVE  /\ placed(m, a, s) = [b \in Address |-> placed(m, a, s)[b]]
           /\ \A b \in Address : b \in a..(a + Len(s) - 1) => placed(m, a, s)[b] = s[b - a + 1]
           /\ \A b \in Address : b \notin a..(a + Len(s) - 1) => placed(m, a, s)[b] = m[b]
BY DEF placed

LEMMA PlacingTyped ==
    ASSUME NEW m \in [Address -> Cell], NEW a \in Nat, NEW s \in Seq(Cell)
    PROVE  placed(m, a, s) \in [Address -> Cell]
<1>1. ASSUME NEW b \in Address, b \in a..(a + Len(s) - 1)
      PROVE  s[b - a + 1] \in Cell
  <2>1. b - a + 1 \in 1..Len(s)
      BY <1>1, LoaderAssumption
  <2> QED BY <2>1
<1> QED BY <1>1 DEF placed

-----------------------------------------------------------------------------
(* Memory w is memory m with the first i arguments in it: where they run   *)
(* over each other the last one lies on top, and what no argument covers   *)
(* is as it was.                                                           *)
covers(j, a) == a \in row(j)..(row(j) + Len(args[j]) - 1)

(* What memory holds where no argument lies.                               *)
under(m, a) == IF a = image.argc THEN count(Len(args)) ELSE m[a]

Holds(m, w, i) ==
    /\ \A j \in 1..i, a \in Address :
          covers(j, a) /\ (\A l \in (j + 1)..i : ~covers(l, a)) =>
              w[a] = args[j][a - row(j) + 1]
    /\ \A a \in Address : (\A j \in 1..i : ~covers(j, a)) => w[a] = under(m, a)

LEMMA RowsAre ==
    ASSUME image.argv \in Nat, NEW i \in Nat \ {0}
    PROVE  /\ row(i) \in Nat /\ row(i) >= image.argv
           /\ \A j \in Nat : j > i => row(j) >= row(i) + ArgLen
           /\ row(1) = image.argv
<1>1. /\ image.argv + ArgLen * (i - 1) \in Nat
      /\ image.argv + ArgLen * (i - 1) >= image.argv
      /\ \A j \in Nat : j > i =>
            image.argv + ArgLen * (j - 1) >= image.argv + ArgLen * (i - 1) + ArgLen
    BY Rows
<1>2. row(1) = image.argv
    BY LoaderAssumption DEF row
<1> QED BY <1>1, <1>2 DEF row

LEMMA CountPlaced ==
    ASSUME args \in ArgLists, NEW m \in [Address -> Cell],
           image.argc \in Address
    PROVE  /\ placed(m, image.argc, <<count(Len(args))>>) \in [Address -> Cell]
           /\ Holds(m, placed(m, image.argc, <<count(Len(args))>>), 0)
<1> DEFINE w == placed(m, image.argc, <<count(Len(args))>>)
<1>1. args \in Seq(Seq(Text)) /\ image.argc \in Nat
    BY ArgAssumption, LoaderAssumption
<1>2. count(Len(args)) \in Cell
    BY <1>1 DEF count, Cell
<1>3. w \in [Address -> Cell]
  <2>1. <<count(Len(args))>> \in Seq(Cell)
      BY <1>2
  <2> QED BY <1>1, <2>1, PlacingTyped
<1>4. \A a \in Address : w[a] = IF a = image.argc THEN count(Len(args)) ELSE m[a]
  <2>1. \A a \in Address : a \in image.argc..(image.argc + 1 - 1) <=> a = image.argc
      BY <1>1, LoaderAssumption
  <2>2. Len(<<count(Len(args))>>) = 1 /\ <<count(Len(args))>>[1] = count(Len(args))
      OBVIOUS
  <2>3. image.argc - image.argc + 1 = 1
      BY <1>1
  <2> QED BY <2>1, <2>2, <2>3 DEF placed
<1> HIDE DEF w
<1>5. Holds(m, w, 0)
    BY <1>4 DEF Holds, under
<1> QED BY <1>3, <1>5 DEF w

LEMMA ArgumentPlaced ==
    ASSUME args \in ArgLists, NEW m \in [Address -> Cell], NEW w \in [Address -> Cell],
           image.argv \in Nat,
           NEW i \in 1..Len(args), Holds(m, w, i - 1)
    PROVE  /\ placed(w, row(i), args[i]) \in [Address -> Cell]
           /\ Holds(m, placed(w, row(i), args[i]), i)
<1> DEFINE v == placed(w, row(i), args[i])
<1>1. args \in Seq(Seq(Text)) /\ args[i] \in Seq(Cell) /\ i \in Nat \ {0}
  <2>1. args \in Seq(Seq(Text)) /\ Text \subseteq Cell
      BY ArgAssumption DEF Cell, Byte
  <2>2. args[i] \in Seq(Text)
      BY <2>1
  <2>3. args[i] \in Seq(Cell)
      BY <2>1, <2>2
  <2> QED BY <2>1, <2>3
<1>2. row(i) \in Nat /\ row(i) >= image.argv
    BY <1>1, RowsAre
<1>3. v \in [Address -> Cell]
    BY <1>1, <1>2, PlacingTyped
<1>4. \A a \in Address : v[a] = IF covers(i, a) THEN args[i][a - row(i) + 1] ELSE w[a]
    BY DEF placed, covers
<1> HIDE DEF v
<1>6. ASSUME NEW j \in 1..i, NEW a \in Address, covers(j, a),
             \A l \in (j + 1)..i : ~covers(l, a)
      PROVE  v[a] = args[j][a - row(j) + 1]
  <2>1. CASE j = i
      BY <1>4, <1>6, <2>1
  <2>2. CASE j # i
    <3>1. j \in 1..(i - 1) /\ i \in (j + 1)..i /\ (j + 1)..(i - 1) \subseteq (j + 1)..i
        BY <1>1, <2>2
    <3> QED BY <1>4, <1>6, <3>1 DEF Holds
  <2> QED BY <2>1, <2>2
<1>7. ASSUME NEW a \in Address, \A j \in 1..i : ~covers(j, a)
      PROVE  v[a] = under(m, a)
  <2>1. ~covers(i, a) /\ \A j \in 1..(i - 1) : ~covers(j, a)
      BY <1>1, <1>7
  <2> QED BY <1>4, <1>7, <2>1 DEF Holds
<1>8. Holds(m, v, i)
    BY <1>6, <1>7 DEF Holds
<1> QED BY <1>3, <1>8 DEF v

(* The loop over the arguments puts every one where its row is.            *)
LEMMA ArgumentsPlaced ==
    ASSUME args \in ArgLists, NEW m \in [Address -> Cell],
           image.argc \in Address, image.argv \in Nat
    PROVE  /\ withArguments(m) \in [Address -> Cell]
           /\ Holds(m, withArguments(m), Len(args))
<1> DEFINE M == [Address -> Cell]
           n == Len(args)
           z == placed(m, image.argc, <<count(Len(args))>>)
           step1(i, w) == placed(w, row(i), args[i])
           h == [p \in (1..n) \X M |-> step1(p[1], p[2])]
           P(g) == g = [i \in 0..Len(args) |->
                           IF i = 0 THEN placed(m, image.argc, <<count(Len(args))>>)
                           ELSE placed(g[i - 1], row(i), args[i])]
<1>1. args \in Seq(Seq(Text)) /\ n \in Nat
    BY ArgAssumption
<1>2. z \in M /\ Holds(m, z, 0)
    BY CountPlaced
<1>3. \A i \in 1..n, w \in M : step1(i, w) \in M
  <2> SUFFICES ASSUME NEW i \in 1..n, NEW w \in M PROVE step1(i, w) \in M
      OBVIOUS
  <2>1. Text \subseteq Cell /\ args[i] \in Seq(Text)
      BY <1>1 DEF Cell, Byte
  <2>2. args[i] \in Seq(Cell)
      BY <2>1
  <2>3. row(i) \in Nat
      BY <1>1, RowsAre
  <2> QED BY <2>2, <2>3, PlacingTyped
<1>4. \A i \in 1..n, w \in M : Holds(m, w, i - 1) => Holds(m, step1(i, w), i)
    BY ArgumentPlaced
<1>5. PICK f \in [0..n -> M] : f[0] = z /\ \A i \in 1..n : f[i] = h[<<i, f[i - 1]>>]
  <2> HIDE DEF step1, z, n, M
  <2>1. h \in Steppers(n, M) /\ n \in Nat /\ z \in M
      BY <1>1, <1>2, <1>3 DEF Steppers
  <2> HIDE DEF h
  <2>2. Runs(n, M, z, h) # {}
      BY <2>1, StepByStep
  <2> QED BY <2>2 DEF Runs
<1>6. \A i \in 1..n : f[i] = step1(i, f[i - 1])
  <2> HIDE DEF step1, M
  <2> SUFFICES ASSUME NEW i \in 1..n PROVE f[i] = step1(i, f[i - 1])
      OBVIOUS
  <2>1. i - 1 \in 0..n
      BY <1>1
  <2>2. f[i - 1] \in M
      BY <2>1
  <2> QED BY <1>5, <2>2
<1>7. P(f)
  <2>1. \A i \in 0..n : i # 0 => i \in 1..n
      BY <1>1
  <2>2. f = [i \in 0..n |-> f[i]]
      OBVIOUS
  <2> QED BY <1>5, <1>6, <2>1, <2>2
<1> DEFINE u == CHOOSE g : P(g)
<1>8. P(u)
    BY <1>7
<1>9. withArguments(m) = u[n]
    BY DEF withArguments
<1> HIDE DEF u
<1>10. u[0] = z /\ \A i \in 1..n : u[i] = step1(i, u[i - 1])
  <2>1. 0 \in 0..n /\ \A i \in 1..n : i \in 0..n /\ i # 0
      BY <1>1
  <2> QED BY <1>8, <2>1
<1> HIDE DEF P, step1, z, M
<1>11. \A i \in 0..n : u[i] \in M /\ Holds(m, u[i], i)
  <2> DEFINE T == {i \in 0..n : ~(u[i] \in M /\ Holds(m, u[i], i))}
  <2> SUFFICES ASSUME T # {} PROVE FALSE
      OBVIOUS
  <2>1. T \subseteq Nat
      OBVIOUS
  <2>2. PICK i \in T : \A j \in T : i <= j
      BY <2>1, Smallest
  <2>3. i \in 1..n
      BY <1>1, <1>2, <1>10
  <2>4. i - 1 \in 0..n /\ i - 1 \notin T
    <3>1. i - 1 \in 0..n
        BY <2>3
    <3>2. i - 1 \notin T
      <4> HIDE DEF T
      <4> QED BY <2>1, <2>2, <2>3
    <3> QED BY <3>1, <3>2
  <2>5. u[i] \in M /\ Holds(m, u[i], i)
      BY <1>3, <1>4, <1>10, <2>3, <2>4
  <2> QED BY <2>2, <2>5
<1>12. n \in 0..n
    BY <1>1
<1> QED BY <1>9, <1>11, <1>12 DEF M

-----------------------------------------------------------------------------
(* The symbol table yields what the kernel's linker put in its code.       *)
LEMMA SymbolValue ==
    ASSUME NEW k \in Kernels, NEW s \in Symbol
    PROVE  value(k, s) = k.globals[s]
<1>1. PICK i \in DOMAIN k.symbols :
         /\ k.symbols[i] = [name |-> s, value |-> k.globals[s]]
         /\ \A j \in (i + 1)..Len(k.symbols) : k.symbols[j].name # s
    BY LoaderAssumption
<1>2. k.symbols \in Seq([name : STRING, value : Nat])
    BY KernelAssumption
<1>3. DOMAIN k.symbols = 1..Len(k.symbols) /\ Len(k.symbols) \in Nat
    BY <1>2
<1> DEFINE I == {j \in 1..Len(k.symbols) : k.symbols[j].name = s}
<1>4. i \in I /\ \A j \in I : i >= j
    BY <1>1, <1>3
<1>5. (CHOOSE x \in I : \A y \in I : x >= y) = i
  <2>1. I \subseteq Int
      BY <1>3
  <2> HIDE DEF I
  <2> QED BY <1>4, <2>1
<1>6. SelectLastInSeq(k.symbols, LAMBDA e : e.name = s) = i
  <2>1. SelectLastInSeq(k.symbols, LAMBDA e : e.name = s) =
            IF I # {} THEN (CHOOSE x \in I : \A y \in I : x >= y) ELSE 0
      BY DEF SelectLastInSeq, Max
  <2> HIDE DEF I
  <2> QED BY <1>4, <1>5, <2>1
<1> QED BY <1>1, <1>6 DEF value

LEMMA WholeWords ==
    ASSUME NEW s \in Seq(Byte)
    PROVE  /\ wholeWords(s) \in Seq(Byte)
           /\ Len(wholeWords(s)) \in 0..Len(s)
           /\ \A i \in 1..Len(wholeWords(s)) : wholeWords(s)[i] = s[i]
<1> DEFINE n == (Len(s) \div WordBytes) * WordBytes
<1>1. n \in 0..Len(s)
  <2> DEFINE d == Len(s) \div WordBytes
             r == Len(s) % WordBytes
  <2>1. Len(s) \in Nat /\ WordBytes \in Nat \ {0}
      BY LoaderAssumption
  <2>2. d \in Int /\ r \in 0..(WordBytes - 1) /\ Len(s) = WordBytes * d + r
      BY <2>1
  <2> HIDE DEF d, r
  <2>3. d >= 0
    <3> SUFFICES ASSUME d <= -1 PROVE FALSE
        BY <2>2
    <3>1. WordBytes * d <= WordBytes * (-1)
        BY <2>1, <2>2
    <3> QED BY <2>1, <2>2, <3>1
  <2>4. d * WordBytes = WordBytes * d /\ d * WordBytes >= 0 /\ d * WordBytes \in Int
      BY <2>1, <2>2, <2>3
  <2>5. d * WordBytes \in 0..Len(s)
      BY <2>1, <2>2, <2>4
  <2> QED BY <2>5 DEF d
<1> HIDE DEF n
<1>2. n \in Int /\ 1 \in Int /\ \A i \in 1..n : s[i] \in Byte
    BY <1>1
<1>3. /\ SubSeq(s, 1, n) \in Seq(Byte)
      /\ Len(SubSeq(s, 1, n)) = n
      /\ \A i \in 1..n : SubSeq(s, 1, n)[i] = s[i]
  <2>1. /\ SubSeq(s, 1, n) \in Seq(Byte)
        /\ Len(SubSeq(s, 1, n)) = IF 1 <= n THEN n - 1 + 1 ELSE 0
        /\ \A i \in 1..(n - 1 + 1) : SubSeq(s, 1, n)[i] = s[1 + i - 1]
      BY ONLY <1>2, SubSeqProperties
  <2>2. n - 1 + 1 = n /\ n >= 0 /\ \A i \in 1..n : 1 + i - 1 = i
      BY <1>1
  <2> QED BY <2>1, <2>2
<1> QED BY <1>1, <1>3 DEF n, wholeWords

(* What ParseKernel leaves in image.                                       *)
Parsed ==
    /\ kernel \in {<<k>> : k \in Kernels}
    /\ image = LET k == kernel[1]
               IN  [bootEntry |-> k.entry,
                    trapEntry |-> k.globals["kernel_trap"],
                    argc      |-> k.globals["argc"],
                    argv      |-> k.globals["argv"],
                    textStart |-> k.textStart,
                    text      |-> wholeWords(k.text),
                    dataStart |-> k.dataStart,
                    data      |-> k.data]

(* Memory when the kernel begins.                                          *)
Zeroes == [a \in Address |-> NUL]
Linked == placed(placed(Zeroes, image.textStart, image.text), image.dataStart, image.data)
Loaded == withArguments(Linked)

LEMMA ParsedFacts ==
    ASSUME Parsed
    PROVE  /\ kernel[1] \in Kernels /\ kernel = <<kernel[1]>>
           /\ image.textStart = kernel[1].textStart /\ image.text = wholeWords(kernel[1].text)
           /\ image.dataStart = kernel[1].dataStart /\ image.data = kernel[1].data
           /\ image.argc = global("argc") /\ image.argv = global("argv")
           /\ image.trapEntry = global("kernel_trap")
           /\ image.argc \in Address /\ image.argv \in Address
           /\ image.textStart \in Address /\ image.dataStart \in Nat
           /\ image.textStart + Len(kernel[1].text) <= image.dataStart
           /\ image.dataStart + Len(kernel[1].data) <= image.argc
           /\ image.dataStart + Len(kernel[1].data) <= image.argv
           /\ \/ image.argc < image.argv
              \/ image.argc >= image.argv + ArgLen * ArgSlots
<1>1. kernel[1] \in Kernels /\ kernel = <<kernel[1]>>
    BY DEF Parsed
<1>2. /\ image.textStart = kernel[1].textStart /\ image.text = wholeWords(kernel[1].text)
      /\ image.dataStart = kernel[1].dataStart /\ image.data = kernel[1].data
      /\ image.argc = global("argc") /\ image.argv = global("argv")
      /\ image.trapEntry = global("kernel_trap")
    BY DEF Parsed, global
<1>3. /\ kernel[1].globals["argc"] \in Address /\ kernel[1].globals["argv"] \in Address
      /\ kernel[1].textStart \in Address /\ kernel[1].dataStart \in Nat
      /\ kernel[1].textStart + Len(kernel[1].text) <= kernel[1].dataStart
      /\ kernel[1].dataStart + Len(kernel[1].data) <= kernel[1].globals["argc"]
      /\ kernel[1].dataStart + Len(kernel[1].data) <= kernel[1].globals["argv"]
      /\ \/ kernel[1].globals["argc"] < kernel[1].globals["argv"]
         \/ kernel[1].globals["argc"] >= kernel[1].globals["argv"] + ArgLen * ArgSlots
    BY <1>1, KernelAssumption
<1> QED BY <1>1, <1>2, <1>3 DEF global

(* Of what the linker made, the bytes of text behind the last whole word   *)
(* may be missing.                                                         *)
dataEnd == image.dataStart + Len(image.data)

LEMMA LinkedFacts ==
    ASSUME Parsed
    PROVE  /\ Linked \in [Address -> Cell]
           /\ \A a \in Address : a < image.textStart \/ a >= dataEnd => Linked[a] = NUL
           /\ \A a \in Address :
                 \/ a < image.textStart
                 \/ a - image.textStart \in
                       Len(wholeWords(kernel[1].text))..(Len(kernel[1].text) - 1)
                 \/ Linked[a] = linked(a)
           /\ \A a \in Address : a >= dataEnd => linked(a) = NUL
<1> DEFINE k == kernel[1]
           T == image.textStart
           D == image.dataStart
           w == wholeWords(k.text)
<1>1. /\ k \in Kernels /\ T = k.textStart /\ image.text = w
      /\ D = k.dataStart /\ image.data = k.data
      /\ T \in Nat /\ D \in Nat /\ T + Len(k.text) <= D
      /\ dataEnd = D + Len(k.data)
    BY ParsedFacts, LoaderAssumption DEF dataEnd
<1>2. k.text \in Seq(Byte) /\ k.data \in Seq(Byte)
    BY <1>1, KernelAssumption
<1>3. /\ w \in Seq(Byte) /\ Len(w) \in 0..Len(k.text) /\ Len(k.text) \in Nat /\ Len(k.data) \in Nat
      /\ \A i \in 1..Len(w) : w[i] = k.text[i]
    BY <1>2, WholeWords
<1> DEFINE m == placed(Zeroes, T, w)
<1>4. Linked \in [Address -> Cell]
  <2>1. Zeroes \in [Address -> Cell]
      BY DEF Zeroes, Cell, Byte
  <2>2. w \in Seq(Cell) /\ k.data \in Seq(Cell)
      BY <1>2, <1>3 DEF Cell
  <2>3. m \in [Address -> Cell]
      BY <1>1, <2>1, <2>2, PlacingTyped
  <2> HIDE DEF m
  <2>4. placed(m, D, k.data) \in [Address -> Cell]
      BY <1>1, <2>2, <2>3, PlacingTyped
  <2> QED BY <1>1, <2>4 DEF Linked, m
<1>5. \A a \in Address :
         Linked[a] = IF a \in D..(D + Len(k.data) - 1) THEN k.data[a - D + 1]
                     ELSE IF a \in T..(T + Len(w) - 1) THEN w[a - T + 1] ELSE NUL
    BY <1>1 DEF Linked, placed, Zeroes
<1>6. \A a \in Address :
         linked(a) = IF a \in T..(T + Len(k.text) - 1) THEN k.text[a - T + 1]
                     ELSE IF a \in D..(D + Len(k.data) - 1) THEN k.data[a - D + 1] ELSE NUL
    BY <1>1 DEF linked
<1> DEFINE t == Len(k.text)
           d == Len(k.data)
           l == Len(w)
           c == dataEnd
<1>a. /\ t \in Nat /\ d \in Nat /\ l \in 0..t /\ T \in Nat /\ D \in Nat /\ c \in Nat
      /\ T + t <= D /\ D + d = c
    BY <1>1, <1>3
<1> HIDE DEF k, T, D, w, t, d, l, c
<1>b. \A a \in Address : a \in Nat
    BY LoaderAssumption
<1>7. ASSUME NEW a \in Address, a < T \/ a >= dataEnd
      PROVE  Linked[a] = NUL
  <2>1. a \in Nat /\ (a < T \/ a >= c)
      BY <1>b, <1>7 DEF c
  <2>2. a \notin D..(D + d - 1) /\ a \notin T..(T + l - 1)
      BY ONLY <1>a, <2>1
  <2> QED BY <1>5, <2>2 DEF d, l
<1>8. ASSUME NEW a \in Address, a >= T, a - T \notin Len(w)..(Len(k.text) - 1)
      PROVE  Linked[a] = linked(a)
  <2>1. a \in Nat
      BY <1>b
  <2>2. CASE a \in T..(T + Len(k.text) - 1)
    <3>1. a \in T..(T + t - 1) /\ a - T \notin l..(t - 1)
        BY <1>8, <2>2 DEF t, l
    <3>2. a \in T..(T + l - 1) /\ a \notin D..(D + d - 1) /\ a - T + 1 \in 1..l
        BY ONLY <1>a, <2>1, <3>1
    <3> QED BY <1>3, <1>5, <1>6, <2>2, <3>2 DEF d, l
  <2>3. CASE a \notin T..(T + Len(k.text) - 1)
    <3>1. a \notin T..(T + Len(w) - 1)
        BY <1>a, <2>1, <2>3 DEF t, l
    <3> QED BY <1>5, <1>6, <2>3, <3>1
  <2> QED BY <2>2, <2>3
<1>9. ASSUME NEW a \in Address, a >= dataEnd
      PROVE  linked(a) = NUL
  <2>1. a \in Nat /\ a >= c
      BY <1>b, <1>9 DEF c
  <2>2. a \notin T..(T + t - 1) /\ a \notin D..(D + d - 1)
      BY ONLY <1>a, <2>1
  <2> QED BY <1>6, <2>2 DEF t, d
<1> QED BY <1>4, <1>7, <1>8, <1>9, <1>1, <1>b DEF k, T, D, w

-----------------------------------------------------------------------------
(* What cppmain reads.                                                     *)
LEMMA NoCharacters == NUL \notin Text /\ \A n \in Nat : count(n) \notin Text
<1>1. NUL \notin Text
    BY LoaderAssumption DEF Text, NUL, byte
<1>2. ASSUME NEW n \in Nat PROVE count(n) \notin Text
  <2>1. DOMAIN count(n) = {"count"} /\ \A c \in Text : DOMAIN c = {"byte"}
      BY DEF count, Text
  <2> QED BY <2>1
<1> QED BY <1>1, <1>2

LEMMA StringAt ==
    ASSUME NEW a \in Address, NEW s \in Seq(Text), a + Len(s) \in Address,
           mem[a + Len(s)] \notin Text, \A i \in 1..Len(s) : mem[a + i - 1] = s[i]
    PROVE  cstring(a) = s
<1> DEFINE ends == {b \in Address : b >= a /\ mem[b] \notin Text}
           e == a + Len(s)
<1>1. a \in Nat /\ Len(s) \in Nat /\ e \in Nat /\ Address \subseteq Nat
    BY LoaderAssumption
<1>2. e \in ends /\ \A b \in ends : e <= b
  <2> SUFFICES ASSUME NEW b \in ends, b < e PROVE FALSE
      BY <1>1
  <2>1. b - a + 1 \in 1..Len(s) /\ a + (b - a + 1) - 1 = b
      BY <1>1
  <2>2. mem[b] = s[b - a + 1] /\ s[b - a + 1] \in Text
      BY <2>1
  <2> QED BY <2>2
<1>3. ends \subseteq Nat
    BY <1>1
<1>4. (CHOOSE end \in ends : \A c \in ends : end <= c) = e
  <2> DEFINE x == CHOOSE end \in ends : \A c \in ends : end <= c
  <2>1. e \in ends /\ (\A c \in ends : e <= c) /\ ends \subseteq Nat
      BY <1>2, <1>3
  <2> HIDE DEF ends, e
  <2>2. x \in ends /\ \A c \in ends : x <= c
      BY <2>1
  <2> HIDE DEF x
  <2>3. x \in Nat /\ e \in Nat /\ x <= e /\ e <= x
      BY <2>1, <2>2
  <2>4. x = e
      BY ONLY <2>3
  <2> QED BY <2>4 DEF x
<1> HIDE DEF ends
<1>5. cstring(a) = [i \in 1..(e - a) |-> mem[a + i - 1]]
    BY <1>4 DEF cstring, ends
<1>6. e - a = Len(s)
    BY <1>1
<1>7. s = [i \in 1..Len(s) |-> s[i]]
    OBVIOUS
<1> QED BY <1>5, <1>6, <1>7

LEMMA LongStringAt ==
    ASSUME NEW a \in Address, NEW z \in Address, z >= a, mem[z] \notin Text, NEW n \in Nat,
           \A i \in 1..n : mem[a + i - 1] \in Text
    PROVE  Len(cstring(a)) >= n /\ Len(cstring(a)) \in Nat
<1> DEFINE ends == {b \in Address : b >= a /\ mem[b] \notin Text}
<1>1. a \in Nat /\ Address \subseteq Nat /\ z \in ends /\ ends \subseteq Nat
    BY LoaderAssumption
<1>2. \E e \in ends : \A c \in ends : e <= c
    BY <1>1, Smallest
<1> DEFINE e == CHOOSE end \in ends : \A c \in ends : end <= c
<1>3. e \in ends
    BY <1>2
<1>4. cstring(a) = [i \in 1..(e - a) |-> mem[a + i - 1]]
    BY DEF cstring
<1> HIDE DEF e
<1>5. e \in Nat /\ e >= a /\ mem[e] \notin Text
    BY <1>1, <1>3
<1>6. e - a >= n
  <2> SUFFICES ASSUME e - a < n PROVE FALSE
      BY <1>1, <1>5
  <2>1. e - a + 1 \in 1..n /\ a + (e - a + 1) - 1 = e
      BY <1>1, <1>5
  <2> QED BY <1>5, <2>1
<1>7. Len(cstring(a)) = e - a
    BY <1>1, <1>4, <1>5
<1> QED BY <1>1, <1>5, <1>6, <1>7

(* A condition on the command line: the name fits in its row, or is the    *)
(* only argument and ends within argv.                                     *)
Fitting == \/ Len(args[1]) < ArgLen
           \/ Len(args) = 1 /\ argEnd(1) < ArgLen * ArgSlots

LEMMA LoadedHolds ==
    ASSUME Parsed, args \in ArgLists
    PROVE  Loaded \in [Address -> Cell] /\ Holds(Linked, Loaded, Len(args))
BY ParsedFacts, LinkedFacts, ArgumentsPlaced, LoaderAssumption DEF Loaded

(* Rows begin at argv.                                                     *)
LEMMA BelowArgv ==
    ASSUME image.argv \in Nat, NEW a \in Nat, a < image.argv
    PROVE  \A j \in 1..Len(args) : ~covers(j, a)
<1> SUFFICES ASSUME NEW j \in 1..Len(args) PROVE ~covers(j, a)
    OBVIOUS
<1>1. j \in Nat \ {0}
    OBVIOUS
<1>2. row(j) \in Nat /\ row(j) >= image.argv
    BY <1>1, RowsAre
<1> QED BY <1>2 DEF covers

(* Where no argument lies there is no character above the kernel's data.   *)
LEMMA Terminated ==
    ASSUME Parsed, args \in ArgLists, NEW a \in Address, a >= image.argv,
           \A j \in 1..Len(args) : ~covers(j, a)
    PROVE  Loaded[a] \notin Text
<1>1. Loaded[a] = under(Linked, a)
    BY LoadedHolds DEF Holds
<1>2. a >= dataEnd
  <2>1. a \in Nat /\ image.argv \in Nat
      BY ParsedFacts, LoaderAssumption
  <2>2. dataEnd \in Nat /\ dataEnd <= image.argv
    <3>1. kernel[1].data \in Seq(Byte)
        BY ParsedFacts, KernelAssumption
    <3> QED BY <3>1, ParsedFacts DEF dataEnd
  <2> QED BY <2>1, <2>2
<1>3. Linked[a] = NUL
    BY <1>2, LinkedFacts
<1>4. Len(args) \in Nat
    BY ArgAssumption
<1> QED BY <1>1, <1>3, <1>4, NoCharacters DEF under

(* Where argument i lies, if it and those in front keep to their rows, or  *)
(* it is the last one.                                                     *)
LEMMA ArgumentAt ==
    ASSUME Parsed, args \in ArgLists, NEW i \in 1..Len(args),
           Len(args[i]) < ArgLen \/ i = Len(args),
           \A j \in 1..(i - 1) : Len(args[j]) < ArgLen, mem = Loaded
    PROVE  row(i) \in Address /\ cstring(row(i)) = args[i]
<1>1. /\ args \in Seq(Seq(Text)) /\ args[i] \in Seq(Text) /\ i \in Nat \ {0}
      /\ Len(args[i]) \in Nat /\ DOMAIN args = 1..Len(args) /\ Len(args) \in Nat
    BY ArgAssumption
<1>2. /\ image.argv \in Address /\ image.argv \in Nat /\ kernel[1] \in Kernels
      /\ image.argv = kernel[1].globals["argv"]
      /\ ArgLen \in Nat \ {0}
    BY ParsedFacts, LoaderAssumption DEF global
<1>3. PICK z \in Address : \A j \in DOMAIN args :
         kernel[1].globals["argv"] + ArgLen * (j - 1) + Len(args[j]) <= z
    BY <1>2, ArgAssumption
<1> DEFINE r == row(i)
           n == Len(args[i])
           N == Len(args)
           A == image.argv
<1>a. i \in 1..N /\ N \in Nat /\ n \in Nat /\ A \in Nat /\ ArgLen \in Nat /\ i \in Int
  <2>1. i \in Int
    <3>1. i \in 1..Len(args)
        OBVIOUS
    <3> QED BY ONLY <3>1
  <2> QED BY <1>1, <1>2, <2>1
<1>4. r \in Nat /\ r >= A /\ z \in Nat /\ r + n <= z
  <2>1. row(i) \in Nat /\ row(i) >= image.argv
      BY <1>1, <1>2, RowsAre
  <2>2. row(i) + Len(args[i]) <= z
      BY <1>1, <1>2, <1>3 DEF row
  <2> QED BY <2>1, <2>2, LoaderAssumption
<1> HIDE DEF r, n, N, A
<1>5. \A a \in r..(r + n) : a \in Address /\ a \in Nat /\ a >= A
  <2>1. A..z \subseteq Address
      BY <1>2, LoaderAssumption DEF A
  <2>2. \A a \in r..(r + n) : a \in A..z /\ a \in Nat /\ a >= A
      BY ONLY <1>a, <1>4
  <2> QED BY <2>1, <2>2
<1>6. ASSUME NEW a \in r..(r + n), NEW j \in 1..N, j # i
      PROVE  ~covers(j, a)
  <2> DEFINE q == row(j)
             c == Len(args[j])
  <2>1. j \in Nat \ {0} /\ j \in Int /\ a \in Nat /\ c \in Nat
    <3>1. j \in DOMAIN args
        BY <1>1 DEF N
    <3>a. args[j] \in Seq(Text)
      <4>1. args \in Seq(Seq(Text))
          BY <1>1
      <4> QED BY ONLY <3>1, <4>1
    <3>2. j \in Nat \ {0}
        BY <1>a
    <3> QED BY <1>5, <3>1, <3>a, <3>2
  <2>2. q \in Nat
      BY <1>2, <2>1, RowsAre
  <2>3. j > i => n < ArgLen /\ q >= r + ArgLen
    <3> SUFFICES ASSUME j > i PROVE n < ArgLen /\ q >= r + ArgLen
        OBVIOUS
    <3>1. q >= r + ArgLen
        BY <1>1, <1>2, <2>1, RowsAre DEF r
    <3>2. i # N
        BY <1>a
    <3> QED BY <3>1, <3>2 DEF n, N
  <2>4. j < i => c < ArgLen /\ r >= q + ArgLen
    <3> SUFFICES ASSUME j < i PROVE c < ArgLen /\ r >= q + ArgLen
        OBVIOUS
    <3>1. j \in 1..(i - 1)
        BY <1>a
    <3>2. r >= q + ArgLen
        BY <1>1, <1>2, <2>1, RowsAre DEF r
    <3> QED BY <3>1, <3>2
  <2>5. ~(a \in q..(q + c - 1))
    <3> HIDE DEF q, c
    <3>1. j > i \/ j < i
        BY ONLY <1>6, <1>a, <2>1
    <3>2. a \in r..(r + n)
        OBVIOUS
    <3> QED BY ONLY <1>a, <1>4, <2>1, <2>2, <2>3, <2>4, <3>1, <3>2
  <2> QED BY <2>5 DEF covers
<1>7. mem[r + n] \notin Text /\ r + n \in Address
  <2>1. r + n \in r..(r + n)
      BY ONLY <1>a, <1>4
  <2>2. ~covers(i, r + n)
    <3>1. ~(r + n \in r..(r + n - 1))
        BY ONLY <1>a, <1>4
    <3> QED BY <3>1 DEF covers, r, n
  <2>3. \A j \in 1..N : ~covers(j, r + n)
      BY <1>6, <2>1, <2>2
  <2>4. r + n \in Address /\ r + n >= A
      BY <1>5, <2>1
  <2>5. Loaded[r + n] \notin Text
      BY <2>3, <2>4, Terminated DEF N, A
  <2> QED BY <2>4, <2>5
<1>8. ASSUME NEW l \in 1..n PROVE mem[r + l - 1] = args[i][l]
  <2> DEFINE a == r + l - 1
  <2>1. a \in r..(r + n) /\ a \in r..(r + n - 1) /\ a - r + 1 = l
      BY ONLY <1>a, <1>4, l \in 1..n
  <2>2. a \in Address /\ covers(i, a)
      BY <1>5, <2>1 DEF covers, r, n
  <2>3. \A j \in (i + 1)..N : ~covers(j, a)
    <3>1. \A j \in (i + 1)..N : j \in 1..N /\ j # i
        BY ONLY <1>a
    <3> QED BY <1>6, <2>1, <3>1
  <2>4. i \in 1..N
      BY <1>a
  <2> HIDE DEF a
  <2>5. Loaded[a] = args[i][a - r + 1]
      BY <2>2, <2>3, <2>4, LoadedHolds DEF Holds, N, r
  <2> QED BY <2>1, <2>5 DEF a
<1>9. row(i) \in Address
  <2>1. r \in r..(r + n)
      BY ONLY <1>a, <1>4
  <2> QED BY <1>5, <2>1 DEF r
<1>10. cstring(r) = args[i]
    BY <1>1, <1>7, <1>8, <1>9, StringAt DEF r, n
<1> QED BY <1>9, <1>10 DEF r

(* A second argument that fills its row is not taken for the flag: what is *)
(* read there is at least a row long.                                      *)
LEMMA LongSecond ==
    ASSUME Parsed, args \in ArgLists, Len(args) > 1, Len(args[2]) >= ArgLen, mem = Loaded
    PROVE  cstring(row(2)) # Flag
<1> DEFINE r == row(2)
           n == Len(args[2])
           N == Len(args)
           A == image.argv
<1>1. args \in Seq(Seq(Text)) /\ N \in Nat /\ 2 \in 1..N
  <2>1. args \in Seq(Seq(Text))
      BY ArgAssumption
  <2>2. N \in Nat
      BY <2>1
  <2> QED BY <2>1, <2>2
<1>2. args[2] \in Seq(Text) /\ n \in Nat
    BY <1>1
<1>3. /\ A \in Address /\ A \in Nat /\ kernel[1] \in Kernels
      /\ A = kernel[1].globals["argv"] /\ ArgLen \in Nat \ {0} /\ ArgLen \in Nat
    BY ParsedFacts, LoaderAssumption DEF global
<1>4. PICK z \in Address : \A j \in DOMAIN args :
         kernel[1].globals["argv"] + ArgLen * (j - 1) + Len(args[j]) <= z
    BY <1>3, ArgAssumption
<1>5. \A j \in 1..N : /\ row(j) \in Nat /\ Len(args[j]) \in Nat
                      /\ row(j) + Len(args[j]) <= z
  <2> SUFFICES ASSUME NEW j \in 1..N
               PROVE  /\ row(j) \in Nat /\ Len(args[j]) \in Nat
                      /\ row(j) + Len(args[j]) <= z
      OBVIOUS
  <2>1. j \in DOMAIN args /\ j \in Nat \ {0}
      BY <1>1
  <2>2. args[j] \in Seq(Text)
    <3>1. args \in Seq(Seq(Text))
        BY <1>1
    <3> QED BY ONLY <2>1, <3>1
  <2>3. row(j) \in Nat
      BY <1>3, <2>1, RowsAre
  <2> QED BY <1>3, <1>4, <2>1, <2>2, <2>3 DEF row
<1>6. r \in Nat /\ r >= A /\ \A j \in 3..N : row(j) >= r + ArgLen
  <2>1. row(2) \in Nat /\ row(2) >= A /\ \A j \in Nat : j > 2 => row(j) >= row(2) + ArgLen
      BY <1>3, RowsAre
  <2> QED BY <2>1
<1>7. z \in Nat /\ r + n <= z /\ n >= ArgLen
    BY <1>1, <1>4, <1>5, LoaderAssumption
<1> HIDE DEF r, n, N, A
<1>8. \A a \in r..z : a \in Address /\ a \in Nat /\ a >= A
  <2>1. A..z \subseteq Address
      BY <1>3, LoaderAssumption
  <2>2. \A a \in r..z : a \in A..z /\ a \in Nat /\ a >= A
      BY ONLY <1>3, <1>6, <1>7
  <2> QED BY <2>1, <2>2
<1>9. mem[z] \notin Text
  <2>1. \A j \in 1..N : ~covers(j, z)
    <3> SUFFICES ASSUME NEW j \in 1..N PROVE ~covers(j, z)
        OBVIOUS
    <3>1. row(j) \in Nat /\ Len(args[j]) \in Nat /\ row(j) + Len(args[j]) <= z
        BY <1>5
    <3> QED BY <1>7, <3>1 DEF covers
  <2>2. z >= A
      BY <1>3, <1>2, <1>6, <1>7
  <2> QED BY <2>1, <2>2, Terminated DEF N, A
<1>10. ASSUME NEW l \in 1..ArgLen PROVE mem[r + l - 1] \in Text
  <2> DEFINE a == r + l - 1
  <2>1. a \in r..(r + n - 1) /\ a \in r..z /\ a < r + ArgLen /\ a - r + 1 = l /\ l \in 1..n
      BY ONLY <1>2, <1>3, <1>6, <1>7, l \in 1..ArgLen
  <2>2. covers(2, a) /\ a \in Address
      BY <1>8, <2>1 DEF covers, r, n
  <2>3. \A j \in 3..N : ~covers(j, a)
    <3> SUFFICES ASSUME NEW j \in 3..N PROVE ~covers(j, a)
        OBVIOUS
    <3>1. row(j) >= r + ArgLen /\ j \in 1..N
        BY <1>6
    <3>2. row(j) \in Nat /\ Len(args[j]) \in Nat
        BY <1>5, <3>1
    <3>3. a \in Nat
        BY <1>8, <2>1
    <3> QED BY <1>3, <1>6, <2>1, <3>1, <3>2, <3>3 DEF covers
  <2> HIDE DEF a
  <2>4. Loaded[a] = args[2][a - row(2) + 1]
    <3>1. 2 \in 1..Len(args) /\ \A j \in (2 + 1)..Len(args) : ~covers(j, a)
        BY <1>1, <2>3 DEF N
    <3> QED BY <2>2, <3>1, LoadedHolds DEF Holds
  <2>5. args[2][l] \in Text
      BY <1>2, <2>1 DEF n
  <2> QED BY <2>1, <2>4, <2>5 DEF a, r
<1>11. r \in Address /\ z >= r
  <2>1. r \in r..z
      BY ONLY <1>2, <1>6, <1>7
  <2> QED BY <1>8, <2>1, <1>2, <1>6, <1>7
<1>12. Len(cstring(r)) >= ArgLen /\ Len(cstring(r)) \in Nat
    BY <1>3, <1>9, <1>10, <1>11, LongStringAt
<1>13. Len(Flag) < ArgLen /\ Len(Flag) \in Nat
    BY ProcessAssumption
<1> QED BY <1>3, <1>12, <1>13 DEF r

(* The last argument that covers a.                                        *)
LEMMA LastCover ==
    ASSUME Len(args) \in Nat, NEW a, \E j \in 1..Len(args) : covers(j, a)
    PROVE  \E j \in 1..Len(args) : covers(j, a) /\ \A l \in (j + 1)..Len(args) : ~covers(l, a)
<1> DEFINE n == Len(args)
           T == {m \in Nat : m < n /\ covers(n - m, a)}
<1>1. T \subseteq Nat /\ T # {}
  <2>1. PICK j \in 1..n : covers(j, a)
      OBVIOUS
  <2>2. n - j \in Nat /\ n - j < n /\ n - (n - j) = j
      OBVIOUS
  <2> QED BY <2>1, <2>2
<1>2. PICK m \in T : \A y \in T : m <= y
    BY <1>1, Smallest
<1>3. n - m \in 1..n /\ covers(n - m, a)
    OBVIOUS
<1>4. ASSUME NEW l \in (n - m + 1)..n PROVE ~covers(l, a)
  <2>1. l \in Int /\ n - l \in Nat /\ n - l < n /\ ~(m <= n - l) /\ n - (n - l) = l
      OBVIOUS
  <2> QED BY <1>2, <2>1
<1> QED BY <1>3, <1>4

(* What cppmain makes of its arguments.                                    *)
LEMMA FoundAtBoot ==
    ASSUME Parsed, args \in ArgLists, args # <<>>, mem = Loaded, Fitting
    PROVE  /\ cstring(global("argv")) = args[1]
           /\ (several(mem[global("argc")]) /\ cstring(global("argv") + ArgLen) = Flag)
              <=> (Len(args) > 1 /\ args[2] = Flag)
<1>1. /\ args \in Seq(Seq(Text)) /\ Len(args) \in Nat \ {0} /\ DOMAIN args = 1..Len(args)
  <2>1. args \in Seq(Seq(Text))
      BY ArgAssumption
  <2>2. Len(args) \in Nat /\ Len(args) # 0
      BY <2>1
  <2> QED BY <2>1, <2>2
<1>2. image.argv = global("argv") /\ image.argc = global("argc") /\ image.argv \in Nat
    BY ParsedFacts, LoaderAssumption
<1>3. cstring(global("argv")) = args[1]
  <2>1. row(1) = image.argv
      BY <1>2, RowsAre
  <2>2. 1 \in 1..Len(args) /\ \A j \in 1..(1 - 1) : FALSE
      BY <1>1
  <2>3. cstring(row(1)) = args[1]
      BY <2>2, ArgumentAt DEF Fitting
  <2> QED BY <1>2, <2>1, <2>3
<1>4. Len(args) > 1 <=> several(mem[global("argc")])
  <2> DEFINE c == image.argc
  <2>1. c = global("argc") /\ c \in Address
      BY <1>2, ParsedFacts
  <2>2. CASE \A j \in 1..Len(args) : ~covers(j, c)
    <3>1. mem[c] = count(Len(args))
        BY <2>1, <2>2, LoadedHolds DEF Holds, under
    <3>2. count(Len(args)) \notin Text /\ count(Len(args)).count = Len(args)
        BY <1>1, NoCharacters DEF count
    <3> QED BY <2>1, <3>1, <3>2 DEF several
  <2>3. CASE \E j \in 1..Len(args) : covers(j, c)
    <3>1. several(mem[c])
      <4>1. PICK j \in 1..Len(args) : covers(j, c) /\ \A l \in (j + 1)..Len(args) : ~covers(l, c)
          BY <2>3, <1>1, LastCover
      <4>2. mem[c] = args[j][c - row(j) + 1]
          BY <2>1, <4>1, LoadedHolds DEF Holds
      <4>3. row(j) \in Nat
        <5>1. j \in Nat \ {0}
            BY <1>1
        <5> QED BY <1>2, <5>1, RowsAre
      <4>4. c - row(j) + 1 \in 1..Len(args[j])
          BY <2>1, <4>1, <4>3, LoaderAssumption DEF covers
      <4>5. args[j] \in Seq(Text)
        <5>1. args \in Seq(Seq(Text)) /\ j \in 1..Len(args)
            BY <1>1
        <5> QED BY ONLY <5>1
      <4> QED BY <4>2, <4>4, <4>5 DEF several
    <3>2. Len(args) > 1
      <4> SUFFICES ASSUME Len(args) = 1 PROVE FALSE
          BY <1>1
      <4>1. covers(1, c)
          BY <2>3
      <4> DEFINE A == image.argv
                 n == Len(args[1])
                 e == ArgLen * ArgSlots
      <4>2. A \in Nat /\ c \in Nat /\ row(1) = A /\ (c < A \/ c >= A + e)
          BY <1>2, <2>1, ParsedFacts, RowsAre, LoaderAssumption
      <4>3. n \in Nat
          BY <1>1
      <4>4. e \in Nat /\ e >= ArgLen /\ ArgLen \in Nat
        <5>1. ArgLen \in Nat /\ ArgSlots \in Nat \ {0}
            BY LoaderAssumption
        <5>2. \A x \in Nat : \A y \in Nat \ {0} : x * y \in Nat /\ x * y >= x
            OBVIOUS
        <5> QED BY ONLY <5>1, <5>2
      <4>5. n <= e
        <5>1. CASE Len(args[1]) < ArgLen
            BY <4>3, <4>4, <5>1
        <5>2. CASE argEnd(1) < ArgLen * ArgSlots
          <6>1. argEnd(1) = n
              BY <4>3, <4>4 DEF argEnd
          <6> QED BY <4>3, <4>4, <5>2, <6>1
        <5> QED BY <5>1, <5>2 DEF Fitting
      <4>6. c \in A..(A + n - 1)
          BY <4>1, <4>2 DEF covers
      <4> HIDE DEF A, n, e, c
      <4> QED BY ONLY <4>2, <4>3, <4>4, <4>5, <4>6
    <3> QED BY <2>1, <3>1, <3>2
  <2> QED BY <2>2, <2>3
<1>5. ASSUME Len(args) > 1
      PROVE  cstring(global("argv") + ArgLen) = Flag <=> args[2] = Flag
  <2>1. row(2) = global("argv") + ArgLen
      BY <1>2, LoaderAssumption DEF row
  <2>2. CASE Len(args[2]) < ArgLen
    <3>1. 2 \in 1..Len(args) /\ \A j \in 1..(2 - 1) : j = 1
        BY <1>1, <1>5
    <3>2. Len(args[1]) < ArgLen
      <4>1. Len(args) # 1
          BY ONLY <1>5
      <4> QED BY ONLY <4>1, Fitting DEF Fitting
    <3>3. cstring(row(2)) = args[2]
        BY <2>2, <3>1, <3>2, ArgumentAt
    <3> QED BY <2>1, <3>3
  <2>3. CASE ~(Len(args[2]) < ArgLen)
    <3>1. Len(args[2]) \in Nat /\ ArgLen \in Nat
        BY <1>1, <1>5, LoaderAssumption
    <3>2. Len(args[2]) >= ArgLen
        BY <2>3, <3>1
    <3>3. args[2] # Flag
        BY <2>3, ProcessAssumption
    <3>4. cstring(row(2)) # Flag
        BY <1>5, <3>2, LongSecond
    <3> QED BY <2>1, <3>3, <3>4
  <2> QED BY <2>2, <2>3
<1> QED BY <1>3, <1>4, <1>5

-----------------------------------------------------------------------------
(* Below the kernel there is nothing when it begins.                       *)
LEMMA LoadedBelow ==
    ASSUME Parsed, args \in ArgLists, NEW a \in Address, a < image.textStart
    PROVE  Loaded[a] = NUL
<1> DEFINE t == image.textStart
           d == image.dataStart
           n == Len(kernel[1].text)
           l == Len(kernel[1].data)
           c == image.argc
           v == image.argv
<1>1. /\ t \in Nat /\ d \in Nat /\ c \in Nat /\ v \in Nat /\ a \in Nat /\ a < t
      /\ t + n <= d /\ d + l <= c /\ d + l <= v
    BY ParsedFacts, LoaderAssumption
<1>2. n \in Nat /\ l \in Nat
  <2>1. kernel[1].text \in Seq(Byte) /\ kernel[1].data \in Seq(Byte)
      BY ParsedFacts, KernelAssumption
  <2> QED BY <2>1
<1> HIDE DEF t, d, n, l, c, v
<1>3. a < v /\ a # c
    BY ONLY <1>1, <1>2
<1>4. \A j \in 1..Len(args) : ~covers(j, a)
    BY <1>1, <1>3, BelowArgv DEF v
<1> QED BY <1>3, <1>4, LoadedHolds, LinkedFacts DEF Holds, under, c

(* The kernel as linked, but for argc and argv and the end of text.        *)
LEMMA KernelLoaded ==
    ASSUME Parsed, args \in ArgLists,
           \A i \in DOMAIN args : argEnd(i) <= ArgLen * ArgSlots,
           NEW a \in Address, a >= image.textStart, a # image.argc,
           a \notin image.argv..(image.argv + ArgLen * ArgSlots - 1),
           a - image.textStart \notin
               Len(wholeWords(kernel[1].text))..(Len(kernel[1].text) - 1)
    PROVE  Loaded[a] = linked(a)
<1>1. /\ image.textStart \in Nat /\ image.argv \in Nat /\ image.argc \in Nat /\ a \in Nat
    BY ParsedFacts, LoaderAssumption
<1>2. Linked[a] = linked(a)
    BY <1>1, LinkedFacts
<1>3. CASE a < image.argv
    BY <1>1, <1>2, <1>3, BelowArgv, LoadedHolds DEF Holds, under
<1>4. CASE a >= image.argv
  <2>1. ASSUME NEW j \in 1..Len(args) PROVE ~covers(j, a)
    <3>1. args \in Seq(Seq(Text)) /\ j \in DOMAIN args /\ j \in Nat \ {0}
      <4>1. args \in Seq(Seq(Text))
          BY ArgAssumption
      <4> QED BY <4>1
    <3>2. args[j] \in Seq(Text)
        BY ONLY <3>1
    <3> DEFINE A == image.argv
               c == ArgLen * (j - 1)
               l == Len(args[j])
               e == ArgLen * ArgSlots
    <3>3. c \in Nat /\ l \in Nat /\ e \in Nat /\ A \in Nat
      <4>1. c \in Nat
          BY <3>1, Rows, <1>1
      <4>2. e \in Nat
        <5>1. ArgLen \in Nat /\ ArgSlots \in Nat
            BY LoaderAssumption
        <5>2. \A x, y \in Nat : x * y \in Nat
            OBVIOUS
        <5> QED BY ONLY <5>1, <5>2
      <4> QED BY <1>1, <3>2, <4>1, <4>2
    <3>4. row(j) = A + c
        BY DEF row
    <3>5. c + l <= e
        BY <3>1 DEF argEnd
    <3>6. a >= A /\ ~(a \in A..(A + e - 1)) /\ a \in Nat
        BY <1>1, <1>4
    <3>7. ~(a \in (A + c)..(A + c + l - 1))
      <4> HIDE DEF A, c, l, e
      <4> QED BY ONLY <3>3, <3>5, <3>6
    <3> QED BY <3>4, <3>7 DEF covers
  <2>2. Loaded[a] = Linked[a]
      BY <1>4, <2>1, LoadedHolds DEF Holds, under
  <2> QED BY <1>2, <2>2
<1> QED BY <1>1, <1>3, <1>4

(* A user's file and the room there is for it.                             *)
LEMMA FileFits ==
    ASSUME Parsed, disk \in Disks, program \in DOMAIN disk
    PROVE  /\ bytes \in Seq(Byte) /\ Len(bytes) \in Nat
           /\ TextStart \in Nat /\ DataStart \in Nat /\ image.textStart \in Nat
           /\ TextStart + Len(bytes) <= DataStart
           /\ DataStart + Len(bytes) <= image.textStart
           /\ TextStart..image.textStart \subseteq Address
<1>1. /\ bytes \in Seq(Byte) /\ TextStart + Len(bytes) <= DataStart
      /\ \A k \in Kernels : DataStart + Len(bytes) <= k.textStart
    BY FileAssumption DEF bytes
<1>2. /\ kernel[1] \in Kernels /\ image.textStart = kernel[1].textStart
      /\ image.textStart \in Address
    BY ParsedFacts
<1>3. TextStart \in Address /\ DataStart \in Address
    BY ProcessAssumption
<1>4. Address \subseteq Nat /\ \A a, b \in Address : a..b \subseteq Address
    BY LoaderAssumption
<1>5. TextStart \in Nat /\ DataStart \in Nat /\ image.textStart \in Nat
    BY ONLY <1>2, <1>3, <1>4
<1>6. TextStart..image.textStart \subseteq Address
    BY ONLY <1>2, <1>3, <1>4
<1>7. Len(bytes) \in Nat /\ DataStart + Len(bytes) <= image.textStart
    BY <1>1, <1>2
<1> QED BY <1>1, <1>5, <1>6, <1>7

LEMMA Reading ==
    ASSUME bytes \in Seq(Byte), NEW o \in Nat, NEW n \in Nat
    PROVE  LET m == IF o + n < Len(bytes) THEN o + n ELSE Len(bytes)
               r == readAt(o, n)
           IN  /\ m \in Nat /\ Len(bytes) \in Nat /\ r \in Seq(Byte)
               /\ Len(r) = IF o < m THEN m - o ELSE 0
               /\ \A i \in 1..Len(r) : r[i] = bytes[o + i]
<1> DEFINE b == bytes
           m == IF o + n < Len(b) THEN o + n ELSE Len(b)
           r == SubSeq(b, o + 1, m)
<1> HIDE DEF b
<1>1. b \in Seq(Byte) /\ Len(b) \in Nat
    BY DEF b
<1>2. m \in Nat /\ m <= Len(b) /\ o + 1 \in Int
    BY <1>1
<1>3. \A i \in (o + 1)..m : b[i] \in Byte
  <2> SUFFICES ASSUME NEW i \in (o + 1)..m PROVE b[i] \in Byte
      OBVIOUS
  <2>1. i \in 1..Len(b)
      BY <1>1, <1>2
  <2> QED BY <1>1, <2>1
<1> HIDE DEF m
<1>4. /\ r \in Seq(Byte)
      /\ Len(r) = IF o + 1 <= m THEN m - (o + 1) + 1 ELSE 0
      /\ \A i \in 1..(m - (o + 1) + 1) : r[i] = b[o + 1 + i - 1]
    BY ONLY <1>2, <1>3, SubSeqProperties, m \in Int
<1> HIDE DEF r
<1>5. Len(r) = IF o < m THEN m - o ELSE 0
    BY <1>2, <1>4
<1>6. \A i \in 1..Len(r) : r[i] = b[o + i]
  <2> SUFFICES ASSUME NEW i \in 1..Len(r) PROVE r[i] = b[o + i]
      OBVIOUS
  <2>1. i \in 1..(m - (o + 1) + 1) /\ o + 1 + i - 1 = o + i
      BY <1>2, <1>5
  <2> QED BY <1>4, <2>1
<1>7. readAt(o, n) = r
    BY DEF readAt, r, m, b
<1> QED BY <1>1, <1>2, <1>4, <1>5, <1>6, <1>7 DEF m, b

(* The last section of a name, and the only one.                           *)
LEMMA Extents ==
    ASSUME NEW f, f.sections \in Seq([name : STRING, offset : Nat, size : Nat]),
           NEW name, NEW e \in extents(f, name)
    PROVE  /\ e.offset \in Nat /\ e.size \in Nat
           /\ \A i \in DOMAIN f.sections :
                 /\ f.sections[i].name = name
                 /\ \A j \in DOMAIN f.sections : f.sections[j].name = name => j = i
                 => e.offset = f.sections[i].offset /\ e.size = f.sections[i].size
<1> DEFINE s == f.sections
           I == {j \in 1..Len(s) : s[j].name = name}
           last == SelectLastInSeq(s, LAMBDA x : x.name = name)
<1>1. /\ s \in Seq([name : STRING, offset : Nat, size : Nat])
      /\ DOMAIN s = 1..Len(s) /\ Len(s) \in Nat
    OBVIOUS
<1>2. last = IF I # {} THEN CHOOSE x \in I : \A y \in I : x >= y ELSE 0
    BY DEF SelectLastInSeq, Max
<1>3. e \in IF last = 0 THEN Extent
            ELSE {[offset |-> s[last].offset, size |-> s[last].size]}
    BY DEF extents
<1> HIDE DEF last
<1>4. last = 0 \/ last \in I
  <2>1. I # {} => \E x \in I : \A y \in I : x >= y
    <3> SUFFICES ASSUME I # {} PROVE \E x \in I : \A y \in I : x >= y
        OBVIOUS
    <3> DEFINE T == {Len(s) - j : j \in I}
    <3>a. \A j \in I : j \in 1..Len(s)
        OBVIOUS
    <3>b. \A j \in I : Len(s) - j \in Nat
        BY <1>1, <3>a
    <3>1. T \subseteq Nat /\ T # {}
      <4> HIDE DEF I
      <4> QED BY <3>b
    <3>2. PICK t \in T : \A u \in T : t <= u
        BY <3>1, Smallest
    <3>3. PICK j \in I : t = Len(s) - j
        OBVIOUS
    <3>4. \A y \in I : Len(s) - j <= Len(s) - y
        BY <3>2, <3>3
    <3>5. \A y \in I : j >= y
        BY <1>1, <3>a, <3>4
    <3> QED BY <3>5
  <2> HIDE DEF I
  <2> QED BY <1>2, <2>1
<1>5. e.offset \in Nat /\ e.size \in Nat
  <2>1. CASE last = 0
      BY <1>3, <2>1, ProcessAssumption
  <2>2. CASE last # 0
    <3>1. last \in 1..Len(s)
        BY <1>4, <2>2
    <3>a. \A S : \A q \in Seq(S) : \A i \in 1..Len(q) : q[i] \in S
        OBVIOUS
    <3>2. s[last] \in [name : STRING, offset : Nat, size : Nat]
      <4> DEFINE S == [name : STRING, offset : Nat, size : Nat]
      <4>1. s \in Seq(S)
          BY <1>1
      <4> HIDE DEF S, s
      <4>2. s[last] \in S
          BY ONLY <3>1, <3>a, <4>1
      <4> QED BY <4>2 DEF S
    <3> QED BY <1>3, <2>2, <3>2
  <2> QED BY <2>1, <2>2
<1>6. ASSUME NEW i \in DOMAIN s, s[i].name = name,
             \A j \in DOMAIN s : s[j].name = name => j = i
      PROVE  e.offset = s[i].offset /\ e.size = s[i].size
  <2>1. I = {i} /\ i # 0 /\ i \in Int
      BY <1>1, <1>6
  <2>2. last = i
    <3> HIDE DEF I
    <3>1. \A x \in {i} : (\A y \in {i} : x >= y) => x = i
        OBVIOUS
    <3>2. i >= i
        BY <2>1
    <3> QED BY <1>2, <2>1, <3>2
  <2> QED BY <1>3, <2>1, <2>2
<1> QED BY <1>5, <1>6

-----------------------------------------------------------------------------
(* The inductive invariant.                                                *)
Steps  == {"main", "parse", "load", "boot", "plain", "header", "place", "run",
           "exit", "terminated"}
Booted == step \in {"plain", "header", "place", "run", "terminated"}

(* What is given, and how far the host has come.                           *)
Given ==
    /\ step \in Steps
    /\ args \in ArgLists
    /\ disk \in Disks
    /\ kernel \in {<<>>} \cup {<<k>> : k \in Kernels}

HostsPart ==
    /\ step \notin {"main", "exit"} => args # <<>>
    /\ step \in {"load", "boot"} \/ Booted => Parsed
    /\ step \in {"main", "parse", "load"} => mem = Zeroes
    /\ step = "boot" => mem = Loaded
    /\ step \in {"main", "parse", "load", "boot"} => position = 0

(* What cppmain found.                                                     *)
Found ==
    Booted /\ Fitting =>
        program = args[1] /\ fromSpim = (Len(args) > 1 /\ args[2] = Flag)

(* Nothing at or above the kernel changes once it runs.                    *)
KernelsPart ==
    Booted => \A a \in Address : a >= image.textStart => mem[a] = Loaded[a]

(* A plain image is in memory up to the File's offset, and nothing behind. *)
PlainUpTo(n) ==
    \A a \in TextStart..(DataStart - 1) :
        mem[a] = IF a - TextStart < n THEN bytes[a - TextStart + 1] ELSE NUL

PlainPart ==
    step = "plain" =>
        /\ fromSpim
        /\ program \in DOMAIN disk =>
              position \in 0..Len(bytes) /\ PlainUpTo(position)

(* What ReadHeaders may find.                                              *)
headers(f) ==
    IF f.elf THEN [entry : {f.entry}, text : extents(f, ".text"), data : extents(f, ".data")]
             ELSE [entry : {0, TextStart}, text : Extent, data : Extent]

ElfPart ==
    /\ step \in {"header", "place"} => ~fromSpim
    /\ step = "place" => program \in DOMAIN disk /\ info \in headers(disk[program])

StartInv ==
    Given /\ HostsPart /\ Found /\ KernelsPart /\ PlainPart /\ ElfPart /\ UserImage

LEMMA Kept ==
    ASSUME UNCHANGED <<args, kernel, image>>
    PROVE  Parsed' = Parsed /\ Loaded' = Loaded /\ Fitting' = Fitting
BY DEF Parsed, Loaded, Linked, Zeroes, withArguments, placed, row, Fitting, argEnd

LEMMA StartInvInit == StartInit => StartInv
<1> SUFFICES ASSUME StartInit PROVE StartInv
    OBVIOUS
<1> USE DEF StartInit, LoaderInit
<1>1. Given
    BY DEF Given, Steps
<1>2. HostsPart
    BY DEF HostsPart, Booted, Zeroes
<1>3. Found /\ KernelsPart
    BY DEF Found, KernelsPart, Booted
<1>4. PlainPart /\ ElfPart /\ UserImage
    BY DEF PlainPart, ElfPart, UserImage
<1> QED BY <1>1, <1>2, <1>3, <1>4 DEF StartInv

(* What the host does.                                                     *)
LEMMA MainKeeps ==
    ASSUME StartInv, Main, UNCHANGED <<disk, pcbVars>>
    PROVE  StartInv'
<1> USE DEF Main, pcbVars
<1>1. Given'
    BY DEF StartInv, Given, Steps
<1>2. HostsPart'
    BY DEF StartInv, HostsPart, Booted, Zeroes
<1>3. Found' /\ KernelsPart'
    BY DEF Found, KernelsPart, Booted
<1>4. PlainPart' /\ ElfPart' /\ UserImage'
    BY DEF PlainPart, ElfPart, UserImage
<1> QED BY <1>1, <1>2, <1>3, <1>4 DEF StartInv

LEMMA ParseKeeps ==
    ASSUME StartInv, ParseKernel, UNCHANGED <<disk, pcbVars>>
    PROVE  StartInv'
<1>1. /\ step = "parse" /\ step' \in {"exit", "load"}
      /\ UNCHANGED <<args, kernel, mem, pc, disk, program, fromSpim, position, info>>
    BY DEF ParseKernel, pcbVars
<1>2. Given'
    BY <1>1 DEF StartInv, Given, Steps
<1>3. ASSUME step' = "load" PROVE Parsed'
  <2> DEFINE k == kernel[1]
  <2>1. kernel # <<>>
      BY <1>3 DEF ParseKernel
  <2>2. k \in Kernels /\ kernel \in {<<j>> : j \in Kernels}
      BY <2>1 DEF StartInv, Given
  <2>3. \A s \in Symbol : value(k, s) = k.globals[s]
      BY <2>2, SymbolValue
  <2>4. /\ value(k, "kernel_trap") = k.globals["kernel_trap"]
        /\ value(k, "argc") = k.globals["argc"] /\ value(k, "argv") = k.globals["argv"]
      BY <2>3 DEF Symbol
  <2>5. image' = [bootEntry |-> k.entry, trapEntry |-> value(k, "kernel_trap"),
                  argc |-> value(k, "argc"), argv |-> value(k, "argv"),
                  textStart |-> k.textStart, text |-> wholeWords(k.text),
                  dataStart |-> k.dataStart, data |-> k.data]
      BY <2>1 DEF ParseKernel
  <2> QED BY <1>1, <2>2, <2>4, <2>5 DEF Parsed
<1>4. HostsPart'
    BY <1>1, <1>3 DEF StartInv, HostsPart, Booted, Zeroes
<1>5. Found' /\ KernelsPart'
    BY <1>1 DEF Found, KernelsPart, Booted
<1>6. PlainPart' /\ ElfPart' /\ UserImage'
    BY <1>1 DEF PlainPart, ElfPart, UserImage
<1> QED BY <1>2, <1>4, <1>5, <1>6 DEF StartInv

LEMMA LoadKeeps ==
    ASSUME StartInv, LoadKernel, UNCHANGED <<disk, pcbVars>>
    PROVE  StartInv'
<1>1. /\ step = "load" /\ step' = "boot"
      /\ UNCHANGED <<args, kernel, image, disk, program, fromSpim, position, info>>
    BY DEF LoadKernel, pcbVars
<1>2. Given'
    BY <1>1 DEF StartInv, Given, Steps
<1>3. mem' = Loaded'
  <2>1. mem = Zeroes
      BY <1>1 DEF StartInv, HostsPart
  <2>2. mem' = Loaded
      BY <2>1 DEF LoadKernel, Loaded, Linked
  <2> QED BY <1>1, <2>2, Kept
<1>4. HostsPart'
    BY <1>1, <1>3, Kept DEF StartInv, HostsPart, Booted
<1>5. Found' /\ KernelsPart'
    BY <1>1 DEF Found, KernelsPart, Booted
<1>6. PlainPart' /\ ElfPart' /\ UserImage'
    BY <1>1 DEF PlainPart, ElfPart, UserImage
<1> QED BY <1>2, <1>4, <1>5, <1>6 DEF StartInv

(* What the kernel does.                                                   *)
LEMMA BootKeeps ==
    ASSUME StartInv, Boot
    PROVE  StartInv'
<1>1. /\ step = "boot" /\ step' = (IF fromSpim' THEN "plain" ELSE "header")
      /\ UNCHANGED <<args, kernel, image, mem, pc, disk, position, info>>
    BY DEF Boot
<1>2. /\ Parsed /\ args \in ArgLists /\ args # <<>> /\ mem = Loaded /\ position = 0
      /\ disk \in Disks
    BY <1>1 DEF StartInv, Given, HostsPart
<1>3. Given'
    BY <1>1 DEF StartInv, Given, Steps
<1>4. HostsPart'
    BY <1>1, <1>2, Kept DEF StartInv, HostsPart, Booted
<1>5. Found'
  <2> SUFFICES ASSUME Fitting'
               PROVE  (program = args[1] /\ fromSpim = (Len(args) > 1 /\ args[2] = Flag))'
      BY DEF Found
  <2>1. Fitting
      BY <1>1, Kept
  <2>2. /\ cstring(global("argv")) = args[1]
        /\ (several(mem[global("argc")]) /\ cstring(global("argv") + ArgLen) = Flag)
           <=> (Len(args) > 1 /\ args[2] = Flag)
      BY <1>2, <2>1, FoundAtBoot
  <2>3. /\ program' = cstring(global("argv"))
        /\ fromSpim' = (/\ several(mem[global("argc")])
                        /\ cstring(global("argv") + ArgLen) = Flag)
      BY DEF Boot
  <2> QED BY <1>1, <2>2, <2>3
<1>6. KernelsPart'
    BY <1>1, <1>2, Kept DEF KernelsPart
<1>7. PlainPart'
  <2> SUFFICES ASSUME step' = "plain"
               PROVE  /\ fromSpim'
                      /\ program' \in DOMAIN disk' =>
                            (position \in 0..Len(bytes) /\ PlainUpTo(position))'
      BY DEF PlainPart
  <2>1. fromSpim'
      BY <1>1
  <2>2. ASSUME program' \in DOMAIN disk'
        PROVE  (position \in 0..Len(bytes) /\ PlainUpTo(position))'
    <3> DEFINE f == disk[program']
               n == Len(f.bytes)
               t == image.textStart
    <3>1. f.bytes \in Seq(Byte) /\ \A k \in Kernels : DataStart + n <= k.textStart
        BY <1>1, <1>2, <2>2, FileAssumption
    <3>2. n \in Nat /\ bytes' = f.bytes
        BY <1>1, <3>1 DEF bytes
    <3>3. /\ TextStart \in Nat /\ DataStart \in Nat /\ t \in Nat /\ DataStart + n <= t
          /\ TextStart \in Address /\ DataStart \in Address
        BY <1>2, <3>1, ParsedFacts, LoaderAssumption, ProcessAssumption
    <3>4. \A a \in TextStart..(DataStart - 1) : mem[a] = NUL
      <4> SUFFICES ASSUME NEW a \in TextStart..(DataStart - 1) PROVE mem[a] = NUL
          OBVIOUS
      <4>1. a \in TextStart..DataStart /\ a < t
        <5> HIDE DEF n, t
        <5> QED BY <3>2, <3>3
      <4>2. a \in Address
          BY <3>3, <4>1, LoaderAssumption
      <4> QED BY <1>2, <4>1, <4>2, LoadedBelow
    <3>5. \A a \in TextStart..(DataStart - 1) : ~(a - TextStart < 0)
        BY <3>3
    <3>6. PlainUpTo(position)'
        BY <1>1, <1>2, <3>4, <3>5 DEF PlainUpTo
    <3>7. position' \in 0..Len(bytes')
        BY <1>1, <1>2, <3>2
    <3> QED BY <3>6, <3>7
  <2> QED BY <2>1, <2>2
<1>8. ElfPart' /\ UserImage'
    BY <1>1 DEF ElfPart, UserImage
<1> QED BY <1>3, <1>4, <1>5, <1>6, <1>7, <1>8 DEF StartInv

LEMMA ReadFailsKeeps ==
    ASSUME StartInv, ReadFails
    PROVE  StartInv'
<1>1. /\ step \in {"plain", "header"} /\ step' = "terminated"
      /\ UNCHANGED <<args, kernel, image, mem, pc, disk, program, fromSpim, position, info>>
    BY DEF ReadFails, pcbVars
<1>2. Given'
    BY <1>1 DEF StartInv, Given, Steps
<1>3. HostsPart' /\ Found' /\ KernelsPart'
    BY <1>1, Kept DEF StartInv, HostsPart, Found, KernelsPart, Booted
<1>4. PlainPart' /\ ElfPart' /\ UserImage'
    BY <1>1 DEF PlainPart, ElfPart, UserImage
<1> QED BY <1>2, <1>3, <1>4 DEF StartInv

LEMMA HeadersKeeps ==
    ASSUME StartInv, ReadHeaders
    PROVE  StartInv'
<1>1. /\ step = "header" /\ step' = "place" /\ program \in DOMAIN disk
      /\ UNCHANGED <<args, kernel, image, mem, pc, disk, program, fromSpim, position>>
      /\ info' \in headers(disk[program])
    BY DEF ReadHeaders, headers
<1>2. Given'
    BY <1>1 DEF StartInv, Given, Steps
<1>3. HostsPart' /\ Found' /\ KernelsPart'
    BY <1>1, Kept DEF StartInv, HostsPart, Found, KernelsPart, Booted
<1>4. ElfPart'
  <2>1. ~fromSpim
      BY <1>1 DEF StartInv, ElfPart
  <2>2. headers(disk[program])' = headers(disk[program])
      BY <1>1
  <2> QED BY <1>1, <2>1, <2>2 DEF ElfPart
<1>5. PlainPart' /\ UserImage'
    BY <1>1 DEF PlainPart, UserImage
<1> QED BY <1>2, <1>3, <1>4, <1>5 DEF StartInv

LEMMA PlainKeeps ==
    ASSUME StartInv, ReadPlain
    PROVE  StartInv'
<1> DEFINE chunk == readAt(position, ReadSize)
           n == Len(bytes)
           m == IF position + ReadSize < n THEN position + ReadSize ELSE n
           l == Len(chunk)
           t == image.textStart
<1>1. /\ step = "plain" /\ program \in DOMAIN disk
      /\ UNCHANGED <<args, kernel, image, disk, program, fromSpim, info>>
      /\ chunk = <<>> => step' = "run" /\ pc' = TextStart /\ UNCHANGED <<mem, position>>
      /\ chunk # <<>> => /\ mem' = placed(mem, nextPlace, chunk)
                         /\ position' = position + l /\ UNCHANGED <<step, pc>>
    BY DEF ReadPlain, advanced
<1>2. /\ Parsed /\ disk \in Disks /\ fromSpim /\ position \in 0..n /\ PlainUpTo(position)
    BY <1>1 DEF StartInv, Given, HostsPart, Booted, PlainPart
<1>3. /\ bytes \in Seq(Byte) /\ n \in Nat /\ TextStart \in Nat /\ DataStart \in Nat
      /\ t \in Nat /\ TextStart + n <= DataStart /\ DataStart + n <= t
      /\ TextStart..t \subseteq Address
    BY <1>1, <1>2, FileFits
<1>4. position \in Nat /\ position <= n /\ ReadSize \in Nat \ {0}
    BY <1>2, <1>3, ProcessAssumption
<1>5. /\ m \in Nat /\ chunk \in Seq(Byte) /\ l = (IF position < m THEN m - position ELSE 0)
      /\ \A i \in 1..l : chunk[i] = bytes[position + i]
  <2>1. ReadSize \in Nat
      BY <1>4
  <2> QED BY <1>3, <1>4, <2>1, Reading
<1> HIDE DEF chunk
<1>6. chunk = <<>> => position = n
  <2>1. chunk = <<>> => l = 0
      OBVIOUS
  <2> HIDE DEF l, n
  <2> QED BY <1>3, <1>4, <1>5, <2>1
<1>7. position + l \in 0..n /\ l \in Nat
  <2>1. l \in Nat
      BY <1>5
  <2> HIDE DEF l, n
  <2> QED BY <1>3, <1>4, <1>5, <2>1
<1>8. Given'
    BY <1>1 DEF StartInv, Given, Steps
<1>9. HostsPart' /\ Found'
  <2>1. step' \in {"plain", "run"}
      BY <1>1
  <2> QED BY <1>1, <2>1, Kept DEF StartInv, HostsPart, Found, Booted
<1>10. ASSUME chunk # <<>>
       PROVE  \A a \in Address : mem'[a] = IF a - TextStart \in position..(position + l - 1)
                                           THEN bytes[a - TextStart + 1] ELSE mem[a]
  <2> SUFFICES ASSUME NEW a \in Address
               PROVE  mem'[a] = IF a - TextStart \in position..(position + l - 1)
                                THEN bytes[a - TextStart + 1] ELSE mem[a]
      OBVIOUS
  <2>1. a \in Nat /\ l \in Nat
      BY <1>5, LoaderAssumption
  <2>2. mem'[a] = IF a \in nextPlace..(nextPlace + l - 1)
                  THEN chunk[a - nextPlace + 1] ELSE mem[a]
      BY <1>1, <1>10 DEF placed
  <2> HIDE DEF l
  <2>3. a \in nextPlace..(nextPlace + l - 1) <=> a - TextStart \in position..(position + l - 1)
      BY <1>3, <1>4, <2>1 DEF nextPlace
  <2>4. ASSUME a - TextStart \in position..(position + l - 1)
        PROVE  chunk[a - nextPlace + 1] = bytes[a - TextStart + 1]
    <3>1. /\ a - nextPlace + 1 \in 1..l
          /\ position + (a - nextPlace + 1) = a - TextStart + 1
        BY <1>3, <1>4, <2>1, <2>4 DEF nextPlace
    <3> QED BY <1>5, <3>1
  <2> QED BY <2>2, <2>3, <2>4
<1>11. KernelsPart'
  <2>1. KernelsPart /\ Booted
      BY <1>1 DEF StartInv, Booted
  <2>2. \A a \in Address : a >= t => mem'[a] = mem[a]
    <3>1. CASE chunk = <<>>
        BY <1>1, <3>1
    <3>2. CASE chunk # <<>>
      <4> SUFFICES ASSUME NEW a \in Address, a >= t PROVE mem'[a] = mem[a]
          OBVIOUS
      <4>1. a \in Nat
          BY LoaderAssumption
      <4>2. ~(a - TextStart \in position..(position + l - 1))
        <5> HIDE DEF l, n, t
        <5> QED BY <1>3, <1>4, <1>7, <4>1
      <4> QED BY <1>10, <3>2, <4>2
    <3> QED BY <3>1, <3>2
  <2> QED BY <1>1, <2>1, <2>2, Kept DEF KernelsPart
<1>12. PlainPart'
  <2> SUFFICES ASSUME step' = "plain"
               PROVE  position' \in 0..Len(bytes') /\ PlainUpTo(position)'
      BY <1>1, <1>2 DEF PlainPart
  <2>1. chunk # <<>>
      BY <1>1
  <2>2. bytes' = bytes /\ position' = position + l
      BY <1>1, <2>1 DEF bytes
  <2>3. ASSUME NEW a \in TextStart..(DataStart - 1)
        PROVE  mem'[a] = IF a - TextStart < position' THEN bytes[a - TextStart + 1] ELSE NUL
    <3>1. a \in Nat /\ a \in TextStart..t /\ a >= TextStart
        BY <1>3
    <3>2. mem'[a] = IF a - TextStart \in position..(position + l - 1)
                    THEN bytes[a - TextStart + 1] ELSE mem[a]
        BY <1>3, <1>10, <2>1, <3>1
    <3>3. mem[a] = IF a - TextStart < position THEN bytes[a - TextStart + 1] ELSE NUL
        BY <1>2 DEF PlainUpTo
    <3>4. a - TextStart < position + l <=>
              a - TextStart < position \/ a - TextStart \in position..(position + l - 1)
      <4>1. a - TextStart \in Int /\ position \in Nat /\ l \in Nat
          BY <1>3, <1>4, <1>7, <3>1
      <4> DEFINE d == a - TextStart
      <4> HIDE DEF l, d
      <4>2. d \in Int
          BY <4>1 DEF d
      <4>3. d < position + l <=> d < position \/ d \in position..(position + l - 1)
          BY ONLY <4>1, <4>2
      <4> QED BY <4>3 DEF d
    <3>5. a - TextStart \in position..(position + l - 1) => ~(a - TextStart < position)
        BY <1>3, <1>4, <3>1
    <3> QED BY <2>2, <3>2, <3>3, <3>4, <3>5
  <2> QED BY <1>7, <2>2, <2>3 DEF PlainUpTo
<1>13. UserImage'
  <2> SUFFICES ASSUME step' = "run"
               PROVE  /\ fromSpim' /\ pc' = TextStart
                      /\ \A a \in TextStart..(DataStart - 1) :
                            mem'[a] = IF a - TextStart < Len(bytes')
                                      THEN bytes'[a - TextStart + 1] ELSE NUL
      BY DEF UserImage
  <2>1. chunk = <<>>
      BY <1>1
  <2>2. position = n /\ bytes' = bytes
      BY <1>1, <1>6, <2>1 DEF bytes
  <2> QED BY <1>1, <1>2, <2>1, <2>2 DEF PlainUpTo
<1>14. ElfPart'
    BY <1>1 DEF ElfPart
<1> QED BY <1>8, <1>9, <1>11, <1>12, <1>13, <1>14 DEF StartInv

(* A section read whole and placed is where it should be.                  *)
LEMMA SectionPlaced ==
    ASSUME Parsed, disk \in Disks, program \in DOMAIN disk, disk[program].elf,
           NEW name \in {".text", ".data"},
           NEW e \in extents(disk[program], name), NEW i \in DOMAIN disk[program].sections,
           disk[program].sections[i].name = name,
           NEW start \in {TextStart, DataStart}, NEW w,
           \A a \in Address : a \in start..(start + Len(readAt(e.offset, e.size)) - 1) =>
               w[a] = readAt(e.offset, e.size)[a - start + 1],
           NEW j \in 1..disk[program].sections[i].size
    PROVE  w[start + j - 1] = bytes[disk[program].sections[i].offset + j]
<1> DEFINE f == disk[program]
           s == f.sections
           o == s[i].offset
           z == s[i].size
           n == Len(bytes)
           r == readAt(o, z)
<1>1. /\ s \in Seq([name : STRING, offset : Nat, size : Nat])
      /\ \A k, l \in DOMAIN s :
            /\ s[k].offset + s[k].size <= Len(f.bytes)
            /\ s[k].name = s[l].name => k = l \/ s[k].name \notin {".text", ".data"}
    BY FileAssumption
<1>2. /\ bytes \in Seq(Byte) /\ n \in Nat /\ TextStart \in Nat /\ DataStart \in Nat
      /\ image.textStart \in Nat
      /\ TextStart + n <= DataStart /\ DataStart + n <= image.textStart
      /\ TextStart..image.textStart \subseteq Address
    BY FileFits
<1>3. e.offset = o /\ e.size = z
  <2>1. \A l \in DOMAIN s : s[l].name = name => l = i
      BY <1>1
  <2> QED BY <1>1, <2>1, Extents
<1>4. o \in Nat /\ z \in Nat
    BY <1>1, <1>3, Extents
<1>5. o + z <= n
    BY <1>1 DEF bytes
<1>6. Len(r) = z /\ \A k \in 1..z : r[k] = bytes[o + k]
  <2> DEFINE m == IF o + z < n THEN o + z ELSE n
  <2>1. Len(r) = (IF o < m THEN m - o ELSE 0) /\ \A k \in 1..Len(r) : r[k] = bytes[o + k]
      BY <1>2, <1>4, Reading
  <2>2. (IF o < m THEN m - o ELSE 0) = z
    <3> HIDE DEF o, z, n
    <3> QED BY <1>2, <1>4, <1>5
  <2> QED BY <2>1, <2>2
<1> DEFINE a == start + j - 1
<1>7. a \in start..(start + z - 1) /\ a - start + 1 = j /\ a \in TextStart..image.textStart
      /\ j \in 1..z
  <2>1. j \in 1..z /\ start \in Nat /\ start >= TextStart /\ start + n <= image.textStart
      BY <1>2
  <2> HIDE DEF o, z, n
  <2> QED BY <1>2, <1>4, <1>5, <2>1
<1>8. a \in Address
    BY <1>2, <1>7
<1> HIDE DEF a
<1>9. w[a] = r[a - start + 1]
    BY <1>3, <1>6, <1>7, <1>8
<1> QED BY <1>6, <1>7, <1>9 DEF a

LEMMA PlaceKeeps ==
    ASSUME StartInv, PlaceSections
    PROVE  StartInv'
<1> DEFINE T == info.text
           D == info.data
           rt == readAt(T.offset, T.size)
           rd == dataBytes
           v == placed(mem, TextStart, rt)
           f == disk[program]
           n == Len(bytes)
           t == image.textStart
<1>1. /\ step = "place" /\ step' = "run" /\ mem' = placed(v, DataStart, rd)
      /\ pc' = info.entry
      /\ UNCHANGED <<args, kernel, image, disk, program, fromSpim, position, info>>
    BY DEF PlaceSections, pcbVars
<1>2. /\ Parsed /\ disk \in Disks /\ ~fromSpim /\ program \in DOMAIN disk
      /\ info \in headers(f)
    BY <1>1 DEF StartInv, Given, HostsPart, Booted, ElfPart
<1>3. /\ bytes \in Seq(Byte) /\ n \in Nat /\ TextStart \in Nat /\ DataStart \in Nat
      /\ t \in Nat /\ TextStart + n <= DataStart /\ DataStart + n <= t
      /\ TextStart..t \subseteq Address
    BY <1>2, FileFits
<1>4. f.elf \in BOOLEAN /\ f.sections \in Seq([name : STRING, offset : Nat, size : Nat])
    BY <1>2, FileAssumption
<1>5. /\ f.elf => /\ T \in extents(f, ".text") /\ D \in extents(f, ".data")
                  /\ info.entry = f.entry
      /\ ~f.elf => T \in Extent /\ D \in Extent
    BY <1>2 DEF headers
<1>6. T.offset \in Nat /\ T.size \in Nat /\ D.offset \in Nat /\ D.size \in Nat
  <2>1. CASE f.elf
      BY <1>4, <1>5, <2>1, Extents
  <2>2. CASE ~f.elf
      BY <1>5, <2>2, ProcessAssumption
  <2> QED BY <2>1, <2>2
<1>7. ASSUME NEW o \in Nat, NEW z \in Nat
      PROVE  Len(readAt(o, z)) \in 0..n
  <2> DEFINE m == IF o + z < n THEN o + z ELSE n
             l == Len(readAt(o, z))
  <2>1. l = (IF o < m THEN m - o ELSE 0)
      BY <1>3, Reading
  <2> HIDE DEF n, l
  <2> QED BY <1>3, <2>1 DEF l
<1>8. Len(rt) \in 0..n /\ Len(rd) \in 0..n
    BY <1>6, <1>7 DEF dataBytes
<1> HIDE DEF rt, rd, v
<1>9. /\ \A a \in Address : a \in TextStart..(TextStart + Len(rt) - 1) =>
             mem'[a] = rt[a - TextStart + 1]
      /\ \A a \in Address : a \in DataStart..(DataStart + Len(rd) - 1) =>
             mem'[a] = rd[a - DataStart + 1]
      /\ \A a \in Address : a >= t => mem'[a] = mem[a]
  <2>1. \A a \in Address : a \in Nat
      BY LoaderAssumption
  <2>2. \A a \in Address :
           mem'[a] = IF a \in DataStart..(DataStart + Len(rd) - 1) THEN rd[a - DataStart + 1]
                     ELSE IF a \in TextStart..(TextStart + Len(rt) - 1)
                     THEN rt[a - TextStart + 1] ELSE mem[a]
      BY <1>1 DEF placed, v
  <2> DEFINE k == Len(rt)
             l == Len(rd)
  <2>3. k \in 0..n /\ l \in 0..n
      BY <1>8
  <2> HIDE DEF k, l, n, t
  <2>4. \A a \in Nat : a \in TextStart..(TextStart + k - 1) =>
            a \notin DataStart..(DataStart + l - 1)
      BY <1>3, <2>3
  <2>5. \A a \in Nat : a >= t => /\ a \notin TextStart..(TextStart + k - 1)
                                 /\ a \notin DataStart..(DataStart + l - 1)
      BY <1>3, <2>3
  <2> QED BY <2>1, <2>2, <2>4, <2>5 DEF k, l
<1>10. Given'
    BY <1>1 DEF StartInv, Given, Steps
<1>11. HostsPart' /\ Found'
    BY <1>1, Kept DEF StartInv, HostsPart, Found, Booted
<1>12. KernelsPart'
  <2>1. KernelsPart /\ Booted
      BY <1>1 DEF StartInv, Booted
  <2> QED BY <1>1, <1>9, <2>1, Kept DEF KernelsPart
<1>13. PlainPart' /\ ElfPart'
    BY <1>1 DEF PlainPart, ElfPart
<1>14. UserImage'
  <2> SUFFICES ASSUME f.elf
               PROVE  /\ sectionAt(f, TextStart, ".text")'
                      /\ sectionAt(f, DataStart, ".data")'
                      /\ pc' = f.entry
      BY <1>1, <1>2 DEF UserImage
  <2>1. bytes' = bytes
      BY <1>1 DEF bytes
  <2>2. ASSUME NEW i \in DOMAIN f.sections, f.sections[i].name = ".text",
               NEW j \in 1..f.sections[i].size
        PROVE  mem'[TextStart + j - 1] = bytes[f.sections[i].offset + j]
      BY <1>2, <1>5, <1>9, <2>2, SectionPlaced DEF rt
  <2>3. ASSUME NEW i \in DOMAIN f.sections, f.sections[i].name = ".data",
               NEW j \in 1..f.sections[i].size
        PROVE  mem'[DataStart + j - 1] = bytes[f.sections[i].offset + j]
    <3>1. rd = readAt(D.offset, D.size)
        BY DEF rd, dataBytes
    <3>2. \A a \in Address : a \in DataStart..(DataStart + Len(readAt(D.offset, D.size)) - 1) =>
              mem'[a] = readAt(D.offset, D.size)[a - DataStart + 1]
        BY <1>9, <3>1
    <3>3. D \in extents(f, ".data")
        BY <1>5
    <3> HIDE DEF D
    <3> QED BY <1>2, <2>3, <3>2, <3>3, SectionPlaced
  <2>4. pc' = f.entry
      BY <1>1, <1>5
  <2> QED BY <1>1, <2>1, <2>2, <2>3, <2>4 DEF sectionAt
<1> QED BY <1>10, <1>11, <1>12, <1>13, <1>14 DEF StartInv

(* The invariant holds of every start.                                     *)
LEMMA StartInvStep == StartInv /\ [StartNext]_startVars => StartInv'
<1> SUFFICES ASSUME StartInv, [StartNext]_startVars PROVE StartInv'
    OBVIOUS
<1>1. CASE Main /\ UNCHANGED <<disk, pcbVars>>
    BY <1>1, MainKeeps
<1>2. CASE ParseKernel /\ UNCHANGED <<disk, pcbVars>>
    BY <1>2, ParseKeeps
<1>3. CASE LoadKernel /\ UNCHANGED <<disk, pcbVars>>
    BY <1>3, LoadKeeps
<1>4. CASE Boot
    BY <1>4, BootKeeps
<1>5. CASE ReadFails
    BY <1>5, ReadFailsKeeps
<1>6. CASE ReadPlain
    BY <1>6, PlainKeeps
<1>7. CASE ReadHeaders
    BY <1>7, HeadersKeeps
<1>8. CASE PlaceSections
    BY <1>8, PlaceKeeps
<1>9. CASE UNCHANGED startVars
  <2>1. UNCHANGED <<step, args, kernel, image, mem, pc, disk, program, fromSpim, position, info>>
      BY <1>9 DEF startVars, loaderVars, pcbVars
  <2>2. Given' /\ HostsPart' /\ Found' /\ KernelsPart'
      BY <2>1, Kept DEF StartInv, Given, HostsPart, Found, KernelsPart, Booted, Zeroes
  <2>3. PlainPart' /\ UserImage'
      BY <2>1 DEF StartInv, PlainPart, PlainUpTo, UserImage, sectionAt, bytes
  <2>4. ElfPart'
      BY <2>1 DEF StartInv, ElfPart
  <2> QED BY <2>2, <2>3, <2>4 DEF StartInv
<1> QED BY <1>1, <1>2, <1>3, <1>4, <1>5, <1>6, <1>7, <1>8, <1>9 DEF StartNext

THEOREM StartInvHolds == StartSpec => []StartInv
<1>1. StartInit => StartInv
    BY StartInvInit
<1>2. StartInv /\ [StartNext]_startVars => StartInv'
    BY StartInvStep
<1> QED BY <1>1, <1>2, PTL DEF StartSpec

(* cppmain finds the program's name and whether the flag was given, however*)
(* long the flag and the arguments behind it are and wherever the linker   *)
(* put argc and argv (boot.cpp, Machine::loadKernel).                      *)
THEOREM ArgumentsFound == StartSpec => []FindsArguments
<1>1. StartInv => FindsArguments
  <2> SUFFICES ASSUME StartInv, step \notin {"main", "parse", "load", "boot", "exit"},
                      Len(args[1]) < ArgLen \/ (Len(args) = 1 /\ argEnd(1) < ArgLen * ArgSlots)
               PROVE  program = args[1] /\ fromSpim = (Len(args) > 1 /\ args[2] = Flag)
      BY DEF FindsArguments
  <2> QED BY DEF StartInv, Given, Steps, Found, Booted, Fitting
<1> QED BY <1>1, StartInvHolds, PTL

(* The kernel stays as it was linked, but for argc and argv and the bytes  *)
(* of text behind its last whole word, whatever program is loaded          *)
(* (Machine::loadKernel, PCB's constructor).                               *)
THEOREM KernelKept == StartSpec => []KernelIntact
<1>1. StartInv => KernelIntact
  <2> SUFFICES ASSUME StartInv, step \notin {"main", "parse", "load", "exit"},
                      \A i \in DOMAIN args : argEnd(i) <= ArgLen * ArgSlots
               PROVE  /\ \A a \in Address :
                            \/ a < kernel[1].textStart
                            \/ a = global("argc")
                            \/ a \in global("argv")..(global("argv") + ArgLen * ArgSlots - 1)
                            \/ a - kernel[1].textStart \in
                                  Len(wholeWords(kernel[1].text))..(Len(kernel[1].text) - 1)
                            \/ mem[a] = linked(a)
                      /\ image.trapEntry = global("kernel_trap")
      BY DEF KernelIntact
  <2>1. Parsed /\ args \in ArgLists /\ (step = "boot" \/ Booted)
      BY DEF StartInv, Given, HostsPart, Steps, Booted
  <2>2. \A a \in Address : a >= image.textStart => mem[a] = Loaded[a]
      BY <2>1 DEF StartInv, HostsPart, KernelsPart
  <2>3. /\ image.trapEntry = global("kernel_trap") /\ image.textStart = kernel[1].textStart
        /\ image.argc = global("argc") /\ image.argv = global("argv")
        /\ image.textStart \in Nat
      BY <2>1, ParsedFacts, LoaderAssumption
  <2>4. ASSUME NEW a \in Address, a >= image.textStart, a # image.argc,
               a \notin image.argv..(image.argv + ArgLen * ArgSlots - 1),
               a - image.textStart \notin
                   Len(wholeWords(kernel[1].text))..(Len(kernel[1].text) - 1)
        PROVE  mem[a] = linked(a)
    <3>1. Loaded[a] = linked(a)
        BY <2>1, <2>4, KernelLoaded
    <3> QED BY <2>2, <2>4, <3>1
  <2>5. \A a \in Address : a < image.textStart \/ a >= image.textStart
      BY <2>3, LoaderAssumption
  <2> QED BY <2>3, <2>4, <2>5
<1> QED BY <1>1, StartInvHolds, PTL

(* The program in memory when it starts is the one in its file, for every  *)
(* size of reads and whatever lies in uninitialised variables (PCB's       *)
(* constructor).                                                           *)
THEOREM ImageInPlace == StartSpec => []UserImage
<1>1. StartInv => UserImage
    BY DEF StartInv
<1> QED BY <1>1, StartInvHolds, PTL
=============================================================================
