---------------------------- MODULE VectorProofs ----------------------------
(***************************************************************************)
(* Ownership, contents and bounds of the vectors, for any number of them,  *)
(* any elements, initial capacity and requests.  The operators of Vector   *)
(* work on a state s; each has a lemma that says what becomes of the three *)
(* parts of the invariant: Arrayed, Owned and Kept.                        *)
(***************************************************************************)
EXTENDS Vector, TLAPS

Rep == [storage : Arrays \cup {Null}, size : Nat, capacity : Nat]

IsFunction(f) == f = [a \in DOMAIN f |-> f[a]]

(* Every vector knows its array, and every array its cells.                *)
Arrayed(s) ==
    /\ s = [vec |-> s.vec, mem |-> s.mem, overran |-> s.overran, spoilt |-> s.spoilt]
    /\ s.vec \in [Vectors -> Rep \cup {Absent}]
    /\ s.overran \in BOOLEAN /\ s.spoilt \subseteq live(s)
    /\ Null \in DOMAIN s.mem /\ DOMAIN s.mem \subseteq Arrays \cup {Null}
    /\ IsFunction(s.mem)
    /\ \A a \in DOMAIN s.mem : s.mem[a] \in [DOMAIN s.mem[a] -> Cell]
    /\ DOMAIN s.mem[Null] = 0..(Initial - 1)
    /\ \A v \in live(s) :
          IF s.vec[v].storage = Null
          THEN s.vec[v].capacity \in {0, Initial}
          ELSE /\ s.vec[v].storage \in DOMAIN s.mem
               /\ DOMAIN s.mem[s.vec[v].storage] = 0..(s.vec[v].capacity - 1)

(* No array without an owner and none with two.                            *)
Owned(s) ==
    /\ \A a \in DOMAIN s.mem \ {Null} : \E v \in live(s) : s.vec[v].storage = a
    /\ \A v, u \in live(s) : v # u /\ s.vec[v].storage # Null =>
          s.vec[v].storage # s.vec[u].storage

Fits(s) == \A v \in live(s) : s.vec[v].size <= s.vec[v].capacity

(* What the client of v expects is there, where no one else wrote.         *)
KeptAt(s, q, v) ==
    /\ Len(q) = s.vec[v].size
    /\ v \notin s.spoilt =>
          \A i \in 1..s.vec[v].size : s.mem[s.vec[v].storage][i - 1] = q[i]

Kept(s, h) == \A v \in live(s) : KeptAt(s, h[v], v)

Sound(s) == Arrayed(s) /\ Owned(s)
Good(s, h) == Sound(s) /\ Fits(s) /\ Kept(s, h) /\ ~s.overran

(* A run ends with the write that left its array, of a vector without      *)
(* capacity.                                                               *)
Overran(s) == Sound(s) /\ s.overran /\ \E v \in live(s) : s.vec[v].capacity = 0

VInv == holds \in [Vectors -> Seq(Cell)] /\ (Good(st, holds) \/ Overran(st))

-----------------------------------------------------------------------------
LEMMA AbsentIsNoRep == Absent \notin Rep
BY DEF Absent, Rep

(* What a vector that is there looks like.                                 *)
LEMMA Living ==
    ASSUME NEW s, Arrayed(s), NEW v \in live(s)
    PROVE  /\ v \in Vectors /\ s.vec[v] \in Rep
           /\ s.vec[v].storage \in DOMAIN s.mem /\ s.vec[v].storage \in Arrays \cup {Null}
           /\ s.vec[v].size \in Nat /\ s.vec[v].capacity \in Nat
           /\ s.vec[v].size <= s.vec[v].capacity =>
                 \A i \in 0..(s.vec[v].size - 1) : i \in DOMAIN s.mem[s.vec[v].storage]
           /\ \A i \in DOMAIN s.mem[s.vec[v].storage] : s.mem[s.vec[v].storage][i] \in Cell
<1>1. v \in Vectors /\ s.vec[v] \in Rep
    BY DEF live, Arrayed
<1>2. s.vec[v].storage \in DOMAIN s.mem /\ s.vec[v].storage \in Arrays \cup {Null}
    BY <1>1 DEF Arrayed, Rep
<1>3. s.vec[v].size \in Nat /\ s.vec[v].capacity \in Nat
    BY <1>1 DEF Rep
<1>4. ASSUME s.vec[v].size <= s.vec[v].capacity, NEW i \in 0..(s.vec[v].size - 1)
      PROVE  i \in DOMAIN s.mem[s.vec[v].storage]
  <2>1. CASE s.vec[v].storage = Null
    <3>1. s.vec[v].capacity \in {0, Initial} /\ DOMAIN s.mem[Null] = 0..(Initial - 1)
        BY <2>1 DEF Arrayed
    <3> QED BY <1>3, <1>4, <2>1, <3>1, VectorAssumption
  <2>2. CASE s.vec[v].storage # Null
    <3>1. DOMAIN s.mem[s.vec[v].storage] = 0..(s.vec[v].capacity - 1)
        BY <2>2 DEF Arrayed
    <3> QED BY <1>3, <1>4, <3>1
  <2> QED BY <2>1, <2>2
<1>5. \A i \in DOMAIN s.mem[s.vec[v].storage] : s.mem[s.vec[v].storage][i] \in Cell
    BY <1>2 DEF Arrayed
<1> QED BY <1>1, <1>2, <1>3, <1>4, <1>5

(* There is an array that new can return.                                  *)
LEMMA NewReturns ==
    ASSUME NEW s, Sound(s)
    PROVE  \E b \in Arrays : b \notin DOMAIN s.mem
<1> DEFINE f == [v \in Vectors |-> IF s.vec[v] = Absent THEN Null ELSE s.vec[v].storage]
<1>1. f \in [Vectors -> Arrays \cup {Null}]
  <2>1. ASSUME NEW v \in Vectors, s.vec[v] # Absent PROVE s.vec[v].storage \in Arrays \cup {Null}
      BY <2>1, Living DEF live, Sound
  <2> QED BY <2>1
<1>2. PICK a \in Arrays : \A v \in Vectors : f[v] # a
    BY <1>1, ArraysAssumption
<1>3. a # Null
    BY VectorAssumption
<1>4. \A v \in live(s) : s.vec[v].storage # a
    BY <1>2 DEF live
<1> QED BY <1>2, <1>3, <1>4 DEF Sound, Owned
-----------------------------------------------------------------------------
(* A new array for v, with the elements of w, in place of v's.             *)
LEMMA WithArray ==
    ASSUME NEW s, Sound(s), Fits(s), NEW v \in Vectors, NEW w \in live(s),
           NEW n \in Nat, s.vec[w].size <= n
    PROVE  LET t == withArray(s, v, w, n)
           IN  /\ Sound(t) /\ Fits(t) /\ t.overran = s.overran
               /\ live(t) = live(s) \cup {v}
               /\ t.vec[v].size = s.vec[w].size /\ t.vec[v].capacity = n
               /\ t.vec[v].storage # Null
               /\ \A u \in live(s) \ {v} : t.vec[u] = s.vec[u]
               /\ \A u \in live(s) \ {v} : \A q : KeptAt(s, q, u) => KeptAt(t, q, u)
               /\ \A q : KeptAt(s, q, w) => KeptAt(t, q, v)
<1> DEFINE a   == CHOOSE b \in Arrays : b \notin DOMAIN s.mem
           old == s.vec[v].storage
           cells == [i \in 0..(n - 1) |->
                       IF i < s.vec[w].size THEN s.mem[s.vec[w].storage][i] ELSE Junk]
           t == withArray(s, v, w, n)
<1>1. a \in Arrays /\ a \notin DOMAIN s.mem /\ a # Null
    BY NewReturns, VectorAssumption
<1> HIDE DEF a
<1>2. /\ t.vec = [s.vec EXCEPT ![v] = [storage |-> a, size |-> s.vec[w].size, capacity |-> n]]
      /\ t.mem = [b \in (DOMAIN s.mem \cup {a}) \ ({old} \ {Null}) |->
                    IF b = a THEN cells ELSE s.mem[b]]
      /\ t.overran = s.overran
      /\ t.spoilt = IF w \in s.spoilt THEN s.spoilt \cup {v} ELSE s.spoilt \ {v}
      /\ t = [vec |-> t.vec, mem |-> t.mem, overran |-> t.overran, spoilt |-> t.spoilt]
  <2> DEFINE m == [b \in DOMAIN s.mem \cup {a} |-> IF b = a THEN cells ELSE s.mem[b]]
  <2>1. t = [s EXCEPT !.mem = deleted(m, old),
                      !.vec[v] = [storage |-> a, size |-> s.vec[w].size, capacity |-> n],
                      !.spoilt = IF w \in @ THEN @ \cup {v} ELSE @ \ {v}]
      BY DEF withArray, cellsKept, a
  <2>2. deleted(m, old) = [b \in (DOMAIN s.mem \cup {a}) \ ({old} \ {Null}) |->
                              IF b = a THEN cells ELSE s.mem[b]]
      BY DEF deleted
  <2> HIDE DEF m, cells, old, t
  <2>3. s = [vec |-> s.vec, mem |-> s.mem, overran |-> s.overran, spoilt |-> s.spoilt]
      BY DEF Sound, Arrayed
  <2> QED BY <2>1, <2>2, <2>3
<1> HIDE DEF t
<1>3. /\ s.vec[w].size \in Nat /\ s.vec[w].size <= s.vec[w].capacity
      /\ s.vec \in [Vectors -> Rep \cup {Absent}]
      /\ \A i \in 0..(s.vec[w].size - 1) : /\ i \in DOMAIN s.mem[s.vec[w].storage]
                                           /\ s.mem[s.vec[w].storage][i] \in Cell
    BY Living DEF Sound, Fits, Arrayed
<1>4. cells \in [0..(n - 1) -> Cell]
    BY <1>3 DEF Cell
<1>5. /\ t.vec[v] = [storage |-> a, size |-> s.vec[w].size, capacity |-> n]
      /\ t.vec[v] \in Rep /\ t.vec[v] # Absent
      /\ \A u \in Vectors \ {v} : t.vec[u] = s.vec[u]
    BY <1>1, <1>2, <1>3, AbsentIsNoRep DEF Rep
<1>6. live(t) = live(s) \cup {v}
    BY <1>5 DEF live
<1> HIDE DEF cells
<1>7. old = Null \/ v \in live(s)
    BY <1>3 DEF live, Absent
<1>8. /\ a \in DOMAIN t.mem /\ t.mem[a] = cells /\ Null \in DOMAIN t.mem
      /\ DOMAIN t.mem = (DOMAIN s.mem \cup {a}) \ ({old} \ {Null})
      /\ \A b \in DOMAIN t.mem \ {a} : b \in DOMAIN s.mem /\ t.mem[b] = s.mem[b]
  <2>1. old # a
      BY <1>1, <1>7, Living DEF Sound
  <2> QED BY <1>1, <1>2, <2>1 DEF Sound, Arrayed
<1>9. \A u \in live(s) \ {v} : /\ s.vec[u].storage \in DOMAIN t.mem \ {a}
                               /\ t.mem[s.vec[u].storage] = s.mem[s.vec[u].storage]
  <2> SUFFICES ASSUME NEW u \in live(s) \ {v} PROVE s.vec[u].storage \in DOMAIN t.mem \ {a}
      BY <1>8
  <2>1. s.vec[u].storage \in DOMAIN s.mem
      BY Living DEF Sound
  <2>2. s.vec[u].storage # Null => s.vec[u].storage # old
      BY <1>7 DEF Sound, Owned
  <2> QED BY <1>1, <1>8, <2>1, <2>2
<1>10. Arrayed(t)
  <2>1. t.vec \in [Vectors -> Rep \cup {Absent}]
      BY <1>2, <1>3, <1>5
  <2>2. t.overran \in BOOLEAN /\ t.spoilt \subseteq live(t)
      BY <1>2, <1>6 DEF Sound, Arrayed
  <2>3. \A b \in DOMAIN t.mem : t.mem[b] \in [DOMAIN t.mem[b] -> Cell]
      BY <1>4, <1>8 DEF Sound, Arrayed
  <2>4. /\ DOMAIN t.mem \subseteq Arrays \cup {Null} /\ DOMAIN t.mem[Null] = 0..(Initial - 1)
        /\ Null \in DOMAIN t.mem
      BY <1>1, <1>8 DEF Sound, Arrayed
  <2>5. IsFunction(t.mem)
      BY <1>2 DEF IsFunction
  <2>6. ASSUME NEW u \in live(t)
        PROVE  IF t.vec[u].storage = Null
               THEN t.vec[u].capacity \in {0, Initial}
               ELSE /\ t.vec[u].storage \in DOMAIN t.mem
                    /\ DOMAIN t.mem[t.vec[u].storage] = 0..(t.vec[u].capacity - 1)
    <3>1. CASE u = v
        BY <1>1, <1>4, <1>5, <1>8, <3>1
    <3>2. CASE u # v
      <4>1. u \in live(s) \ {v} /\ t.vec[u] = s.vec[u]
          BY <1>5, <1>6, <3>2 DEF live
      <4> QED BY <1>9, <4>1 DEF Sound, Arrayed
    <3> QED BY <3>1, <3>2
  <2> QED BY <1>2, <2>1, <2>2, <2>3, <2>4, <2>5, <2>6 DEF Arrayed
<1>11. Owned(t)
  <2>1. ASSUME NEW b \in DOMAIN t.mem \ {Null} PROVE \E u \in live(t) : t.vec[u].storage = b
    <3>1. CASE b = a
        BY <1>5, <1>6, <3>1
    <3>2. CASE b # a
      <4>1. b \in DOMAIN s.mem \ {Null} /\ b # old
          BY <1>8, <2>1, <3>2
      <4>2. PICK u \in live(s) : s.vec[u].storage = b
          BY <4>1 DEF Sound, Owned
      <4>3. u # v /\ u \in Vectors
          BY <4>1, <4>2 DEF live
      <4> QED BY <1>5, <1>6, <4>2, <4>3
    <3> QED BY <3>1, <3>2
  <2>2. ASSUME NEW u \in live(t), NEW x \in live(t), u # x, t.vec[u].storage # Null
        PROVE  t.vec[u].storage # t.vec[x].storage
    <3>1. \A y \in live(t) : y # v => y \in live(s) \ {v} /\ t.vec[y] = s.vec[y]
        BY <1>5, <1>6 DEF live
    <3>2. \A y \in live(t) : y # v => t.vec[y].storage # a
        BY <1>9, <3>1
    <3> QED BY <1>5, <2>2, <3>1, <3>2 DEF Sound, Owned
  <2> QED BY <2>1, <2>2 DEF Owned
<1>12. Fits(t)
    BY <1>3, <1>5, <1>6 DEF Fits, live
<1>13. ASSUME NEW q, NEW u \in live(s) \ {v}, KeptAt(s, q, u) PROVE KeptAt(t, q, u)
  <2>1. u \notin t.spoilt <=> u \notin s.spoilt
      BY <1>2
  <2>2. t.vec[u] = s.vec[u]
      BY <1>5 DEF live
  <2> QED BY <1>9, <1>13, <2>1, <2>2 DEF KeptAt
<1>14. ASSUME NEW q, KeptAt(s, q, w) PROVE KeptAt(t, q, v)
  <2>1. Len(q) = t.vec[v].size
      BY <1>5, <1>14 DEF KeptAt
  <2>2. v \notin t.spoilt => w \notin s.spoilt
      BY <1>2
  <2>3. ASSUME w \notin s.spoilt, NEW i \in 1..s.vec[w].size
        PROVE  t.mem[t.vec[v].storage][i - 1] = q[i]
    <3>1. i - 1 \in 0..(n - 1) /\ i - 1 < s.vec[w].size
        BY <1>3, <2>3
    <3>2. cells[i - 1] = s.mem[s.vec[w].storage][i - 1]
        BY <3>1 DEF cells
    <3> QED BY <1>5, <1>8, <1>14, <2>3, <3>2 DEF KeptAt
  <2> QED BY <1>5, <2>1, <2>2, <2>3 DEF KeptAt
<1>15. \A u \in live(s) \ {v} : t.vec[u] = s.vec[u]
    BY <1>5 DEF live
<1> QED BY <1>1, <1>2, <1>5, <1>6, <1>10, <1>11, <1>12, <1>13, <1>14, <1>15 DEF t, Sound
-----------------------------------------------------------------------------
(* Writing the cells K of v, inside its array and outside.                 *)
LEMMA PutInside ==
    ASSUME NEW s, Sound(s), NEW v \in live(s), NEW K, NEW x \in Cell,
           NEW t, t = put(s, v, K, x),
           K \subseteq DOMAIN s.mem[s.vec[v].storage]
    PROVE  /\ Sound(t) /\ t.vec = s.vec /\ t.overran = s.overran /\ live(t) = live(s)
           /\ \A i \in DOMAIN s.mem[s.vec[v].storage] :
                 t.mem[s.vec[v].storage][i] =
                     IF i \in K THEN x ELSE s.mem[s.vec[v].storage][i]
           /\ v \in t.spoilt <=> v \in s.spoilt
           /\ \A u \in live(s) \ {v} : \A q : s.vec[u].size <= s.vec[u].capacity =>
                 (KeptAt(s, q, u) => KeptAt(t, q, u))
<1> DEFINE a == s.vec[v].storage
<1>1. s = [vec |-> s.vec, mem |-> s.mem, overran |-> s.overran, spoilt |-> s.spoilt]
    BY DEF Sound, Arrayed
<1>2. /\ a \in DOMAIN s.mem /\ IsFunction(s.mem)
      /\ s.mem[a] \in [DOMAIN s.mem[a] -> Cell]
    BY Living DEF Sound, Arrayed
<1>3. t = [s EXCEPT !.mem[a] = [i \in DOMAIN @ |-> IF i \in K THEN x ELSE @[i]],
                    !.spoilt = @ \cup overwritten(s, v, K)]
    BY DEF put
<1> DEFINE new == [i \in DOMAIN s.mem[a] |-> IF i \in K THEN x ELSE s.mem[a][i]]
<1> HIDE DEF a
<1>4. /\ t = [vec |-> t.vec, mem |-> t.mem, overran |-> t.overran, spoilt |-> t.spoilt]
      /\ t.vec = s.vec /\ t.overran = s.overran
      /\ t.spoilt = s.spoilt \cup overwritten(s, v, K)
      /\ t.mem = [s.mem EXCEPT ![a] = new]
    BY <1>1, <1>3
<1>5. live(t) = live(s)
    BY <1>4 DEF live
<1>6. /\ t.mem = [b \in DOMAIN s.mem |-> IF b = a THEN new ELSE s.mem[b]]
      /\ DOMAIN t.mem = DOMAIN s.mem /\ t.mem[a] = new
      /\ \A b \in DOMAIN s.mem \ {a} : t.mem[b] = s.mem[b]
    BY <1>2, <1>4 DEF IsFunction
<1>7. new \in [DOMAIN s.mem[a] -> Cell]
    BY <1>2
<1>8. /\ \A b \in DOMAIN t.mem : DOMAIN t.mem[b] = DOMAIN s.mem[b]
      /\ \A b \in DOMAIN t.mem : t.mem[b] \in [DOMAIN t.mem[b] -> Cell]
    BY <1>6, <1>7 DEF Sound, Arrayed
<1>9. overwritten(s, v, K) \subseteq live(s) /\ v \notin overwritten(s, v, K)
    BY DEF overwritten
<1>10. Arrayed(t)
  <2>1. t.spoilt \subseteq live(t) /\ t.overran \in BOOLEAN
        /\ t.vec \in [Vectors -> Rep \cup {Absent}]
      BY <1>4, <1>5, <1>9 DEF Sound, Arrayed
  <2>2. IsFunction(t.mem)
      BY <1>6 DEF IsFunction
  <2>3. /\ Null \in DOMAIN t.mem /\ DOMAIN t.mem \subseteq Arrays \cup {Null}
        /\ DOMAIN t.mem[Null] = 0..(Initial - 1)
      BY <1>6, <1>8 DEF Sound, Arrayed
  <2>4. \A u \in live(t) :
          IF t.vec[u].storage = Null
          THEN t.vec[u].capacity \in {0, Initial}
          ELSE /\ t.vec[u].storage \in DOMAIN t.mem
               /\ DOMAIN t.mem[t.vec[u].storage] = 0..(t.vec[u].capacity - 1)
      BY <1>4, <1>5, <1>6, <1>8 DEF Sound, Arrayed
  <2> QED BY <1>4, <1>8, <2>1, <2>2, <2>3, <2>4 DEF Arrayed
<1>11. Owned(t)
    BY <1>4, <1>5, <1>6 DEF Sound, Owned
<1>12. ASSUME NEW u \in live(s) \ {v}, NEW q, s.vec[u].size <= s.vec[u].capacity,
              KeptAt(s, q, u)
       PROVE  KeptAt(t, q, u)
  <2>1. Len(q) = t.vec[u].size /\ (u \notin t.spoilt => u \notin s.spoilt)
      BY <1>4, <1>12 DEF KeptAt
  <2>2. ASSUME u \notin t.spoilt, NEW i \in 1..s.vec[u].size
        PROVE  t.mem[s.vec[u].storage][i - 1] = s.mem[s.vec[u].storage][i - 1]
    <3>1. CASE s.vec[u].storage = a
      <4>1. s.vec[u].storage = Null /\ a = Null
          BY <1>12, <3>1 DEF Sound, Owned, a
      <4>2. s.vec[u].size \in Nat /\ i - 1 < s.vec[u].size /\ i - 1 \in DOMAIN s.mem[a]
          BY <1>12, <2>2, <3>1, Living DEF Sound
      <4>3. i - 1 \notin K
          BY <1>4, <1>12, <2>2, <4>1, <4>2 DEF overwritten, a
      <4> QED BY <1>6, <3>1, <4>2, <4>3
    <3>2. CASE s.vec[u].storage # a
      <4>1. s.vec[u].storage \in DOMAIN s.mem
          BY Living DEF Sound
      <4> QED BY <1>6, <3>2, <4>1
    <3> QED BY <3>1, <3>2
  <2> QED BY <1>4, <1>12, <2>1, <2>2 DEF KeptAt
<1>13. \A i \in DOMAIN s.mem[a] : t.mem[a][i] = IF i \in K THEN x ELSE s.mem[a][i]
    BY <1>6
<1>14. v \in t.spoilt <=> v \in s.spoilt
    BY <1>4, <1>9
<1>15. Sound(t)
    BY <1>10, <1>11 DEF Sound
<1>16. /\ t.vec = s.vec /\ t.overran = s.overran /\ live(t) = live(s)
    BY <1>4, <1>5
<1>17. \A u \in live(s) \ {v} : \A q : s.vec[u].size <= s.vec[u].capacity =>
          (KeptAt(s, q, u) => KeptAt(t, q, u))
    BY <1>12
<1> HIDE DEF new
<1> QED BY <1>13, <1>14, <1>15, <1>16, <1>17 DEF a

LEMMA PutOutside ==
    ASSUME NEW s, Sound(s), NEW v \in live(s), NEW K, NEW x,
           ~(K \subseteq DOMAIN s.mem[s.vec[v].storage])
    PROVE  LET t == put(s, v, K, x)
           IN  Sound(t) /\ t.vec = s.vec /\ t.overran /\ live(t) = live(s)
<1> DEFINE t == put(s, v, K, x)
<1>1. t = [s EXCEPT !.overran = TRUE]
    BY DEF put
<1>2. s = [vec |-> s.vec, mem |-> s.mem, overran |-> s.overran, spoilt |-> s.spoilt]
    BY DEF Sound, Arrayed
<1> HIDE DEF t
<1>3. /\ t = [vec |-> t.vec, mem |-> t.mem, overran |-> t.overran, spoilt |-> t.spoilt]
      /\ t.vec = s.vec /\ t.overran = TRUE /\ t.spoilt = s.spoilt /\ t.mem = s.mem
    BY <1>1, <1>2
<1>4. live(t) = live(s)
    BY <1>3 DEF live
<1>5. Arrayed(t)
    BY <1>3, <1>4 DEF Sound, Arrayed
<1>6. Owned(t)
    BY <1>3, <1>4 DEF Sound, Owned
<1>7. Sound(t) /\ t.overran
    BY <1>3, <1>5, <1>6 DEF Sound
<1> QED BY <1>3, <1>4, <1>7 DEF t
-----------------------------------------------------------------------------
(* The cells of a capacity are there.                                      *)
LEMMA Room ==
    ASSUME NEW s, Arrayed(s), NEW v \in live(s), NEW i \in 0..(s.vec[v].capacity - 1)
    PROVE  i \in DOMAIN s.mem[s.vec[v].storage]
<1>1. s.vec[v].capacity \in Nat
    BY Living
<1>2. CASE s.vec[v].storage = Null
  <2>1. s.vec[v].capacity \in {0, Initial} /\ DOMAIN s.mem[Null] = 0..(Initial - 1)
      BY <1>2 DEF Arrayed
  <2> QED BY <1>1, <1>2, <2>1, VectorAssumption
<1>3. CASE s.vec[v].storage # Null
    BY <1>3 DEF Arrayed
<1> QED BY <1>2, <1>3

(* Another size for v, which is all that changes.                          *)
LEMMA Sized ==
    ASSUME NEW s, Sound(s), NEW v \in live(s), NEW n \in Nat, NEW t,
           t = [vec |-> [s.vec EXCEPT ![v].size = n], mem |-> s.mem,
                overran |-> s.overran, spoilt |-> t.spoilt],
           t.spoilt \in {s.spoilt, s.spoilt \ {v}}
    PROVE  /\ Sound(t) /\ live(t) = live(s) /\ t.mem = s.mem /\ t.overran = s.overran
           /\ t.vec[v] = [storage |-> s.vec[v].storage, size |-> n,
                          capacity |-> s.vec[v].capacity]
           /\ \A u \in Vectors \ {v} : t.vec[u] = s.vec[u]
           /\ \A u \in live(s) \ {v} : \A q : KeptAt(s, q, u) => KeptAt(t, q, u)
<1>1. /\ t.mem = s.mem /\ t.overran = s.overran
      /\ t.vec = [s.vec EXCEPT ![v].size = n]
      /\ t = [vec |-> t.vec, mem |-> t.mem, overran |-> t.overran, spoilt |-> t.spoilt]
    OBVIOUS
<1>2. /\ s.vec \in [Vectors -> Rep \cup {Absent}] /\ v \in Vectors /\ s.vec[v] \in Rep
    BY Living DEF Sound, Arrayed
<1>3. /\ t.vec[v] = [storage |-> s.vec[v].storage, size |-> n,
                     capacity |-> s.vec[v].capacity]
      /\ \A u \in Vectors \ {v} : t.vec[u] = s.vec[u]
    BY <1>1, <1>2 DEF Rep
<1>4. t.vec[v] \in Rep /\ t.vec[v] # Absent /\ t.vec \in [Vectors -> Rep \cup {Absent}]
  <2>1. t.vec[v] \in Rep
      BY <1>2, <1>3 DEF Rep
  <2> QED BY <1>1, <1>2, <2>1, AbsentIsNoRep
<1>5. live(t) = live(s)
    BY <1>2, <1>3, <1>4 DEF live
<1>6. \A u \in live(s) : /\ t.vec[u].storage = s.vec[u].storage
                         /\ t.vec[u].capacity = s.vec[u].capacity
  <2> SUFFICES ASSUME NEW u \in live(s)
               PROVE  /\ t.vec[u].storage = s.vec[u].storage
                      /\ t.vec[u].capacity = s.vec[u].capacity
      OBVIOUS
  <2>1. u \in Vectors
      BY DEF live
  <2>2. CASE u = v
      BY <1>3, <2>2
  <2>3. CASE u # v
      BY <1>3, <2>1, <2>3
  <2> QED BY <2>2, <2>3
<1>7. t.spoilt \subseteq live(t) /\ t.overran \in BOOLEAN
    BY <1>1, <1>5 DEF Sound, Arrayed
<1>8. Arrayed(t)
    BY <1>1, <1>4, <1>5, <1>6, <1>7 DEF Sound, Arrayed
<1>9. Owned(t)
    BY <1>1, <1>5, <1>6 DEF Sound, Owned
<1>10. ASSUME NEW u \in live(s) \ {v}, NEW q, KeptAt(s, q, u) PROVE KeptAt(t, q, u)
  <2>1. t.vec[u] = s.vec[u] /\ (u \notin t.spoilt => u \notin s.spoilt)
      BY <1>3 DEF live
  <2> QED BY <1>1, <1>10, <2>1 DEF KeptAt
<1>11. Sound(t)
    BY <1>8, <1>9 DEF Sound
<1> QED BY <1>1, <1>3, <1>5, <1>10, <1>11

(* reserve gives a vector room, and changes nothing that is kept.          *)
LEMMA Reserved ==
    ASSUME NEW s, NEW h, Good(s, h), NEW v \in live(s), NEW n \in Nat
    PROVE  LET t == reserve(s, v, n)
           IN  /\ Good(t, h) /\ live(t) = live(s)
               /\ t.vec[v].size = s.vec[v].size /\ t.vec[v].capacity >= n
<1> DEFINE t == reserve(s, v, n)
<1>1. /\ Sound(s) /\ Fits(s) /\ Kept(s, h) /\ ~s.overran
      /\ v \in Vectors /\ s.vec[v].size \in Nat /\ s.vec[v].capacity \in Nat
      /\ s.vec[v].size <= s.vec[v].capacity
    BY Living DEF Good, Sound, Fits
<1>2. CASE n <= s.vec[v].capacity
    BY <1>1, <1>2 DEF reserve
<1>3. CASE n > s.vec[v].capacity
  <2>1. t = withArray(s, v, v, n) /\ s.vec[v].size <= n
      BY <1>1, <1>3 DEF reserve
  <2> HIDE DEF t
  <2>2. /\ Sound(t) /\ Fits(t) /\ t.overran = s.overran
        /\ live(t) = live(s) \cup {v}
        /\ t.vec[v].size = s.vec[v].size /\ t.vec[v].capacity = n
        /\ \A u \in live(s) \ {v} : \A q : KeptAt(s, q, u) => KeptAt(t, q, u)
        /\ \A q : KeptAt(s, q, v) => KeptAt(t, q, v)
      BY <1>1, <2>1, WithArray
  <2>3. live(t) = live(s)
      BY <2>2
  <2>4. Kept(t, h)
    <3>1. \A u \in live(s) : KeptAt(s, h[u], u)
        BY <1>1 DEF Kept
    <3>2. ASSUME NEW u \in live(s) PROVE KeptAt(t, h[u], u)
      <4>1. CASE u = v
          BY <2>2, <3>1, <4>1
      <4>2. CASE u # v
          BY <2>2, <3>1, <4>2
      <4> QED BY <4>1, <4>2
    <3> QED BY <2>3, <3>2 DEF Kept
  <2>5. Good(t, h)
      BY <1>1, <2>2, <2>4 DEF Good
  <2> QED BY <2>2, <2>3, <2>5 DEF t
<1> QED BY <1>1, <1>2, <1>3
-----------------------------------------------------------------------------
(* The vectors after v was changed, if v is what its client expects.       *)
LEMMA KeptOthers ==
    ASSUME NEW s, NEW t, NEW h, NEW g, NEW v, Kept(s, h), KeptAt(t, g[v], v),
           live(t) \subseteq live(s) \cup {v},
           \A u \in live(s) \ {v} : g[u] = h[u],
           \A u \in live(s) \ {v} : \A q : KeptAt(s, q, u) => KeptAt(t, q, u)
    PROVE  Kept(t, g)
<1>1. ASSUME NEW u \in live(t) PROVE KeptAt(t, g[u], u)
  <2>1. CASE u = v
      BY <2>1
  <2>2. CASE u # v
    <3>1. u \in live(s) \ {v}
        BY <2>2
    <3>2. KeptAt(s, h[u], u)
        BY <3>1 DEF Kept
    <3> QED BY <3>1, <3>2
  <2> QED BY <2>1, <2>2
<1> QED BY <1>1 DEF Kept

(* push_back appends, or writes into an array without cells.               *)
LEMMA Pushed ==
    ASSUME NEW s, NEW h \in [Vectors -> Seq(Cell)], Good(s, h), NEW v \in live(s),
           NEW x \in Elem
    PROVE  LET t == pushed(s, v, x)
           IN  Good(t, [h EXCEPT ![v] = Append(h[v], x)]) \/ Overran(t)
<1> DEFINE n  == s.vec[v].size
           g  == IF full(s.vec[v]) THEN withArray(s, v, v, 2 * s.vec[v].capacity) ELSE s
           g1 == [g EXCEPT !.vec[v].size = n + 1]
           t  == pushed(s, v, x)
           h1 == [h EXCEPT ![v] = Append(h[v], x)]
           K  == {n}
<1>1. /\ Sound(s) /\ Fits(s) /\ Kept(s, h) /\ ~s.overran
      /\ v \in Vectors /\ n \in Nat /\ s.vec[v].capacity \in Nat
      /\ n <= s.vec[v].capacity
    BY Living DEF Good, Sound, Fits
<1>2. /\ Sound(g) /\ Fits(g) /\ ~g.overran /\ live(g) = live(s)
      /\ g.vec[v].size = n
      /\ \A u \in live(s) : \A q : KeptAt(s, q, u) => KeptAt(g, q, u)
      /\ \/ g.vec[v].capacity >= n + 1
         \/ /\ g.vec[v].capacity = 0 /\ g.vec[v].storage # Null
  <2>1. CASE full(s.vec[v])
    <3>1. g = withArray(s, v, v, 2 * s.vec[v].capacity) /\ n = s.vec[v].capacity
        BY <1>1, <2>1 DEF full
    <3> HIDE DEF g
    <3>2. 2 * s.vec[v].capacity \in Nat /\ n <= 2 * s.vec[v].capacity
        BY <1>1, <3>1
    <3>3. /\ Sound(g) /\ Fits(g) /\ g.overran = s.overran
          /\ live(g) = live(s) \cup {v}
          /\ g.vec[v].size = n /\ g.vec[v].capacity = 2 * s.vec[v].capacity
          /\ g.vec[v].storage # Null
          /\ \A u \in live(s) \ {v} : \A q : KeptAt(s, q, u) => KeptAt(g, q, u)
          /\ \A q : KeptAt(s, q, v) => KeptAt(g, q, v)
        BY <1>1, <3>1, <3>2, WithArray
    <3>4. \A u \in live(s) : \A q : KeptAt(s, q, u) => KeptAt(g, q, u)
        BY <3>3
    <3>5. g.vec[v].capacity >= n + 1 \/ g.vec[v].capacity = 0
        BY <1>1, <3>1, <3>3
    <3>6. live(g) = live(s)
        BY <3>3
    <3> QED BY <1>1, <3>3, <3>4, <3>5, <3>6
  <2>2. CASE ~full(s.vec[v])
    <3>1. g = s /\ s.vec[v].capacity >= n + 1
        BY <1>1, <2>2 DEF full
    <3> HIDE DEF g
    <3> QED BY <1>1, <3>1
  <2> QED BY <2>1, <2>2
<1>3. t = put(g1, v, K, x)
    BY <1>2 DEF pushed
<1> HIDE DEF g, t, K
<1>4. g1 = [vec |-> [g.vec EXCEPT ![v].size = n + 1], mem |-> g.mem,
            overran |-> g.overran, spoilt |-> g.spoilt]
  <2>1. g = [vec |-> g.vec, mem |-> g.mem, overran |-> g.overran, spoilt |-> g.spoilt]
      BY <1>2 DEF Sound, Arrayed
  <2> QED BY <2>1
<1> HIDE DEF g1
<1>5. /\ g1.spoilt = g.spoilt /\ n + 1 \in Nat
      /\ g1 = [vec |-> [g.vec EXCEPT ![v].size = n + 1], mem |-> g.mem,
               overran |-> g.overran, spoilt |-> g1.spoilt]
    BY <1>1, <1>4
<1>6. /\ Sound(g1) /\ live(g1) = live(s) /\ g1.mem = g.mem /\ ~g1.overran
      /\ g1.vec[v] = [storage |-> g.vec[v].storage, size |-> n + 1,
                      capacity |-> g.vec[v].capacity]
      /\ \A u \in live(s) \ {v} : g1.vec[u] = g.vec[u]
      /\ \A u \in live(s) \ {v} : \A q : KeptAt(s, q, u) => KeptAt(g1, q, u)
  <2>1. /\ Sound(g1) /\ live(g1) = live(g) /\ g1.mem = g.mem /\ g1.overran = g.overran
        /\ g1.vec[v] = [storage |-> g.vec[v].storage, size |-> n + 1,
                        capacity |-> g.vec[v].capacity]
        /\ \A u \in Vectors \ {v} : g1.vec[u] = g.vec[u]
        /\ \A u \in live(g) \ {v} : \A q : KeptAt(g, q, u) => KeptAt(g1, q, u)
      BY <1>2, <1>5, Sized
  <2>2. \A u \in live(s) : u \in Vectors
      BY DEF live
  <2> QED BY <1>2, <2>1, <2>2
<1>7. CASE g.vec[v].capacity >= n + 1
  <2> DEFINE a == g1.vec[v].storage
  <2>1. n \in 0..(g1.vec[v].capacity - 1) /\ g.vec[v].capacity \in Nat
      BY <1>1, <1>2, <1>6, <1>7, Living DEF Sound
  <2>2. K \subseteq DOMAIN g1.mem[a] /\ x \in Cell
      BY <1>6, <2>1, Room DEF Sound, Cell, K
  <2>3. /\ Sound(t) /\ t.vec = g1.vec /\ t.overran = g1.overran /\ live(t) = live(g1)
        /\ \A i \in DOMAIN g1.mem[a] : t.mem[a][i] = IF i \in K THEN x ELSE g1.mem[a][i]
        /\ v \in t.spoilt <=> v \in g1.spoilt
        /\ \A u \in live(g1) \ {v} : \A q : g1.vec[u].size <= g1.vec[u].capacity =>
              (KeptAt(g1, q, u) => KeptAt(t, q, u))
    <3>1. v \in live(g1)
        BY <1>6
    <3>2. Sound(g1) /\ t = put(g1, v, K, x) /\ x \in Cell
          /\ K \subseteq DOMAIN g1.mem[g1.vec[v].storage]
        BY <1>3, <1>6, <2>2
    <3> QED BY ONLY <3>1, <3>2, PutInside
  <2>4. Fits(t)
    <3> SUFFICES ASSUME NEW u \in live(s) PROVE g1.vec[u].size <= g1.vec[u].capacity
        BY <1>6, <2>3 DEF Fits
    <3>1. CASE u = v
        BY <1>6, <1>7, <3>1
    <3>2. CASE u # v
        BY <1>2, <1>6, <3>2 DEF Fits
    <3> QED BY <3>1, <3>2
  <2>5. KeptAt(g, h[v], v) /\ h[v] \in Seq(Cell) /\ Len(h[v]) = n
      BY <1>1, <1>2 DEF Kept, KeptAt
  <2>6. h1[v] = Append(h[v], x) /\ Len(h1[v]) = n + 1 /\ h1[v][n + 1] = x
        /\ \A i \in 1..n : h1[v][i] = h[v][i]
      BY <1>1, <2>2, <2>5
  <2> HIDE DEF h1
  <2>7. KeptAt(t, h1[v], v)
    <3>1. Len(h1[v]) = t.vec[v].size /\ t.vec[v].storage = a
        BY <1>6, <2>3, <2>6
    <3>2. ASSUME v \notin t.spoilt, NEW i \in 1..(n + 1) PROVE t.mem[a][i - 1] = h1[v][i]
      <4>1. i - 1 \in 0..(g1.vec[v].capacity - 1)
          BY <1>1, <1>6, <1>7, <2>1
      <4>2. i - 1 \in DOMAIN g1.mem[a]
          BY <1>6, <4>1, Room DEF Sound
      <4>3. CASE i = n + 1
        <5>1. i - 1 = n
            BY <1>1, <4>3
        <5> QED BY <2>3, <2>6, <4>2, <4>3, <5>1 DEF K
      <4>4. CASE i # n + 1
        <5>1. i \in 1..n /\ i - 1 # n
            BY <1>1, <4>4
        <5>2. g.mem[g.vec[v].storage][i - 1] = h[v][i]
            BY <1>2, <1>5, <2>3, <2>5, <3>2, <5>1 DEF KeptAt
        <5> QED BY <1>6, <2>3, <2>6, <4>2, <5>1, <5>2 DEF K
      <4> QED BY <4>3, <4>4
    <3> QED BY <1>6, <2>3, <3>1, <3>2 DEF KeptAt
  <2>8. Kept(t, h1)
    <3>1. \A u \in live(s) \ {v} : h1[u] = h[u]
        BY DEF live, h1
    <3>2. \A u \in live(s) \ {v} : \A q : KeptAt(s, q, u) => KeptAt(t, q, u)
        BY <1>6, <2>3, <2>4 DEF Fits
    <3>3. live(t) \subseteq live(s) \cup {v}
        BY <1>6, <2>3
    <3> QED BY <1>1, <2>7, <3>1, <3>2, <3>3, KeptOthers
  <2>9. Good(t, h1)
      BY <1>6, <2>3, <2>4, <2>8 DEF Good
  <2> QED BY <2>9 DEF t, h1
<1>8. CASE g.vec[v].capacity = 0 /\ g.vec[v].storage # Null
  <2>1. ~(K \subseteq DOMAIN g1.mem[g1.vec[v].storage])
    <3>1. DOMAIN g1.mem[g1.vec[v].storage] = 0..(g1.vec[v].capacity - 1)
        BY <1>6, <1>8 DEF Sound, Arrayed
    <3> QED BY <1>1, <1>6, <1>8, <3>1 DEF K
  <2>2. Sound(t) /\ t.vec = g1.vec /\ t.overran /\ live(t) = live(g1)
      BY <1>3, <1>6, <2>1, PutOutside
  <2>3. Overran(t)
      BY <1>6, <1>8, <2>2 DEF Overran
  <2> QED BY <2>3 DEF t
<1> QED BY <1>2, <1>7, <1>8
-----------------------------------------------------------------------------
(* pop_back and clear: fewer elements, the same cells.                     *)
LEMMA Popped ==
    ASSUME NEW s, NEW h \in [Vectors -> Seq(Cell)], Good(s, h), NEW v \in live(s),
           s.vec[v].size > 0
    PROVE  Good(popped(s, v), [h EXCEPT ![v] = SubSeq(h[v], 1, Len(h[v]) - 1)])
<1> DEFINE t == popped(s, v)
           n == s.vec[v].size - 1
           g == [h EXCEPT ![v] = SubSeq(h[v], 1, Len(h[v]) - 1)]
<1>1. /\ Sound(s) /\ Fits(s) /\ Kept(s, h) /\ ~s.overran
      /\ v \in Vectors /\ n \in Nat /\ n <= s.vec[v].capacity
      /\ s.vec[v].capacity \in Nat /\ s.vec[v].size \in Nat /\ s.vec[v].size = n + 1
      /\ s = [vec |-> s.vec, mem |-> s.mem, overran |-> s.overran, spoilt |-> s.spoilt]
    BY Living DEF Good, Sound, Fits, Arrayed
<1>2. t = [s EXCEPT !.vec[v].size = n]
    BY DEF popped
<1> HIDE DEF t, n
<1>3. /\ t.spoilt = s.spoilt
      /\ t = [vec |-> [s.vec EXCEPT ![v].size = n], mem |-> s.mem,
              overran |-> s.overran, spoilt |-> t.spoilt]
    BY <1>1, <1>2
<1>4. /\ Sound(t) /\ live(t) = live(s) /\ t.mem = s.mem /\ t.overran = s.overran
      /\ t.vec[v] = [storage |-> s.vec[v].storage, size |-> n,
                     capacity |-> s.vec[v].capacity]
      /\ \A u \in Vectors \ {v} : t.vec[u] = s.vec[u]
      /\ \A u \in live(s) \ {v} : \A q : KeptAt(s, q, u) => KeptAt(t, q, u)
  <2>1. Sound(s) /\ v \in live(s) /\ n \in Nat /\ t.spoilt \in {s.spoilt, s.spoilt \ {v}}
      BY <1>1, <1>3
  <2> QED BY ONLY <1>3, <2>1, Sized
<1>5. KeptAt(s, h[v], v) /\ h[v] \in Seq(Cell) /\ Len(h[v]) = n + 1
    BY <1>1 DEF Kept, KeptAt
<1>6. g[v] = SubSeq(h[v], 1, n) /\ Len(g[v]) = n /\ \A i \in 1..n : g[v][i] = h[v][i]
  <2>1. g[v] = SubSeq(h[v], 1, n)
      BY <1>1, <1>5
  <2> HIDE DEF g
  <2> QED BY <1>1, <1>5, <2>1
<1>7. \A u \in live(s) \ {v} : g[u] = h[u]
    BY DEF live
<1> HIDE DEF g
<1>8. KeptAt(t, g[v], v)
  <2>1. ASSUME v \notin t.spoilt, NEW i \in 1..n
        PROVE  t.mem[t.vec[v].storage][i - 1] = g[v][i]
    <3>1. i \in 1..s.vec[v].size
        BY <1>1
    <3>2. s.mem[s.vec[v].storage][i - 1] = h[v][i]
        BY <1>3, <1>5, <2>1, <3>1 DEF KeptAt
    <3>3. g[v][i] = h[v][i]
        BY <1>6, <2>1
    <3>4. t.mem = s.mem /\ t.vec[v].storage = s.vec[v].storage
        BY <1>4
    <3> QED BY <3>2, <3>3, <3>4
  <2>2. t.vec[v].size = n
      BY <1>4
  <2>3. Len(g[v]) = n
      BY <1>6
  <2> QED BY <2>1, <2>2, <2>3 DEF KeptAt
<1>9. Fits(t)
  <2> SUFFICES ASSUME NEW u \in live(s) PROVE t.vec[u].size <= t.vec[u].capacity
      BY <1>4 DEF Fits
  <2>1. CASE u = v
      BY <1>1, <1>4, <2>1
  <2>2. CASE u # v
      BY <1>1, <1>4, <2>2 DEF Fits, live
  <2> QED BY <2>1, <2>2
<1>10. live(t) \subseteq live(s) \cup {v}
    BY <1>4
<1>11. Kept(t, g)
    BY <1>1, <1>4, <1>7, <1>8, <1>10, KeptOthers
<1> QED BY <1>1, <1>4, <1>9, <1>11 DEF Good, t, g

LEMMA Emptied ==
    ASSUME NEW s, NEW h \in [Vectors -> Seq(Cell)], Good(s, h), NEW v \in live(s)
    PROVE  Good(cleared(s, v), [h EXCEPT ![v] = <<>>])
<1> DEFINE t == cleared(s, v)
           g == [h EXCEPT ![v] = <<>>]
<1>1. /\ Sound(s) /\ Fits(s) /\ Kept(s, h) /\ ~s.overran
      /\ v \in Vectors /\ s.vec[v].capacity \in Nat
      /\ s = [vec |-> s.vec, mem |-> s.mem, overran |-> s.overran, spoilt |-> s.spoilt]
    BY Living DEF Good, Sound, Fits, Arrayed
<1>2. t = [s EXCEPT !.vec[v].size = 0, !.spoilt = @ \ {v}]
    BY DEF cleared
<1> HIDE DEF t
<1>3. /\ t.spoilt = s.spoilt \ {v}
      /\ t = [vec |-> [s.vec EXCEPT ![v].size = 0], mem |-> s.mem,
              overran |-> s.overran, spoilt |-> t.spoilt]
    BY <1>1, <1>2
<1>4. /\ Sound(t) /\ live(t) = live(s) /\ t.mem = s.mem /\ t.overran = s.overran
      /\ t.vec[v] = [storage |-> s.vec[v].storage, size |-> 0,
                     capacity |-> s.vec[v].capacity]
      /\ \A u \in Vectors \ {v} : t.vec[u] = s.vec[u]
      /\ \A u \in live(s) \ {v} : \A q : KeptAt(s, q, u) => KeptAt(t, q, u)
    BY <1>1, <1>3, Sized
<1>5. g[v] = <<>> /\ \A u \in live(s) \ {v} : g[u] = h[u]
    BY <1>1 DEF live
<1> HIDE DEF g
<1>6. KeptAt(t, g[v], v)
    BY <1>4, <1>5 DEF KeptAt
<1>7. Fits(t)
  <2> SUFFICES ASSUME NEW u \in live(s) PROVE t.vec[u].size <= t.vec[u].capacity
      BY <1>4 DEF Fits
  <2>1. CASE u = v
      BY <1>1, <1>4, <2>1
  <2>2. CASE u # v
      BY <1>1, <1>4, <2>2 DEF Fits, live
  <2> QED BY <2>1, <2>2
<1>8. live(t) \subseteq live(s) \cup {v}
    BY <1>4
<1>9. Kept(t, g)
    BY <1>1, <1>4, <1>5, <1>6, <1>8, KeptOthers
<1> QED BY <1>1, <1>4, <1>7, <1>9 DEF Good, t, g

(* v[i] = x.                                                               *)
LEMMA Assigned ==
    ASSUME NEW s, NEW h \in [Vectors -> Seq(Cell)], Good(s, h), NEW v \in live(s),
           NEW i \in Nat, i < s.vec[v].size, NEW x \in Elem
    PROVE  Good(put(s, v, {i}, x), [h EXCEPT ![v] = [h[v] EXCEPT ![i + 1] = x]])
<1> DEFINE K == {i}
           a == s.vec[v].storage
           t == put(s, v, K, x)
           g == [h EXCEPT ![v] = [h[v] EXCEPT ![i + 1] = x]]
<1>1. /\ Sound(s) /\ Fits(s) /\ Kept(s, h) /\ ~s.overran /\ v \in Vectors
      /\ s.vec[v].size \in Nat /\ s.vec[v].size <= s.vec[v].capacity
      /\ s.vec[v].capacity \in Nat /\ x \in Cell
    BY Living DEF Good, Sound, Fits, Cell
<1>2. i \in 0..(s.vec[v].capacity - 1)
    BY <1>1
<1>3. K \subseteq DOMAIN s.mem[a]
    BY <1>1, <1>2, Room DEF Sound
<1>4. t = put(s, v, K, x) /\ \A j : j \in K <=> j = i
    OBVIOUS
<1> HIDE DEF t, K
<1>5. /\ Sound(t) /\ t.vec = s.vec /\ t.overran = s.overran /\ live(t) = live(s)
      /\ \A j \in DOMAIN s.mem[a] : t.mem[a][j] = IF j \in K THEN x ELSE s.mem[a][j]
      /\ v \in t.spoilt <=> v \in s.spoilt
      /\ \A u \in live(s) \ {v} : \A q : s.vec[u].size <= s.vec[u].capacity =>
            (KeptAt(s, q, u) => KeptAt(t, q, u))
  <2>1. Sound(s) /\ t = put(s, v, K, x) /\ x \in Cell /\ v \in live(s)
        /\ K \subseteq DOMAIN s.mem[s.vec[v].storage]
      BY <1>1, <1>3, <1>4
  <2> QED BY ONLY <2>1, PutInside
<1>6. KeptAt(s, h[v], v) /\ h[v] \in Seq(Cell) /\ Len(h[v]) = s.vec[v].size
    BY <1>1 DEF Kept, KeptAt
<1>7. /\ g[v] = [h[v] EXCEPT ![i + 1] = x]
      /\ Len(g[v]) = s.vec[v].size
      /\ \A j \in 1..s.vec[v].size : g[v][j] = IF j = i + 1 THEN x ELSE h[v][j]
  <2>1. g[v] = [h[v] EXCEPT ![i + 1] = x]
      BY <1>1
  <2> HIDE DEF g
  <2> QED BY <1>6, <2>1
<1>8. \A u \in live(s) \ {v} : g[u] = h[u]
    BY DEF live
<1> HIDE DEF g
<1>9. KeptAt(t, g[v], v)
  <2>1. ASSUME v \notin t.spoilt, NEW j \in 1..s.vec[v].size
        PROVE  t.mem[a][j - 1] = g[v][j]
    <3>1. j - 1 \in 0..(s.vec[v].capacity - 1)
        BY <1>1
    <3>2. j - 1 \in DOMAIN s.mem[a]
        BY <1>1, <3>1, Room DEF Sound
    <3>3. s.mem[a][j - 1] = h[v][j]
        BY <1>5, <1>6, <2>1 DEF KeptAt
    <3>4. j - 1 = i <=> j = i + 1
        BY <1>1
    <3> QED BY <1>4, <1>5, <1>7, <3>2, <3>3, <3>4
  <2> QED BY <1>5, <1>7, <2>1 DEF KeptAt
<1>10. Fits(t)
    BY <1>1, <1>5 DEF Fits
<1>11. \A u \in live(s) \ {v} : \A q : KeptAt(s, q, u) => KeptAt(t, q, u)
    BY <1>1, <1>5 DEF Fits
<1>12. Kept(t, g)
  <2>1. live(t) \subseteq live(s) \cup {v}
      BY <1>5
  <2> QED BY <1>1, <1>8, <1>9, <1>11, <2>1, KeptOthers
<1>13. Good(t, g)
    BY <1>1, <1>5, <1>10, <1>12 DEF Good
<1> QED BY <1>13 DEF t, g, K
(* resize cuts, or fills the new places with T().                          *)
LEMMA Resized ==
    ASSUME NEW s, NEW h \in [Vectors -> Seq(Cell)], Good(s, h), NEW v \in live(s),
           NEW n \in Nat
    PROVE  Good(resized(s, v, n),
                [h EXCEPT ![v] = [i \in 1..n |-> IF i <= Len(h[v]) THEN h[v][i] ELSE Zero]])
<1> DEFINE r == reserve(s, v, n)
           K == s.vec[v].size..(n - 1)
           a == r.vec[v].storage
           p == put(r, v, K, Zero)
           t == resized(s, v, n)
           g == [h EXCEPT ![v] = [i \in 1..n |-> IF i <= Len(h[v]) THEN h[v][i] ELSE Zero]]
<1>1. /\ Good(r, h) /\ live(r) = live(s)
      /\ r.vec[v].size = s.vec[v].size /\ r.vec[v].capacity >= n
    BY Reserved
<1>2. p = put(r, v, K, Zero) /\ t = [p EXCEPT !.vec[v].size = n]
    BY DEF resized
<1> HIDE DEF r, p, t
<1>3. /\ Sound(r) /\ Fits(r) /\ Kept(r, h) /\ ~r.overran /\ v \in Vectors
      /\ s.vec[v].size \in Nat /\ r.vec[v].capacity \in Nat
      /\ v \in live(r) /\ Zero \in Cell
    BY <1>1, Living, VectorAssumption DEF Good, Sound, Cell
<1>4. K \subseteq DOMAIN r.mem[a]
    BY <1>1, <1>3, Room DEF Sound
<1>5. \A i : i \in K <=> i \in s.vec[v].size..(n - 1)
    OBVIOUS
<1> HIDE DEF K
<1>6. /\ Sound(p) /\ p.vec = r.vec /\ p.overran = r.overran /\ live(p) = live(r)
      /\ \A i \in DOMAIN r.mem[a] : p.mem[a][i] = IF i \in K THEN Zero ELSE r.mem[a][i]
      /\ v \in p.spoilt <=> v \in r.spoilt
      /\ \A u \in live(r) \ {v} : \A q : r.vec[u].size <= r.vec[u].capacity =>
            (KeptAt(r, q, u) => KeptAt(p, q, u))
  <2>1. Sound(r) /\ p = put(r, v, K, Zero) /\ Zero \in Cell /\ v \in live(r)
        /\ K \subseteq DOMAIN r.mem[r.vec[v].storage]
      BY <1>2, <1>3, <1>4
  <2> QED BY ONLY <2>1, PutInside
<1>7. /\ t.spoilt = p.spoilt
      /\ t = [vec |-> [p.vec EXCEPT ![v].size = n], mem |-> p.mem,
              overran |-> p.overran, spoilt |-> t.spoilt]
  <2>1. p = [vec |-> p.vec, mem |-> p.mem, overran |-> p.overran, spoilt |-> p.spoilt]
      BY <1>6 DEF Sound, Arrayed
  <2> QED BY <1>2, <2>1
<1>8. /\ Sound(t) /\ live(t) = live(p) /\ t.mem = p.mem /\ t.overran = p.overran
      /\ t.vec[v] = [storage |-> p.vec[v].storage, size |-> n,
                     capacity |-> p.vec[v].capacity]
      /\ \A u \in Vectors \ {v} : t.vec[u] = p.vec[u]
      /\ \A u \in live(p) \ {v} : \A q : KeptAt(p, q, u) => KeptAt(t, q, u)
  <2>1. Sound(p) /\ v \in live(p) /\ n \in Nat /\ t.spoilt \in {p.spoilt, p.spoilt \ {v}}
      BY <1>3, <1>6, <1>7
  <2> QED BY ONLY <1>7, <2>1, Sized
<1>9. KeptAt(r, h[v], v) /\ h[v] \in Seq(Cell) /\ Len(h[v]) = s.vec[v].size
    BY <1>1, <1>3 DEF Kept, KeptAt
<1>10. /\ Len(g[v]) = n
       /\ \A i \in 1..n : g[v][i] = IF i <= s.vec[v].size THEN h[v][i] ELSE Zero
  <2>1. g[v] = [i \in 1..n |-> IF i <= Len(h[v]) THEN h[v][i] ELSE Zero]
      BY <1>3
  <2> HIDE DEF g
  <2> QED BY <1>9, <2>1
<1>11. \A u \in live(s) \ {v} : g[u] = h[u]
    BY DEF live
<1> HIDE DEF g
<1>12. KeptAt(t, g[v], v)
  <2>1. ASSUME v \notin t.spoilt, NEW i \in 1..n
        PROVE  t.mem[t.vec[v].storage][i - 1] = g[v][i]
    <3>1. i - 1 \in 0..(r.vec[v].capacity - 1)
        BY <1>1, <1>3
    <3>2. i - 1 \in DOMAIN r.mem[a]
        BY <1>3, <3>1, Room DEF Sound
    <3>3. t.mem[t.vec[v].storage][i - 1] = IF i - 1 \in K THEN Zero ELSE r.mem[a][i - 1]
        BY <1>6, <1>8, <3>2
    <3>4. i - 1 \in K <=> i > s.vec[v].size
        BY <1>3, <1>5
    <3>5. CASE i <= s.vec[v].size
      <4>1. i \in 1..r.vec[v].size /\ v \notin r.spoilt /\ i - 1 \notin K
          BY <1>1, <1>3, <1>6, <1>7, <2>1, <3>4, <3>5
      <4>2. r.mem[a][i - 1] = h[v][i]
          BY <1>9, <4>1 DEF KeptAt
      <4> QED BY <1>10, <3>3, <3>5, <4>1, <4>2
    <3>6. CASE i > s.vec[v].size
      <4>1. ~(i <= s.vec[v].size) /\ i - 1 \in K
          BY <1>3, <3>4, <3>6
      <4> QED BY <1>10, <3>3, <4>1
    <3> QED BY <1>3, <3>5, <3>6
  <2>2. t.vec[v].size = n /\ Len(g[v]) = n
      BY <1>8, <1>10
  <2>3. v \notin t.spoilt =>
            \A i \in 1..t.vec[v].size : t.mem[t.vec[v].storage][i - 1] = g[v][i]
      BY <2>1, <2>2
  <2> QED BY ONLY <2>2, <2>3 DEF KeptAt
<1>13. Fits(t)
  <2> SUFFICES ASSUME NEW u \in live(s) PROVE t.vec[u].size <= t.vec[u].capacity
      BY <1>1, <1>6, <1>8 DEF Fits
  <2>1. CASE u = v
      BY <1>1, <1>6, <1>8, <2>1
  <2>2. CASE u # v
      BY <1>1, <1>3, <1>6, <1>8, <2>2 DEF Fits, live
  <2> QED BY <2>1, <2>2
<1>14. \A u \in live(r) \ {v} : \A q : KeptAt(r, q, u) => KeptAt(t, q, u)
    BY <1>3, <1>6, <1>8 DEF Fits
<1>15. Kept(t, g)
  <2>1. live(t) \subseteq live(r) \cup {v}
      BY <1>6, <1>8
  <2>2. \A u \in live(r) \ {v} : g[u] = h[u]
      BY <1>1, <1>11
  <2> QED BY <1>3, <1>12, <1>14, <2>1, <2>2, KeptOthers
<1>16. Good(t, g)
    BY <1>3, <1>6, <1>8, <1>13, <1>15 DEF Good
<1> QED BY <1>16 DEF t, g
-----------------------------------------------------------------------------
(* The array of v is deleted; the others stay.                             *)
LeftOf(m, s, v) ==
    /\ DOMAIN m = DOMAIN s.mem \ ({s.vec[v].storage} \ {Null})
    /\ IsFunction(m)
    /\ \A a \in DOMAIN m : a \in DOMAIN s.mem /\ m[a] = s.mem[a]
    /\ \A a \in DOMAIN m : m[a] \in [DOMAIN m[a] -> Cell]
    /\ Null \in DOMAIN m /\ DOMAIN m \subseteq Arrays \cup {Null}
    /\ DOMAIN m[Null] = 0..(Initial - 1)
    /\ \A u \in live(s) \ {v} : s.vec[u].storage \in DOMAIN m

LEMMA Deleted ==
    ASSUME NEW s, Sound(s), NEW v \in Vectors
    PROVE  LeftOf(deleted(s.mem, s.vec[v].storage), s, v)
<1> DEFINE m == deleted(s.mem, s.vec[v].storage)
<1>1. m = [a \in DOMAIN s.mem \ ({s.vec[v].storage} \ {Null}) |-> s.mem[a]]
    BY DEF deleted
<1> HIDE DEF m
<1>2. /\ DOMAIN m = DOMAIN s.mem \ ({s.vec[v].storage} \ {Null})
      /\ IsFunction(m)
      /\ \A a \in DOMAIN m : a \in DOMAIN s.mem /\ m[a] = s.mem[a]
    BY <1>1 DEF IsFunction
<1>3. /\ \A a \in DOMAIN m : m[a] \in [DOMAIN m[a] -> Cell]
      /\ Null \in DOMAIN m /\ DOMAIN m \subseteq Arrays \cup {Null}
      /\ DOMAIN m[Null] = 0..(Initial - 1)
    BY <1>2 DEF Sound, Arrayed
<1>4. ASSUME NEW u \in live(s) \ {v} PROVE s.vec[u].storage \in DOMAIN m
  <2>1. s.vec[u].storage \in DOMAIN s.mem
      BY Living DEF Sound
  <2>2. CASE v \in live(s)
      BY <1>2, <2>1, <2>2 DEF Sound, Owned
  <2>3. CASE v \notin live(s)
    <3>1. s.vec[v].storage = Null
        BY <2>3 DEF live, Absent
    <3> QED BY <1>2, <2>1, <3>1
  <2> QED BY <2>2, <2>3
<1>5. LeftOf(m, s, v)
    BY <1>2, <1>3, <1>4 DEF LeftOf
<1> QED BY <1>5 DEF m

(* A fresh vector, one that is destroyed, a copy, and a move.              *)
LEMMA Constructed ==
    ASSUME NEW s, NEW h \in [Vectors -> Seq(Cell)], Good(s, h), NEW v \in Vectors \ live(s)
    PROVE  Good(constructed(s, v), [h EXCEPT ![v] = <<>>])
<1> DEFINE t == constructed(s, v)
           g == [h EXCEPT ![v] = <<>>]
           fresh == [storage |-> Null, size |-> 0, capacity |-> Initial]
<1>1. /\ Sound(s) /\ Fits(s) /\ Kept(s, h) /\ ~s.overran
      /\ s.vec \in [Vectors -> Rep \cup {Absent}] /\ v \in Vectors
      /\ s = [vec |-> s.vec, mem |-> s.mem, overran |-> s.overran, spoilt |-> s.spoilt]
      /\ s.spoilt \subseteq live(s)
    BY DEF Good, Sound, Arrayed
<1>2. t = [s EXCEPT !.vec[v] = fresh]
    BY DEF constructed
<1> HIDE DEF t
<1>3. /\ t.vec = [s.vec EXCEPT ![v] = fresh]
      /\ t.mem = s.mem /\ t.spoilt = s.spoilt /\ t.overran = s.overran
      /\ t = [vec |-> t.vec, mem |-> t.mem, overran |-> t.overran, spoilt |-> t.spoilt]
    BY <1>1, <1>2
<1>4. fresh \in Rep /\ fresh # Absent
    BY VectorAssumption, AbsentIsNoRep DEF Rep
<1>5. /\ t.vec[v] = fresh /\ \A u \in live(s) : u # v /\ t.vec[u] = s.vec[u]
      /\ t.vec \in [Vectors -> Rep \cup {Absent}]
    BY <1>1, <1>3, <1>4 DEF live
<1>6. live(t) = live(s) \cup {v}
    BY <1>1, <1>3, <1>4 DEF live
<1>7. /\ t.vec[v].storage = Null /\ t.vec[v].capacity = Initial /\ t.vec[v].size = 0
    BY <1>5
<1> HIDE DEF fresh
<1>8. Arrayed(t)
  <2>1. \A u \in live(t) :
          IF t.vec[u].storage = Null
          THEN t.vec[u].capacity \in {0, Initial}
          ELSE /\ t.vec[u].storage \in DOMAIN t.mem
               /\ DOMAIN t.mem[t.vec[u].storage] = 0..(t.vec[u].capacity - 1)
      BY <1>1, <1>3, <1>5, <1>6, <1>7 DEF Sound, Arrayed
  <2>2. t.spoilt \subseteq live(t)
      BY <1>1, <1>3, <1>6
  <2> QED BY <1>1, <1>3, <1>5, <2>1, <2>2 DEF Sound, Arrayed
<1>9. Owned(t)
    BY <1>1, <1>3, <1>5, <1>6, <1>7 DEF Sound, Owned
<1>10. Fits(t)
  <2> SUFFICES ASSUME NEW u \in live(t) PROVE t.vec[u].size <= t.vec[u].capacity
      BY DEF Fits
  <2>1. CASE u = v
      BY <1>7, <2>1, VectorAssumption
  <2>2. CASE u # v
      BY <1>1, <1>5, <1>6, <2>2 DEF Fits
  <2> QED BY <2>1, <2>2
<1>11. g[v] = <<>> /\ \A u \in live(s) \ {v} : g[u] = h[u]
    BY DEF live
<1> HIDE DEF g
<1>12. KeptAt(t, g[v], v)
    BY <1>7, <1>11 DEF KeptAt
<1>13. \A u \in live(s) \ {v} : \A q : KeptAt(s, q, u) => KeptAt(t, q, u)
    BY <1>3, <1>5 DEF KeptAt
<1>14. Kept(t, g)
  <2>1. live(t) \subseteq live(s) \cup {v}
      BY <1>6
  <2> QED BY <1>1, <1>11, <1>12, <1>13, <2>1, KeptOthers
<1> QED BY <1>1, <1>3, <1>8, <1>9, <1>10, <1>14 DEF Good, Sound, t, g

LEMMA Destroyed ==
    ASSUME NEW s, NEW h \in [Vectors -> Seq(Cell)], Good(s, h), NEW v \in live(s)
    PROVE  Good(destroyed(s, v), [h EXCEPT ![v] = <<>>])
<1> DEFINE t == destroyed(s, v)
           g == [h EXCEPT ![v] = <<>>]
           m == deleted(s.mem, s.vec[v].storage)
<1>1. /\ Sound(s) /\ Fits(s) /\ Kept(s, h) /\ ~s.overran
      /\ s.vec \in [Vectors -> Rep \cup {Absent}] /\ v \in Vectors
      /\ s = [vec |-> s.vec, mem |-> s.mem, overran |-> s.overran, spoilt |-> s.spoilt]
      /\ s.spoilt \subseteq live(s)
    BY DEF Good, Sound, Arrayed, live
<1>2. t = [s EXCEPT !.mem = m, !.vec[v] = Absent, !.spoilt = @ \ {v}]
    BY DEF destroyed
<1>3. m = deleted(s.mem, s.vec[v].storage)
    OBVIOUS
<1> HIDE DEF t, m
<1>4. /\ t.vec = [s.vec EXCEPT ![v] = Absent]
      /\ t.mem = m /\ t.spoilt = s.spoilt \ {v} /\ t.overran = s.overran
      /\ t = [vec |-> t.vec, mem |-> t.mem, overran |-> t.overran, spoilt |-> t.spoilt]
    BY <1>1, <1>2
<1>5. /\ live(t) = live(s) \ {v}
      /\ \A u \in live(t) : t.vec[u] = s.vec[u]
      /\ t.vec \in [Vectors -> Rep \cup {Absent}]
    BY <1>1, <1>4 DEF live
<1>6. LeftOf(m, s, v)
    BY <1>1, <1>3, Deleted
<1>7. Arrayed(t)
  <2>1. \A u \in live(t) :
          IF t.vec[u].storage = Null
          THEN t.vec[u].capacity \in {0, Initial}
          ELSE /\ t.vec[u].storage \in DOMAIN t.mem
               /\ DOMAIN t.mem[t.vec[u].storage] = 0..(t.vec[u].capacity - 1)
      BY <1>1, <1>4, <1>5, <1>6 DEF Sound, Arrayed, LeftOf
  <2>2. t.spoilt \subseteq live(t)
      BY <1>1, <1>4, <1>5
  <2>3. t.overran \in BOOLEAN
      BY <1>1, <1>4 DEF Sound, Arrayed
  <2> QED BY <1>4, <1>5, <1>6, <2>1, <2>2, <2>3 DEF Arrayed, LeftOf
<1>8. Owned(t)
  <2>1. ASSUME NEW a \in DOMAIN t.mem \ {Null} PROVE \E u \in live(t) : t.vec[u].storage = a
    <3>1. a \in DOMAIN s.mem \ {Null} /\ a # s.vec[v].storage
        BY <1>4, <1>6, <2>1 DEF LeftOf
    <3>2. PICK u \in live(s) : s.vec[u].storage = a
        BY <1>1, <3>1 DEF Sound, Owned
    <3> QED BY <1>5, <3>1, <3>2
  <2>2. \A u, x \in live(t) : u # x /\ t.vec[u].storage # Null =>
            t.vec[u].storage # t.vec[x].storage
      BY <1>1, <1>5 DEF Sound, Owned
  <2> QED BY <2>1, <2>2 DEF Owned
<1>9. Fits(t)
    BY <1>1, <1>5 DEF Fits
<1>10. Kept(t, g)
  <2> SUFFICES ASSUME NEW u \in live(t) PROVE KeptAt(t, g[u], u)
      BY DEF Kept
  <2>1. u \in live(s) /\ u # v /\ u \in Vectors
      BY <1>5 DEF live
  <2>2. g[u] = h[u] /\ KeptAt(s, h[u], u)
      BY <1>1, <2>1 DEF Kept
  <2> HIDE DEF g
  <2> QED BY <1>4, <1>5, <1>6, <2>1, <2>2 DEF KeptAt, LeftOf
<1>11. Good(t, g)
    BY <1>1, <1>4, <1>7, <1>8, <1>9, <1>10 DEF Good, Sound
<1> QED BY <1>11 DEF t, g

LEMMA Copied ==
    ASSUME NEW s, NEW h \in [Vectors -> Seq(Cell)], Good(s, h), NEW u \in live(s),
           NEW v \in Vectors \ {u}
    PROVE  Good(copied(s, v, u), [h EXCEPT ![v] = h[u]])
<1> DEFINE t == copied(s, v, u)
           g == [h EXCEPT ![v] = h[u]]
           n == s.vec[u].capacity
<1>1. /\ Sound(s) /\ Fits(s) /\ Kept(s, h) /\ ~s.overran
      /\ n \in Nat /\ s.vec[u].size <= n
    BY Living DEF Good, Sound, Fits
<1>2. t = withArray(s, v, u, n)
    BY DEF copied
<1> HIDE DEF t
<1>3. /\ Sound(t) /\ Fits(t) /\ t.overran = s.overran
      /\ live(t) = live(s) \cup {v}
      /\ \A x \in live(s) \ {v} : \A q : KeptAt(s, q, x) => KeptAt(t, q, x)
      /\ \A q : KeptAt(s, q, u) => KeptAt(t, q, v)
    BY <1>1, <1>2, WithArray
<1>4. g[v] = h[u] /\ \A x \in live(s) \ {v} : g[x] = h[x]
    BY DEF live
<1> HIDE DEF g
<1>5. KeptAt(t, g[v], v)
    BY <1>1, <1>3, <1>4 DEF Kept
<1>6. Kept(t, g)
  <2>1. live(t) \subseteq live(s) \cup {v}
      BY <1>3
  <2> QED BY <1>1, <1>3, <1>4, <1>5, <2>1, KeptOthers
<1> QED BY <1>1, <1>3, <1>6 DEF Good, t, g

LEMMA Moved ==
    ASSUME NEW s, NEW h \in [Vectors -> Seq(Cell)], Good(s, h), NEW u \in live(s),
           NEW v \in Vectors \ {u}
    PROVE  Good(moved(s, v, u), [h EXCEPT ![v] = h[u], ![u] = <<>>])
<1> DEFINE t == moved(s, v, u)
           g == [h EXCEPT ![v] = h[u], ![u] = <<>>]
           m == deleted(s.mem, s.vec[v].storage)
           left == movedFrom(s.vec[u])
<1>1. /\ Sound(s) /\ Fits(s) /\ Kept(s, h) /\ ~s.overran
      /\ s.vec \in [Vectors -> Rep \cup {Absent}] /\ u \in Vectors /\ s.vec[u] \in Rep
      /\ s = [vec |-> s.vec, mem |-> s.mem, overran |-> s.overran, spoilt |-> s.spoilt]
      /\ s.spoilt \subseteq live(s)
    BY Living DEF Good, Sound, Arrayed
<1>2. t = [s EXCEPT !.mem = m, !.vec[v] = s.vec[u], !.vec[u] = left,
                    !.spoilt = (@ \ {v, u}) \cup (IF u \in @ THEN {v} ELSE {})]
    BY DEF moved
<1>3. m = deleted(s.mem, s.vec[v].storage)
    OBVIOUS
<1>4. left.storage = Null /\ left.size = 0 /\ left.capacity = 0 /\ left \in Rep
    BY DEF movedFrom, Rep
<1> HIDE DEF t, m, left
<1>5. /\ t.vec = [[s.vec EXCEPT ![v] = s.vec[u]] EXCEPT ![u] = left]
      /\ t.mem = m /\ t.overran = s.overran
      /\ t.spoilt = (s.spoilt \ {v, u}) \cup (IF u \in s.spoilt THEN {v} ELSE {})
      /\ t = [vec |-> t.vec, mem |-> t.mem, overran |-> t.overran, spoilt |-> t.spoilt]
    BY <1>1, <1>2
<1>6. /\ t.vec[v] = s.vec[u] /\ t.vec[u] = left
      /\ \A x \in Vectors \ {v, u} : t.vec[x] = s.vec[x]
      /\ t.vec \in [Vectors -> Rep \cup {Absent}]
    BY <1>1, <1>4, <1>5
<1>7. live(t) = live(s) \cup {v}
  <2>1. left # Absent /\ s.vec[u] # Absent
      BY <1>1, <1>4, AbsentIsNoRep
  <2> QED BY <1>1, <1>6, <2>1 DEF live
<1>8. LeftOf(m, s, v)
    BY <1>1, <1>3, Deleted
<1>9. \A x \in live(t) : x = u \/ x = v \/ (x \in live(s) \ {v, u} /\ t.vec[x] = s.vec[x])
    BY <1>6, <1>7 DEF live
<1>10. Arrayed(t)
  <2>1. ASSUME NEW x \in live(s) \ {v}
        PROVE  IF s.vec[x].storage = Null
               THEN s.vec[x].capacity \in {0, Initial}
               ELSE /\ s.vec[x].storage \in DOMAIN t.mem
                    /\ DOMAIN t.mem[s.vec[x].storage] = 0..(s.vec[x].capacity - 1)
      BY <1>1, <1>5, <1>8 DEF Sound, Arrayed, LeftOf
  <2>2. ASSUME NEW x \in live(t)
        PROVE  IF t.vec[x].storage = Null
               THEN t.vec[x].capacity \in {0, Initial}
               ELSE /\ t.vec[x].storage \in DOMAIN t.mem
                    /\ DOMAIN t.mem[t.vec[x].storage] = 0..(t.vec[x].capacity - 1)
      BY <1>4, <1>6, <1>9, <2>1
  <2>3. t.spoilt \subseteq live(t) /\ t.overran \in BOOLEAN
      BY <1>1, <1>5, <1>7 DEF Sound, Arrayed
  <2> QED BY <1>5, <1>6, <1>8, <2>2, <2>3 DEF Arrayed, LeftOf
<1>11. Owned(t)
  <2>1. ASSUME NEW a \in DOMAIN t.mem \ {Null} PROVE \E x \in live(t) : t.vec[x].storage = a
    <3>1. a \in DOMAIN s.mem \ {Null} /\ a # s.vec[v].storage
        BY <1>5, <1>8, <2>1 DEF LeftOf
    <3>2. PICK x \in live(s) : s.vec[x].storage = a
        BY <1>1, <3>1 DEF Sound, Owned
    <3>3. CASE x = u
        BY <1>6, <1>7, <3>2, <3>3
    <3>4. CASE x # u
      <4>1. x \in Vectors \ {v, u}
          BY <3>1, <3>2, <3>4 DEF live
      <4> QED BY <1>6, <1>7, <3>2, <4>1
    <3> QED BY <3>3, <3>4
  <2>2. ASSUME NEW x \in live(t), NEW y \in live(t), x # y, t.vec[x].storage # Null
        PROVE  t.vec[x].storage # t.vec[y].storage
    <3>1. x # u /\ (y = u => t.vec[y].storage = Null)
        BY <1>4, <1>6, <2>2
    <3>2. \A a, b \in live(s) : a # b /\ s.vec[a].storage # Null =>
             s.vec[a].storage # s.vec[b].storage
        BY <1>1 DEF Sound, Owned
    <3> QED BY <1>6, <1>9, <2>2, <3>1, <3>2
  <2> QED BY <2>1, <2>2 DEF Owned
<1>12. Fits(t)
  <2> SUFFICES ASSUME NEW x \in live(t) PROVE t.vec[x].size <= t.vec[x].capacity
      BY DEF Fits
  <2>1. CASE x = u
      BY <1>4, <1>6, <2>1
  <2>2. CASE x = v
      BY <1>1, <1>6, <2>2 DEF Fits
  <2>3. CASE x # u /\ x # v
      BY <1>1, <1>9, <2>3 DEF Fits
  <2> QED BY <2>1, <2>2, <2>3
<1>13. /\ g[v] = h[u] /\ g[u] = <<>>
       /\ \A x \in live(s) \ {v, u} : g[x] = h[x]
    BY <1>1 DEF live
<1> HIDE DEF g
<1>14. Kept(t, g)
  <2>1. ASSUME NEW x \in live(s) \ {v}, NEW y \in live(t), t.vec[y] = s.vec[x],
               NEW q, KeptAt(s, q, x), y \notin t.spoilt => x \notin s.spoilt
        PROVE  KeptAt(t, q, y)
    <3>1. t.mem[t.vec[y].storage] = s.mem[s.vec[x].storage]
        BY <1>5, <1>8, <2>1 DEF LeftOf
    <3> QED BY <2>1, <3>1 DEF KeptAt
  <2> SUFFICES ASSUME NEW x \in live(t) PROVE KeptAt(t, g[x], x)
      BY DEF Kept
  <2>2. CASE x = u
      BY <1>4, <1>6, <1>13, <2>2 DEF KeptAt
  <2>3. CASE x = v
    <3>1. KeptAt(s, h[u], u) /\ u \in live(s) \ {v}
        BY <1>1 DEF Kept
    <3>2. v \notin t.spoilt => u \notin s.spoilt
        BY <1>5
    <3> QED BY <1>6, <1>13, <2>1, <2>3, <3>1, <3>2
  <2>4. CASE x # u /\ x # v
    <3>1. x \in live(s) \ {v} /\ t.vec[x] = s.vec[x] /\ g[x] = h[x]
        BY <1>9, <1>13, <2>4
    <3>2. KeptAt(s, h[x], x) /\ (x \notin t.spoilt => x \notin s.spoilt)
        BY <1>1, <1>5, <2>4, <3>1 DEF Kept
    <3> QED BY <2>1, <3>1, <3>2
  <2> QED BY <2>2, <2>3, <2>4
<1>15. Good(t, g)
    BY <1>1, <1>5, <1>10, <1>11, <1>12, <1>14 DEF Good, Sound
<1> QED BY <1>15 DEF t, g
-----------------------------------------------------------------------------
LEMMA InitVInv == Init => VInv
<1> SUFFICES ASSUME Init PROVE VInv
    OBVIOUS
<1>1. /\ st = [vec |-> st.vec, mem |-> st.mem, overran |-> st.overran, spoilt |-> st.spoilt]
      /\ st.vec = [v \in Vectors |-> Absent] /\ ~st.overran /\ st.spoilt = {}
      /\ st.mem = [a \in {Null} |-> [i \in 0..(Initial - 1) |-> Zero]]
      /\ st.overran \in BOOLEAN
      /\ holds = [v \in Vectors |-> <<>>]
    BY DEF Init
<1>2. live(st) = {}
    BY <1>1 DEF live
<1>3. /\ DOMAIN st.mem = {Null} /\ IsFunction(st.mem)
      /\ DOMAIN st.mem[Null] = 0..(Initial - 1)
      /\ \A a \in DOMAIN st.mem : st.mem[a] \in [DOMAIN st.mem[a] -> Cell]
    BY <1>1, VectorAssumption DEF IsFunction, Cell
<1>4. Arrayed(st)
    BY <1>1, <1>2, <1>3 DEF Arrayed
<1>5. Owned(st) /\ Fits(st) /\ Kept(st, holds)
    BY <1>2, <1>3 DEF Owned, Fits, Kept
<1>6. holds \in [Vectors -> Seq(Cell)]
    BY <1>1
<1> QED BY <1>1, <1>4, <1>5, <1>6 DEF VInv, Good, Sound

(* What a client expects stays a sequence of cells.                        *)
LEMMA HoldsTyped ==
    ASSUME holds \in [Vectors -> Seq(Cell)], NEW v \in Vectors, NEW q \in Seq(Cell),
           becomes(v, q)
    PROVE  holds' \in [Vectors -> Seq(Cell)]
BY DEF becomes

(* Every operation keeps the invariant.                                    *)
LEMMA NextVInv ==
    ASSUME VInv, Next
    PROVE  VInv'
<1>1. /\ Good(st, holds) /\ holds \in [Vectors -> Seq(Cell)]
      /\ \A v \in live(st) : v \in Vectors /\ st.vec[v].size \in Nat
      /\ \A v \in live(st) : Len(holds[v]) = st.vec[v].size
  <2>1. Good(st, holds) /\ holds \in [Vectors -> Seq(Cell)]
      BY DEF Next, VInv, Overran
  <2> QED BY <2>1, Living DEF Good, Sound, Kept, KeptAt
<1>2. ASSUME NEW v \in Vectors, Construct(v) PROVE VInv'
  <2>1. <<>> \in Seq(Cell)
      OBVIOUS
  <2>2. holds' \in [Vectors -> Seq(Cell)]
      BY <1>1, <1>2, <2>1, HoldsTyped DEF Construct
  <2>3. Good(constructed(st, v), [holds EXCEPT ![v] = <<>>])
      BY <1>1, <1>2, Constructed DEF Construct
  <2> QED BY <1>2, <2>2, <2>3 DEF Construct, becomes, VInv
<1>3. ASSUME NEW v \in Vectors, Destroy(v) PROVE VInv'
  <2>1. <<>> \in Seq(Cell)
      OBVIOUS
  <2>2. holds' \in [Vectors -> Seq(Cell)]
      BY <1>1, <1>3, <2>1, HoldsTyped DEF Destroy
  <2>3. Good(destroyed(st, v), [holds EXCEPT ![v] = <<>>])
      BY <1>1, <1>3, Destroyed DEF Destroy
  <2> QED BY <1>3, <2>2, <2>3 DEF Destroy, becomes, VInv
<1>4. ASSUME NEW v \in Vectors, PopBack(v) PROVE VInv'
  <2>1. SubSeq(holds[v], 1, Len(holds[v]) - 1) \in Seq(Cell)
    <3>1. holds[v] \in Seq(Cell) /\ Len(holds[v]) > 0
        BY <1>1, <1>4 DEF PopBack
    <3> QED BY <3>1
  <2>2. holds' \in [Vectors -> Seq(Cell)]
      BY <1>1, <1>4, <2>1, HoldsTyped DEF PopBack
  <2>3. Good(popped(st, v), [holds EXCEPT ![v] = SubSeq(holds[v], 1, Len(holds[v]) - 1)])
      BY <1>1, <1>4, Popped DEF PopBack
  <2> QED BY <1>4, <2>2, <2>3 DEF PopBack, becomes, VInv
<1>5. ASSUME NEW v \in Vectors, Clear(v) PROVE VInv'
  <2>1. <<>> \in Seq(Cell)
      OBVIOUS
  <2>2. holds' \in [Vectors -> Seq(Cell)]
      BY <1>1, <1>5, <2>1, HoldsTyped DEF Clear
  <2>3. Good(cleared(st, v), [holds EXCEPT ![v] = <<>>])
      BY <1>1, <1>5, Emptied DEF Clear
  <2> QED BY <1>5, <2>2, <2>3 DEF Clear, becomes, VInv
<1>6. ASSUME NEW v \in Vectors, NEW x \in Elem, PushBack(v, x) PROVE VInv'
  <2>1. Append(holds[v], x) \in Seq(Cell)
    <3>1. holds[v] \in Seq(Cell) /\ x \in Cell
        BY <1>1 DEF Cell
    <3> QED BY <3>1
  <2>2. holds' \in [Vectors -> Seq(Cell)]
      BY <1>1, <1>6, <2>1, HoldsTyped DEF PushBack
  <2>3. \/ Good(pushed(st, v, x), [holds EXCEPT ![v] = Append(holds[v], x)])
        \/ Overran(pushed(st, v, x))
      BY <1>1, <1>6, Pushed DEF PushBack
  <2> QED BY <1>6, <2>2, <2>3 DEF PushBack, becomes, VInv
<1>7. ASSUME NEW v \in Vectors, NEW x \in Elem, NEW i \in 0..(MaxSize - 1), Assign(v, i, x)
      PROVE  VInv'
  <2>1. [holds[v] EXCEPT ![i + 1] = x] \in Seq(Cell)
    <3>1. holds[v] \in Seq(Cell) /\ x \in Cell /\ i + 1 \in 1..Len(holds[v])
        BY <1>1, <1>7 DEF Assign, Cell
    <3> QED BY <3>1
  <2>2. holds' \in [Vectors -> Seq(Cell)]
      BY <1>1, <1>7, <2>1, HoldsTyped DEF Assign
  <2>3. Good(put(st, v, {i}, x), [holds EXCEPT ![v] = [holds[v] EXCEPT ![i + 1] = x]])
    <3>1. v \in live(st) /\ i \in Nat /\ i < st.vec[v].size
        BY <1>7 DEF Assign
    <3> QED BY ONLY <1>1, <3>1, <1>7, Assigned
  <2> QED BY <1>7, <2>2, <2>3 DEF Assign, becomes, VInv
<1>8. ASSUME NEW v \in Vectors, NEW n \in Requests, Reserve(v, n) PROVE VInv'
  <2>1. n \in Nat
      BY VectorAssumption
  <2>2. Good(reserve(st, v, n), holds)
      BY <1>1, <1>8, <2>1, Reserved DEF Reserve
  <2> QED BY <1>1, <1>8, <2>2 DEF Reserve, VInv
<1>9. ASSUME NEW v \in Vectors, NEW n \in Requests, Resize(v, n) PROVE VInv'
  <2> DEFINE q == [i \in 1..n |-> IF i <= Len(holds[v]) THEN holds[v][i] ELSE Zero]
  <2>1. n \in Nat
      BY VectorAssumption
  <2>2. q \in Seq(Cell)
    <3>1. holds[v] \in Seq(Cell) /\ Zero \in Cell
        BY <1>1, VectorAssumption DEF Cell
    <3> QED BY <2>1, <3>1
  <2>3. holds' \in [Vectors -> Seq(Cell)]
      BY <1>1, <1>9, <2>2, HoldsTyped DEF Resize
  <2>4. Good(resized(st, v, n), [holds EXCEPT ![v] = q])
      BY <1>1, <1>9, <2>1, Resized DEF Resize
  <2> QED BY <1>9, <2>3, <2>4 DEF Resize, becomes, VInv
<1>10. ASSUME NEW v \in Vectors, NEW u \in Vectors, Copy(v, u) PROVE VInv'
  <2>1. holds[u] \in Seq(Cell)
      BY <1>1
  <2>2. holds' \in [Vectors -> Seq(Cell)]
      BY <1>1, <1>10, <2>1, HoldsTyped DEF Copy
  <2>3. Good(copied(st, v, u), [holds EXCEPT ![v] = holds[u]])
      BY <1>1, <1>10, Copied DEF Copy
  <2> QED BY <1>10, <2>2, <2>3 DEF Copy, becomes, VInv
<1>11. ASSUME NEW v \in Vectors, NEW u \in Vectors, Move(v, u) PROVE VInv'
  <2>1. holds[u] \in Seq(Cell) /\ <<>> \in Seq(Cell)
      BY <1>1
  <2>2. holds' \in [Vectors -> Seq(Cell)]
      BY <1>1, <1>11, <2>1 DEF Move
  <2>3. Good(moved(st, v, u), [holds EXCEPT ![v] = holds[u], ![u] = <<>>])
      BY <1>1, <1>11, Moved DEF Move
  <2> QED BY <1>11, <2>2, <2>3 DEF Move, VInv
<1> QED BY <1>2, <1>3, <1>4, <1>5, <1>6, <1>7, <1>8, <1>9, <1>10, <1>11 DEF Next

THEOREM VInvHolds == Spec => []VInv
<1>1. VInv /\ [Next]_vars => VInv'
  <2>1. VInv /\ UNCHANGED vars => VInv'
      BY DEF VInv, vars
  <2> QED BY <2>1, NextVInv
<1> QED BY <1>1, InitVInv, PTL DEF Spec
-----------------------------------------------------------------------------
(* Types: whatever the clients do, a vector knows the length of its array. *)
THEOREM VectorTyped == Spec => []VectorTypeOK
<1>1. VInv => VectorTypeOK
  <2> SUFFICES ASSUME VInv PROVE VectorTypeOK
      OBVIOUS
  <2>1. Arrayed(st) /\ holds \in [Vectors -> Seq(Cell)] /\ (st.overran \/ Fits(st))
      BY DEF VInv, Good, Overran, Sound
  <2>2. \A a \in DOMAIN st.mem : \A i \in DOMAIN st.mem[a] : st.mem[a][i] \in Cell
      BY <2>1 DEF Arrayed
  <2>3. ASSUME NEW v \in live(st)
        PROVE  LET r == st.vec[v]
               IN  /\ r.storage = Null => r.capacity \in {0, Initial}
                   /\ r.storage # Null => DOMAIN st.mem[r.storage] = 0..(r.capacity - 1)
                   /\ st.overran \/ r.size <= r.capacity
      BY <2>1 DEF Arrayed, Fits
  <2>4. /\ st.vec \in [Vectors -> Rep \cup {Absent}] /\ DOMAIN st.mem \subseteq Arrays \cup {Null}
        /\ st.overran \in BOOLEAN /\ st.spoilt \subseteq live(st)
      BY <2>1 DEF Arrayed
  <2> QED BY <2>1, <2>2, <2>3, <2>4 DEF VectorTypeOK, Rep
<1> QED BY <1>1, VInvHolds, PTL

(* No operation leaks an array, deletes one twice or uses one afterwards.  *)
THEOREM Ownership == Spec => []OneOwnerEach
<1>1. VInv => OneOwnerEach
  <2> SUFFICES ASSUME VInv PROVE OneOwnerEach
      OBVIOUS
  <2>1. Arrayed(st) /\ Owned(st)
      BY DEF VInv, Good, Overran, Sound
  <2>2. \A v \in live(st) : st.vec[v].storage \in DOMAIN st.mem
      BY <2>1, Living
  <2> QED BY <2>1, <2>2 DEF OneOwnerEach, Owned
<1> QED BY <1>1, VInvHolds, PTL

(* A client finds in its vector the elements it put there.                 *)
THEOREM Contents == Spec => []ElementsKept
<1>1. VInv => ElementsKept
  <2> SUFFICES ASSUME VInv, ~st.overran, NEW v \in live(st) \ st.spoilt
               PROVE  elements(st, v) = holds[v]
      BY DEF ElementsKept
  <2>1. KeptAt(st, holds[v], v) /\ holds[v] \in Seq(Cell) /\ v \in Vectors
      BY DEF VInv, Good, Overran, Kept, live
  <2>2. st.vec[v].size = Len(holds[v])
        /\ \A i \in 1..Len(holds[v]) : st.mem[st.vec[v].storage][i - 1] = holds[v][i]
      BY <2>1 DEF KeptAt
  <2>3. elements(st, v) = [i \in 1..Len(holds[v]) |-> st.mem[st.vec[v].storage][i - 1]]
      BY <2>2 DEF elements
  <2> DEFINE q == holds[v]
  <2>4. q = [i \in 1..Len(q) |-> q[i]]
      BY <2>1
  <2> QED BY <2>2, <2>3, <2>4
<1> QED BY <1>1, VInvHolds, PTL

(* Only a vector without capacity, left by a move, overruns its array.     *)
THEOREM Overruns == Spec => []OverrunsOnlyEmptied
<1>1. VInv => OverrunsOnlyEmptied
    BY DEF VInv, Good, Overran, OverrunsOnlyEmptied
<1> QED BY <1>1, VInvHolds, PTL
=============================================================================
