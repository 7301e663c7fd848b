------------------------------- MODULE Vector -------------------------------
(***************************************************************************)
(* ministl::vector (kernel/kstl/Vector.h) with the unique_ptr that owns    *)
(* its array (UniquePtr.h).  A default vector has a capacity but no array: *)
(* its storage is the null pointer, and the kernel, built without          *)
(* optimisation for a machine without protection, reads and writes address *)
(* zero.  All such vectors therefore share those cells.                    *)
(*                                                                         *)
(* T is a type without a destructor, as the two the kernel uses (char and  *)
(* Elf32_Shdr).                                                            *)
(***************************************************************************)
EXTENDS Integers, Sequences

CONSTANTS
    Vectors,    \* places where a client keeps a vector
    Arrays,     \* what new T[n] may return
    Null,
    Elem, Zero, \* values of T, and T()
    Junk,       \* what lies in an array that new T[n] returns
    Initial,    \* capacity of a default vector, 8 in the source
    Requests,   \* arguments of reserve and resize
    MaxSize     \* bound: clients stop pushing at this size

ASSUME VectorAssumption ==
    /\ Null \notin Arrays /\ Zero \in Elem /\ Junk \notin Elem
    /\ Initial \in Nat \ {0} /\ MaxSize \in Nat
    /\ Requests \subseteq 0..MaxSize

(* operator new does not fail: whatever arrays the vectors own, there is   *)
(* another one.                                                            *)
ASSUME ArraysAssumption ==
    \A f \in [Vectors -> Arrays \cup {Null}] :
        \E a \in Arrays : \A v \in Vectors : f[v] # a

VARIABLES
    st,     \* [vec, mem, overran, spoilt], see VectorTypeOK
    holds   \* history: the elements a client expects in each vector

vars == <<st, holds>>

Absent == [storage |-> Null, size |-> 0, capacity |-> -1]
Cell   == Elem \cup {Junk}

live(s) == {v \in Vectors : s.vec[v] # Absent}
elements(s, v) ==
    [i \in 1..s.vec[v].size |-> s.mem[s.vec[v].storage][i - 1]]

(* Types; a vector knows the length of its array, and has no array only    *)
(* when it is fresh or moved from.                                         *)
VectorTypeOK ==
    /\ st.vec \in [Vectors -> [storage : Arrays \cup {Null}, size : Nat,
                               capacity : Nat] \cup {Absent}]
    /\ DOMAIN st.mem \subseteq Arrays \cup {Null}
    /\ \A a \in DOMAIN st.mem : \A i \in DOMAIN st.mem[a] : st.mem[a][i] \in Cell
    /\ \A v \in live(st) :
          LET r == st.vec[v]
          IN  /\ r.storage = Null => r.capacity \in {0, Initial}
              /\ r.storage # Null => DOMAIN st.mem[r.storage] = 0..(r.capacity - 1)
              /\ st.overran \/ r.size <= r.capacity
    /\ st.overran \in BOOLEAN       \* a cell outside of its array was written
    /\ st.spoilt \subseteq live(st) \* another one wrote over elements at zero
    /\ holds \in [Vectors -> Seq(Cell)]

Init ==
    /\ st = [vec |-> [v \in Vectors |-> Absent],
             mem |-> [a \in {Null} |-> [i \in 0..(Initial - 1) |-> Zero]],
             overran |-> FALSE, spoilt |-> {}]
    /\ holds = [v \in Vectors |-> <<>>]

-----------------------------------------------------------------------------
(* unique_ptr: the array it holds is deleted when it gets another one;     *)
(* deleting the null pointer does nothing.                                 *)
deleted(mem, a) == [b \in DOMAIN mem \ ({a} \ {Null}) |-> mem[b]]

(* What a move leaves: the array still there, the capacity still there, or *)
(* nothing.                                                                *)
movedFromShared(rep) == [rep EXCEPT !.size = 0, !.capacity = 0]
movedFromRoomy(rep)  == [rep EXCEPT !.size = 0, !.storage = Null]
movedFrom(rep) == [storage |-> Null, size |-> 0, capacity |-> 0]

(* new T[n], filled with the first elements of w, given to v, whose array  *)
(* is deleted.                                                             *)
cellsButLast(s, w) == s.vec[w].size - 1
cellsKept(s, w) == s.vec[w].size
withArray(s, v, w, n) ==
    LET a     == CHOOSE b \in Arrays : b \notin DOMAIN s.mem
        cells == [i \in 0..(n - 1) |->
                    IF i < cellsKept(s, w) THEN s.mem[s.vec[w].storage][i] ELSE Junk]
        mem   == [b \in DOMAIN s.mem \cup {a} |->
                    IF b = a THEN cells ELSE s.mem[b]]
    IN  [s EXCEPT !.mem = deleted(mem, s.vec[v].storage),
                  !.vec[v] = [storage |-> a, size |-> s.vec[w].size, capacity |-> n],
                  !.spoilt = IF w \in @ THEN @ \cup {v} ELSE @ \ {v}]

(* Vectors whose elements lie where v writes the cells K.                  *)
overwritten(s, v, K) ==
    {u \in live(s) \ {v} : /\ s.vec[u].storage = Null /\ s.vec[v].storage = Null
                           /\ \E i \in K : i < s.vec[u].size}

put(s, v, K, x) ==
    LET a == s.vec[v].storage
    IN  IF K \subseteq DOMAIN s.mem[a]
        THEN [s EXCEPT !.mem[a] = [i \in DOMAIN @ |-> IF i \in K THEN x ELSE @[i]],
                       !.spoilt = @ \cup overwritten(s, v, K)]
        ELSE [s EXCEPT !.overran = TRUE]

constructed(s, v) ==
    [s EXCEPT !.vec[v] = [storage |-> Null, size |-> 0, capacity |-> Initial]]

reserve(s, v, n) == IF n <= s.vec[v].capacity THEN s ELSE withArray(s, v, v, n)

(* One element too late, and in time.                                      *)
fullPast(rep) == rep.size > rep.capacity
full(rep)     == rep.size >= rep.capacity

(* A vector of capacity 0 grows to 0.                                      *)
pushed(s, v, x) ==
    LET g == IF full(s.vec[v]) THEN withArray(s, v, v, 2 * s.vec[v].capacity) ELSE s
        n == g.vec[v].size
    IN  put([g EXCEPT !.vec[v].size = n + 1], v, {n}, x)

(* pop_back destroys the cell behind the last element, which is nothing.   *)
popped(s, v) == [s EXCEPT !.vec[v].size = @ - 1]

resized(s, v, n) ==
    LET r   == reserve(s, v, n)
        new == s.vec[v].size..(n - 1)
    IN  [put(r, v, new, Zero) EXCEPT !.vec[v].size = n]

(* clear() leaves array and capacity.                                      *)
cleared(s, v) == [s EXCEPT !.vec[v].size = 0, !.spoilt = @ \ {v}]

copied(s, v, u) == withArray(s, v, u, s.vec[u].capacity)

moved(s, v, u) ==
    [s EXCEPT !.mem = deleted(@, s.vec[v].storage),
              !.vec[v] = s.vec[u], !.vec[u] = movedFrom(s.vec[u]),
              !.spoilt = (@ \ {v, u}) \cup (IF u \in @ THEN {v} ELSE {})]

destroyed(s, v) ==
    [s EXCEPT !.mem = deleted(@, s.vec[v].storage), !.vec[v] = Absent,
              !.spoilt = @ \ {v}]
-----------------------------------------------------------------------------
becomes(v, q) == holds' = [holds EXCEPT ![v] = q]

Construct(v) == v \notin live(st) /\ st' = constructed(st, v) /\ becomes(v, <<>>)
Destroy(v) == v \in live(st) /\ st' = destroyed(st, v) /\ becomes(v, <<>>)

PushBack(v, x) ==
    /\ v \in live(st) /\ st.vec[v].size < MaxSize
    /\ st' = pushed(st, v, x)
    /\ becomes(v, Append(holds[v], x))

(* An empty vector fails the assertion.                                    *)
PopBack(v) ==
    /\ v \in live(st) /\ st.vec[v].size > 0
    /\ st' = popped(st, v)
    /\ becomes(v, SubSeq(holds[v], 1, Len(holds[v]) - 1))

(* v[i] = x                                                                *)
Assign(v, i, x) ==
    /\ v \in live(st) /\ i < st.vec[v].size
    /\ st' = put(st, v, {i}, x)
    /\ becomes(v, [holds[v] EXCEPT ![i + 1] = x])

Clear(v) == v \in live(st) /\ st' = cleared(st, v) /\ becomes(v, <<>>)

Reserve(v, n) == v \in live(st) /\ st' = reserve(st, v, n) /\ UNCHANGED holds

Resize(v, n) ==
    /\ v \in live(st)
    /\ st' = resized(st, v, n)
    /\ becomes(v, [i \in 1..n |-> IF i <= Len(holds[v]) THEN holds[v][i] ELSE Zero])

(* Constructor or assignment, as v is absent or live; assigning a vector   *)
(* to itself does nothing.                                                 *)
Copy(v, u) ==
    /\ u \in live(st) \ {v}
    /\ st' = copied(st, v, u)
    /\ becomes(v, holds[u])

Move(v, u) ==
    /\ u \in live(st) \ {v}
    /\ st' = moved(st, v, u)
    /\ holds' = [holds EXCEPT ![v] = holds[u], ![u] = <<>>]

Next ==
    /\ ~st.overran
    /\ \E v \in Vectors :
          \/ Construct(v) \/ Destroy(v) \/ PopBack(v) \/ Clear(v)
          \/ \E x \in Elem : PushBack(v, x)
          \/ \E x \in Elem, i \in 0..(MaxSize - 1) : Assign(v, i, x)
          \/ \E n \in Requests : Reserve(v, n) \/ Resize(v, n)
          \/ \E u \in Vectors : Copy(v, u) \/ Move(v, u)

Spec == Init /\ [][Next]_vars
-----------------------------------------------------------------------------
(* Every array has one owner and every owner's array is there: nothing is  *)
(* leaked, deleted twice or used after it was deleted.                     *)
OneOwnerEach ==
    LET owners == {v \in live(st) : st.vec[v].storage # Null}
    IN  /\ {st.vec[v].storage : v \in owners} = DOMAIN st.mem \ {Null}
        /\ \A v, u \in owners : v # u => st.vec[v].storage # st.vec[u].storage

(* A vector has the elements its client put there, through every grow,     *)
(* copy, move and reuse of arrays, unless they were at address zero and    *)
(* another vector wrote there.                                             *)
ElementsKept ==
    ~st.overran => \A v \in live(st) \ st.spoilt : elements(st, v) = holds[v]

(* Only a vector that lost its capacity to a move, or was copied from such *)
(* a one, writes outside of its array.                                     *)
OverrunsOnlyEmptied == st.overran => \E v \in live(st) : st.vec[v].capacity = 0
=============================================================================
