----------------------------- MODULE QueueProofs -----------------------------
(***************************************************************************)
(* The list of a queue, for every set of values and of addresses: what is  *)
(* allocated is what is linked, and the queue is a FIFO.                   *)
(***************************************************************************)
EXTENDS Queue, SequenceTheorems, TLAPS

(* The invariant.  Its parts need each other: that dequeue() finds the next *)
(* node allocated comes from ListExact, and that ++ finds something left   *)
(* in due, which keeps it a sequence, from IteratorVisits.                 *)
QInv == QueueTypeOK /\ ListExact /\ IteratorVisits

(* Suffixes of a sequence that grows at its end and shrinks at its front.  *)
LEMMA SuffixOfAppend ==
    ASSUME NEW S, NEW s \in Seq(S), NEW x \in S, NEW i \in 1..Len(s)
    PROVE  Append(SubSeq(s, i, Len(s)), x) = SubSeq(Append(s, x), i, Len(s) + 1)
<1> DEFINE n == Len(s)
           a == Append(SubSeq(s, i, n), x)
           b == SubSeq(Append(s, x), i, n + 1)
<1>1. n \in Nat /\ i \in Int /\ \A j \in i..n : s[j] \in S
    OBVIOUS
<1>2. /\ SubSeq(s, i, n) \in Seq(S) /\ Len(SubSeq(s, i, n)) = n - i + 1
      /\ \A j \in 1..(n - i + 1) : SubSeq(s, i, n)[j] = s[i + j - 1]
    BY <1>1, SubSeqProperties
<1>3. /\ a \in Seq(S) /\ Len(a) = n - i + 2 /\ a[n - i + 2] = x
      /\ \A j \in 1..(n - i + 1) : a[j] = s[i + j - 1]
    BY <1>1, <1>2
<1>4. /\ Append(s, x) \in Seq(S) /\ Append(s, x)[n + 1] = x
      /\ \A j \in 1..n : Append(s, x)[j] = s[j]
    OBVIOUS
<1>5. \A j \in i..(n + 1) : Append(s, x)[j] \in S
    BY <1>1, <1>4
<1>6. /\ b \in Seq(S) /\ Len(b) = n - i + 2
      /\ \A j \in 1..(n - i + 2) : b[j] = Append(s, x)[i + j - 1]
    BY <1>1, <1>5, SubSeqProperties
<1>7. \A j \in 1..Len(a) : a[j] = b[j]
    BY <1>1, <1>3, <1>4, <1>6
<1> QED BY <1>3, <1>6, <1>7, SeqEqual

LEMMA SuffixOfTail ==
    ASSUME NEW S, NEW s \in Seq(S), NEW i \in 2..Len(s)
    PROVE  SubSeq(Tail(s), i - 1, Len(s) - 1) = SubSeq(s, i, Len(s))
<1> DEFINE n == Len(s)
           a == SubSeq(Tail(s), i - 1, n - 1)
           b == SubSeq(s, i, n)
<1>1. n \in Nat /\ i \in Int /\ s # <<>> /\ \A j \in i..n : s[j] \in S
    OBVIOUS
<1>2. Tail(s) \in Seq(S) /\ Len(Tail(s)) = n - 1 /\ \A j \in 1..(n - 1) : Tail(s)[j] = s[j + 1]
    BY <1>1, HeadTailProperties
<1>3. \A j \in (i - 1)..(n - 1) : Tail(s)[j] \in S
    BY <1>1, <1>2
<1>4. /\ a \in Seq(S) /\ Len(a) = n - i + 1
      /\ \A j \in 1..(n - i + 1) : a[j] = Tail(s)[i - 1 + j - 1]
    BY <1>1, <1>3, SubSeqProperties
<1>5. /\ b \in Seq(S) /\ Len(b) = n - i + 1
      /\ \A j \in 1..(n - i + 1) : b[j] = s[i + j - 1]
    BY <1>1, SubSeqProperties
<1>6. \A j \in 1..Len(a) : a[j] = b[j]
  <2> TAKE j \in 1..Len(a)
  <2>1. j \in 1..(n - i + 1) /\ i + j - 2 \in 1..(n - 1)
      BY <1>1, <1>4
  <2>2. a[j] = Tail(s)[i + j - 2]
      BY <1>1, <1>4, <2>1
  <2>3. Tail(s)[i + j - 2] = s[i + j - 1]
      BY <1>1, <1>2, <2>1
  <2> QED BY <1>5, <2>1, <2>2, <2>3
<1> QED BY <1>4, <1>5, <1>6, SeqEqual

(* The values in the nodes.                                                *)
LEMMA ValuesAre ==
    ASSUME QInv
    PROVE  /\ values \in Seq(Value) /\ Len(values) = Len(order)
           /\ \A i \in 1..Len(order) : values[i] = node[order[i]].value
<1>1. \A i \in 1..Len(order) : node[order[i]].value \in Value
    BY DEF QInv, QueueTypeOK, ListExact, NodesOwned, Node
<1> QED BY <1>1 DEF values, QInv, QueueTypeOK

LEMMA QueueInitially == QInit => QInv
<1> SUFFICES ASSUME QInit PROVE QInv
    OBVIOUS
<1>1. order = <<>> /\ order \in Seq(Place) /\ 1..Len(order) = {} /\ DOMAIN node = {}
    BY DEF QInit
<1>2. due \in Seq(Value)
    BY DEF QInit
<1>3. QueueTypeOK
    BY <1>1, <1>2 DEF QInit, QueueTypeOK, EmptyQueue
<1>4. NodesOwned
    BY <1>1 DEF NodesOwned
<1>5. ListLinked
    BY <1>1 DEF QInit, ListLinked, EmptyQueue
<1>6. IteratorVisits
    BY DEF QInit, IteratorVisits
<1> QED BY <1>3, <1>4, <1>5, <1>6 DEF QInv, ListExact

(* The list without its first node, which nothing else names.              *)
LEMMA TailOfOrder ==
    ASSUME QInv, q.head # Nil
    PROVE  /\ order # <<>> /\ q.head = order[1] /\ q.head \in DOMAIN node
           /\ Tail(order) \in Seq(Place) /\ Len(Tail(order)) = Len(order) - 1
           /\ \A i \in 1..Len(Tail(order)) : Tail(order)[i] = order[i + 1]
           /\ DOMAIN without(q.head) = {Tail(order)[i] : i \in 1..Len(Tail(order))}
           /\ \A i \in 2..Len(order) : order[i] \in DOMAIN node /\ order[i] # q.head
           /\ node[q.head].next = IF Len(order) = 1 THEN Nil ELSE order[2]
<1>1. order \in Seq(Place) /\ order # <<>> /\ q.head = order[1] /\ Len(order) \in Nat \ {0}
    BY DEF QInv, QueueTypeOK, ListExact, ListLinked
<1>2. q.head \in DOMAIN node
    BY <1>1 DEF QInv, ListExact, NodesOwned
<1>3. /\ Tail(order) \in Seq(Place) /\ Len(Tail(order)) = Len(order) - 1
      /\ \A i \in 1..Len(Tail(order)) : Tail(order)[i] = order[i + 1]
    BY <1>1
<1>4. \A i \in 2..Len(order) : order[i] \in DOMAIN node /\ order[i] # q.head
    BY <1>1 DEF QInv, ListExact, NodesOwned
<1>5. DOMAIN without(q.head) = {Tail(order)[i] : i \in 1..Len(Tail(order))}
  <2>1. DOMAIN without(q.head) = {order[i] : i \in 1..Len(order)} \ {order[1]}
      BY <1>1 DEF without, QInv, ListExact, NodesOwned
  <2>2. ASSUME NEW p \in DOMAIN without(q.head)
        PROVE  \E i \in 1..Len(Tail(order)) : p = Tail(order)[i]
    <3>1. PICK j \in 1..Len(order) : p = order[j]
        BY <2>1
    <3>2. j - 1 \in 1..Len(Tail(order)) /\ Tail(order)[j - 1] = p
        BY <1>1, <1>3, <2>1, <3>1
    <3> QED BY <3>2
  <2>3. ASSUME NEW i \in 1..Len(Tail(order))
        PROVE  Tail(order)[i] \in DOMAIN without(q.head)
    <3>1. i + 1 \in 2..Len(order) /\ Tail(order)[i] = order[i + 1]
        BY <1>1, <1>3
    <3> QED BY <1>1, <1>4, <2>1, <3>1
  <2> QED BY <2>2, <2>3
<1>6. node[q.head].next = IF Len(order) = 1 THEN Nil ELSE order[2]
  <2>1. 1 \in 1..Len(order)
      BY <1>1
  <2>2. node[order[1]].next = IF 1 = Len(order) THEN Nil ELSE order[1 + 1]
      BY <2>1 DEF QInv, ListExact, ListLinked
  <2> QED BY <1>1, <2>2
<1> QED BY <1>1, <1>2, <1>3, <1>4, <1>5, <1>6

(* A node linked in behind the tail.                                       *)
LEMMA EnqueueStep ==
    ASSUME QInv, NEW v \in Value, Enqueue(v)
    PROVE  QInv' /\ values' = Append(values, v)
<1>1. PICK p \in Place \ DOMAIN node :
          /\ node' = linked(p, v)
          /\ q' = [size |-> q.size + 1, tail |-> p,
                   head |-> IF q.tail = Nil THEN p ELSE q.head]
          /\ order' = Append(order, p)
    BY DEF Enqueue
<1>2. mode = "ready" /\ mode' = "ready" /\ returned' = returned /\ it' = it /\ stale' = stale
    BY DEF Enqueue
<1>3. order \in Seq(Place) /\ Len(order) \in Nat
    BY DEF QInv, QueueTypeOK
<1>4. /\ order' \in Seq(Place) /\ Len(order') = Len(order) + 1
      /\ order'[Len(order) + 1] = p /\ \A i \in 1..Len(order) : order'[i] = order[i]
    BY <1>1, <1>3
<1>5. DOMAIN node' = DOMAIN node \cup {p} /\ DOMAIN node' \subseteq Place
    BY <1>1 DEF linked, QInv, QueueTypeOK
<1>6. /\ q.tail = IF order = <<>> THEN Nil ELSE order[Len(order)]
      /\ q.head = IF order = <<>> THEN Nil ELSE order[1]
      /\ \A i \in 1..Len(order) : order[i] \in DOMAIN node
    BY <1>2 DEF QInv, ListExact, ListLinked, NodesOwned
<1>7. QueueTypeOK'
  <2>1. \A o \in DOMAIN node' : node'[o] \in Node
    <3> TAKE o \in DOMAIN node'
    <3>1. q.tail \in Place \cup {Nil} /\ p \in Place
        BY <1>1 DEF QInv, QueueTypeOK
    <3>2. CASE o = p
        BY <1>1, <1>5, <3>1, <3>2 DEF linked, fresh, Node
    <3>3. CASE o # p
      <4>1. node[o] \in Node
          BY <1>5, <3>3 DEF QInv, QueueTypeOK
      <4>2. node'[o] = IF o = q.tail THEN [node[o] EXCEPT !.next = p] ELSE node[o]
          BY <1>1, <1>5, <3>3 DEF linked
      <4> QED BY <3>1, <4>1, <4>2 DEF Node
    <3> QED BY <3>2, <3>3
  <2>2. q' \in [size : Nat, head : Place \cup {Nil}, tail : Place \cup {Nil}]
      BY <1>1 DEF QInv, QueueTypeOK
  <2>3. due' \in Seq(Value)
      BY DEF Enqueue, QInv, QueueTypeOK
  <2>4. q'.size = Len(order')
      BY <1>1, <1>2, <1>4 DEF QInv, QueueTypeOK
  <2> QED BY <1>2, <1>4, <1>5, <2>1, <2>2, <2>3, <2>4 DEF QInv, QueueTypeOK
<1>8. NodesOwned'
  <2>1. \A i \in 1..Len(order') : \/ i = Len(order) + 1 /\ order'[i] = p
                                  \/ i \in 1..Len(order) /\ order'[i] = order[i]
    <3> TAKE i \in 1..Len(order')
    <3> QED BY <1>3, <1>4
  <2>2. DOMAIN node' = {order'[i] : i \in 1..Len(order')}
    <3>1. DOMAIN node = {order[i] : i \in 1..Len(order)}
        BY DEF QInv, ListExact, NodesOwned
    <3>2. Len(order) + 1 \in 1..Len(order') /\ 1..Len(order) \subseteq 1..Len(order')
        BY <1>3, <1>4
    <3> QED BY <1>4, <1>5, <2>1, <3>1, <3>2
  <2>3. \A i, j \in 1..Len(order') : order'[i] = order'[j] => i = j
      BY <1>1, <1>6, <2>1 DEF QInv, ListExact, NodesOwned
  <2> QED BY <2>2, <2>3 DEF NodesOwned
<1>9. ListLinked'
  <2>1. \A i \in 1..Len(order) : order[i] = q.tail <=> i = Len(order)
    <3>1. \A i, j \in 1..Len(order) : order[i] = order[j] => i = j
        BY DEF QInv, ListExact, NodesOwned
    <3> QED BY <1>3, <1>6, <3>1
  <2>2. \A i \in 1..Len(order) :
            /\ node'[order[i]].next = IF i = Len(order) THEN p ELSE order[i + 1]
            /\ node'[order[i]].prev = node[order[i]].prev
    <3> TAKE i \in 1..Len(order)
    <3>1. order[i] \in DOMAIN node /\ order[i] # p
        BY <1>1, <1>6
    <3>2. node[order[i]] \in Node
        BY <3>1 DEF QInv, QueueTypeOK
    <3>3. node'[order[i]] = IF i = Len(order) THEN [node[order[i]] EXCEPT !.next = p]
                                              ELSE node[order[i]]
        BY <1>1, <2>1, <3>1 DEF linked
    <3>4. node[order[i]].next = IF i = Len(order) THEN Nil ELSE order[i + 1]
        BY DEF QInv, ListExact, ListLinked
    <3> QED BY <3>2, <3>3, <3>4 DEF Node
  <2>3. node'[p] = [value |-> v, next |-> Nil, prev |-> q.tail]
      BY <1>1 DEF linked, fresh
  <2>4. order' # <<>>
      BY <1>3, <1>4
  <2>5. q'.head = order'[1]
    <3>1. CASE order = <<>>
        BY <1>1, <1>3, <1>4, <1>6, <3>1
    <3>2. CASE order # <<>>
      <4>1. q.tail \in Place
          BY <1>3, <1>6, <3>2
      <4>2. q.tail # Nil
          BY <4>1, QueueAssumption
      <4> QED BY <1>1, <1>3, <1>4, <1>6, <3>2, <4>2
    <3> QED BY <3>1, <3>2
  <2>6. ASSUME NEW i \in 1..Len(order')
        PROVE  /\ node'[order'[i]].next = IF i = Len(order') THEN Nil ELSE order'[i + 1]
               /\ i > 1 => node'[order'[i]].prev = order'[i - 1]
    <3>1. CASE i \in 1..Len(order)
      <4>1. i > 1 => node[order[i]].prev = order[i - 1]
          BY <3>1 DEF QInv, ListExact, ListLinked
      <4>2. i > 1 => node'[order'[i]].prev = order'[i - 1]
          BY <1>3, <1>4, <2>2, <3>1, <4>1
      <4>3. node'[order'[i]].next = order'[i + 1]
          BY <1>3, <1>4, <2>2, <3>1
      <4> QED BY <1>3, <1>4, <3>1, <4>2, <4>3
    <3>2. CASE i = Len(order) + 1
      <4>1. i > 1 => q.tail = order'[i - 1]
          BY <1>3, <1>4, <1>6, <3>2
      <4> QED BY <1>4, <2>3, <3>2, <4>1
    <3> QED BY <1>3, <1>4, <3>1, <3>2
  <2>7. node'[order'[1]].prev = Nil
    <3>1. CASE order = <<>>
        BY <1>3, <1>4, <1>6, <2>3, <3>1
    <3>2. CASE order # <<>>
      <4>1. node[order[1]].prev = Nil /\ 1 \in 1..Len(order)
          BY <1>2, <1>3, <3>2 DEF QInv, ListExact, ListLinked
      <4> QED BY <1>4, <2>2, <4>1
    <3> QED BY <3>1, <3>2
  <2>8. q'.tail = order'[Len(order')]
      BY <1>1, <1>4
  <2> QED BY <2>4, <2>5, <2>6, <2>7, <2>8 DEF ListLinked
<1>10. values' = Append(values, v)
  <2>1. \A o \in DOMAIN node : node'[o].value = node[o].value
    <3> TAKE o \in DOMAIN node
    <3>1. node[o] \in Node /\ o # p
        BY <1>1 DEF QInv, QueueTypeOK
    <3>2. node'[o] = IF o = q.tail THEN [node[o] EXCEPT !.next = p] ELSE node[o]
        BY <1>1, <3>1 DEF linked
    <3> QED BY <3>1, <3>2 DEF Node
  <2>2. node'[p].value = v
      BY <1>1 DEF linked, fresh
  <2>3. values' \in Seq(Value) /\ Len(values') = Len(order) + 1
    <3>1. \A i \in 1..Len(order') : node'[order'[i]].value \in Value
        BY <1>7, <1>8 DEF QueueTypeOK, NodesOwned, Node
    <3> QED BY <1>3, <1>4, <3>1 DEF values
  <2>4. \A i \in 1..(Len(order) + 1) : values'[i] = IF i = Len(order) + 1 THEN v ELSE values[i]
    <3> TAKE i \in 1..(Len(order) + 1)
    <3>1. values'[i] = node'[order'[i]].value
        BY <1>4 DEF values
    <3>2. CASE i = Len(order) + 1
        BY <1>4, <2>2, <3>1, <3>2
    <3>3. CASE i \in 1..Len(order)
        BY <1>3, <1>4, <1>6, <2>1, <3>1, <3>3, ValuesAre
    <3> QED BY <1>3, <3>2, <3>3
  <2>5. /\ Append(values, v) \in Seq(Value) /\ Len(Append(values, v)) = Len(order) + 1
        /\ \A i \in 1..(Len(order) + 1) :
              Append(values, v)[i] = IF i = Len(order) + 1 THEN v ELSE values[i]
      BY <1>3, ValuesAre
  <2> QED BY <2>3, <2>4, <2>5, SeqEqual
<1>11. IteratorVisits'
  <2>1. CASE stale
      BY <1>2, <2>1 DEF IteratorVisits
  <2>2. CASE ~stale /\ it = Nil
      BY <1>2, <2>2, <1>6, QueueAssumption DEF QInv, QueueTypeOK, IteratorVisits, Enqueue, usable
  <2>3. CASE usable
    <3>1. PICK i \in 1..Len(order) : it = order[i] /\ due = SubSeq(values, i, Len(order))
        BY <2>3 DEF usable, QInv, IteratorVisits
    <3>2. due' = Append(due, v)
        BY <2>3 DEF Enqueue
    <3>3. due' = SubSeq(values', i, Len(order'))
        BY <1>4, <1>10, <3>1, <3>2, ValuesAre, SuffixOfAppend
    <3>4. i \in 1..Len(order') /\ it' = order'[i]
        BY <1>2, <1>3, <1>4, <3>1
    <3> QED BY <3>3, <3>4 DEF IteratorVisits
  <2> QED BY <2>1, <2>2, <2>3 DEF usable
<1> QED BY <1>7, <1>8, <1>9, <1>10, <1>11 DEF QInv, ListExact

(* The first node is deleted and forgotten: the list behind it stays, and  *)
(* so does every iterator that does not stand on it.                       *)
LEMMA HeadTaken ==
    ASSUME QInv, q.head # Nil,
           order' = Tail(order), q'.head = node[q.head].next, it' = it, lost(q.head),
           DOMAIN node' = DOMAIN without(q.head),
           \A o \in DOMAIN node' :
               /\ node'[o] \in Node
               /\ node'[o].value = node[o].value /\ node'[o].next = node[o].next
               /\ o # node[q.head].next => node'[o].prev = node[o].prev
    PROVE  /\ NodesOwned' /\ IteratorVisits' /\ values' = Tail(values)
           /\ order' \in Seq(Place) /\ due' \in Seq(Value) /\ stale' \in BOOLEAN
           /\ DOMAIN node' \subseteq Place
           /\ q'.head \in Place \cup {Nil}
           /\ Len(order') = Len(order) - 1
           /\ q'.head = IF order' = <<>> THEN Nil ELSE order'[1]
           /\ \A i \in 1..Len(order') :
                 /\ node'[order'[i]].next = IF i = Len(order') THEN Nil ELSE order'[i + 1]
                 /\ i > 1 => node'[order'[i]].prev = order'[i - 1]
<1>1. /\ order \in Seq(Place) /\ Len(order) \in Nat \ {0} /\ order # <<>>
      /\ \A i, j \in 1..Len(order) : order[i] = order[j] => i = j
    BY TailOfOrder DEF QInv, QueueTypeOK, ListExact, NodesOwned
<1>2. /\ order' \in Seq(Place) /\ Len(order') = Len(order) - 1
      /\ \A i \in 1..Len(order') : order'[i] = order[i + 1]
    BY TailOfOrder
<1>3. DOMAIN node' = {order'[i] : i \in 1..Len(order')}
  <2>1. DOMAIN without(q.head) = {Tail(order)[i] : i \in 1..Len(Tail(order))}
      BY TailOfOrder
  <2>2. order' = Tail(order) /\ DOMAIN node' = DOMAIN without(q.head)
      OBVIOUS
  <2> QED BY <2>1, <2>2
<1>4. NodesOwned'
  <2>1. \A i, j \in 1..Len(order') : order'[i] = order'[j] => i = j
      BY <1>1, <1>2
  <2> QED BY <1>3, <2>1 DEF NodesOwned
<1>5. q'.head = IF order' = <<>> THEN Nil ELSE order'[1]
  <2>1. node[q.head].next = IF Len(order) = 1 THEN Nil ELSE order[2]
      BY TailOfOrder
  <2>2. CASE Len(order) = 1
    <3>1. order' = <<>>
        BY <1>2, <2>2, EmptySeq
    <3> QED BY <2>1, <2>2, <3>1
  <2>3. CASE Len(order) # 1
    <3>1. Len(order') \in Nat \ {0}
        BY <1>1, <1>2, <2>3
    <3>2. order' # <<>> /\ 1 \in 1..Len(order')
      <4>1. Len(<<>>) = 0
          BY EmptySeq
      <4>2. order' # <<>>
          BY <3>1, <4>1, Zenon
      <4> QED BY <3>1, <4>2
    <3>3. order'[1] = order[2]
        BY <1>2, <3>2
    <3> QED BY <2>1, <2>3, <3>2, <3>3
  <2> QED BY <2>2, <2>3
<1>6. ASSUME NEW i \in 1..Len(order')
      PROVE  /\ node'[order'[i]].next = IF i = Len(order') THEN Nil ELSE order'[i + 1]
             /\ i > 1 => node'[order'[i]].prev = order'[i - 1]
  <2>1. i + 1 \in 1..Len(order) /\ order'[i] = order[i + 1] /\ order'[i] \in DOMAIN node'
      BY <1>1, <1>2, <1>3
  <2>2. node[order[i + 1]].next = IF i + 1 = Len(order) THEN Nil ELSE order[i + 2]
      BY <1>1, <2>1 DEF QInv, ListExact, ListLinked
  <2>3. node'[order'[i]].next = IF i = Len(order') THEN Nil ELSE order'[i + 1]
      BY <1>1, <1>2, <2>1, <2>2
  <2>4. ASSUME i > 1 PROVE node'[order'[i]].prev = order'[i - 1]
    <3>1. order'[i] # node[q.head].next
        BY <1>1, <1>2, <2>1, <2>4, TailOfOrder
    <3>2. node[order[i + 1]].prev = order[i]
        BY <1>1, <2>1, <2>4 DEF QInv, ListExact, ListLinked
    <3>3. order'[i - 1] = order[i]
        BY <1>1, <1>2, <2>4
    <3> QED BY <2>1, <3>1, <3>2, <3>3
  <2> QED BY <2>3, <2>4
<1>7. values' = Tail(values)
  <2>1. /\ values \in Seq(Value) /\ Len(values) = Len(order) /\ values # <<>>
        /\ \A i \in 1..Len(order) : values[i] = node[order[i]].value
      BY <1>1, ValuesAre
  <2>2. /\ Tail(values) \in Seq(Value) /\ Len(Tail(values)) = Len(order')
        /\ \A i \in 1..Len(order') : Tail(values)[i] = values[i + 1]
      BY <1>2, <2>1, HeadTailProperties
  <2>3. \A i \in 1..Len(order') : node'[order'[i]].value = values[i + 1]
    <3> TAKE i \in 1..Len(order')
    <3>1. order'[i] \in DOMAIN node' /\ order'[i] = order[i + 1] /\ i + 1 \in 1..Len(order)
        BY <1>1, <1>2, <1>3
    <3> QED BY <2>1, <3>1
  <2>4. /\ values' \in Seq(Value) /\ Len(values') = Len(order')
        /\ \A i \in 1..Len(order') : values'[i] = values[i + 1]
    <3>1. \A i \in 1..Len(order') : node'[order'[i]].value \in Value
        BY <1>3 DEF Node
    <3>2. values' = [i \in 1..Len(order') |-> node'[order'[i]].value]
        BY DEF values
    <3>3. Len(order') \in Nat
        BY <1>2
    <3>4. values' \in Seq(Value) /\ Len(values') = Len(order')
        BY <3>1, <3>2, <3>3
    <3>5. \A i \in 1..Len(order') : values'[i] = values[i + 1]
        BY <2>3, <3>2
    <3> QED BY <3>4, <3>5
  <2> QED BY <2>2, <2>4, SeqEqual
<1>8. IteratorVisits' /\ due' \in Seq(Value) /\ stale' \in BOOLEAN
  <2>1. CASE it = q.head
      BY <2>1 DEF lost, IteratorVisits
  <2>2. CASE it # q.head
    <3>1. UNCHANGED <<stale, due, it>>
        BY <2>2 DEF lost
    <3>2. CASE stale \/ (it = Nil /\ due = <<>>)
        BY <3>1, <3>2 DEF IteratorVisits, QInv, QueueTypeOK
    <3>3. CASE ~stale /\ ~(it = Nil /\ due = <<>>)
      <4>1. PICK i \in 1..Len(order) : it = order[i] /\ due = SubSeq(values, i, Len(order))
          BY <3>3 DEF QInv, IteratorVisits
      <4>2. i \in 2..Len(order) /\ i - 1 \in 1..Len(order')
          BY <1>1, <1>2, <2>2, <4>1, TailOfOrder
      <4>3. order'[i - 1] = it'
          BY <1>2, <3>1, <4>1, <4>2
      <4>4. due' = SubSeq(values', i - 1, Len(order'))
          BY <1>2, <1>7, <3>1, <4>1, <4>2, ValuesAre, SuffixOfTail
      <4>5. IteratorVisits'
          BY <4>2, <4>3, <4>4 DEF IteratorVisits
      <4> QED BY <3>1, <4>5 DEF QInv, QueueTypeOK
    <3> QED BY <3>2, <3>3
  <2> QED BY <2>1, <2>2
<1>9. DOMAIN node' \subseteq Place
    BY DEF without, QInv, QueueTypeOK
<1>10. q'.head \in Place \cup {Nil}
    BY TailOfOrder DEF QInv, QueueTypeOK, Node
<1> QED BY <1>2, <1>4, <1>5, <1>6, <1>7, <1>8, <1>9, <1>10

LEMMA DequeueStep ==
    ASSUME QInv, Dequeue
    PROVE  QInv' /\ values # <<>> /\ values' = Tail(values) /\ returned' = Head(values)
<1> DEFINE next == node[q.head].next
<1>1. /\ mode = "ready" /\ mode' = "ready" /\ q.head # Nil /\ it' = it
      /\ order' = Tail(order) /\ lost(q.head) /\ returned' = node[q.head].value
      /\ q' = [size |-> q.size - 1, head |-> next, tail |-> tailAfter(next)]
      /\ node' = [o \in DOMAIN without(q.head) |->
                      IF o = next THEN [node[o] EXCEPT !.prev = Nil] ELSE node[o]]
    BY DEF Dequeue
<1>2. ASSUME NEW o \in DOMAIN node'
      PROVE  /\ node'[o] \in Node
             /\ node'[o].value = node[o].value /\ node'[o].next = node[o].next
             /\ o # next => node'[o].prev = node[o].prev
             /\ o = next => node'[o].prev = Nil
  <2>1. node[o] \in Node
      BY <1>1 DEF without, QInv, QueueTypeOK
  <2>2. node'[o] = IF o = next THEN [node[o] EXCEPT !.prev = Nil] ELSE node[o]
      BY <1>1
  <2> QED BY <2>1, <2>2 DEF Node
<1>3. DOMAIN node' = DOMAIN without(q.head) /\ q'.head = next
    BY <1>1
<1>4. /\ NodesOwned' /\ IteratorVisits' /\ values' = Tail(values)
      /\ order' \in Seq(Place) /\ due' \in Seq(Value) /\ stale' \in BOOLEAN
      /\ DOMAIN node' \subseteq Place
      /\ q'.head \in Place \cup {Nil}
      /\ Len(order') = Len(order) - 1
      /\ q'.head = IF order' = <<>> THEN Nil ELSE order'[1]
      /\ \A i \in 1..Len(order') :
            /\ node'[order'[i]].next = IF i = Len(order') THEN Nil ELSE order'[i + 1]
            /\ i > 1 => node'[order'[i]].prev = order'[i - 1]
    BY <1>1, <1>2, <1>3, HeadTaken
<1>5. order \in Seq(Place) /\ Len(order) \in Nat \ {0} /\ q.head = order[1] /\ q.head \in DOMAIN node
    BY <1>1, TailOfOrder DEF QInv, QueueTypeOK
<1>6. values # <<>> /\ returned' = Head(values) /\ returned' \in Value
  <2>1. values[1] = node[order[1]].value /\ Len(values) = Len(order) /\ values \in Seq(Value)
      BY <1>5, ValuesAre
  <2> QED BY <1>1, <1>5, <2>1
<1>7. q.tail = order[Len(order)] /\ q.size = Len(order)
    BY <1>1, <1>5 DEF QInv, QueueTypeOK, ListExact, ListLinked
<1>8. q'.tail = IF order' = <<>> THEN Nil ELSE order'[Len(order')]
  <2>1. CASE order' = <<>>
      BY <1>1, <1>3, <1>4, <2>1 DEF tailAfter
  <2>2. CASE order' # <<>>
    <3>1. Len(order') \in 1..Len(order') /\ order'[1] \in Place
        BY <1>4, <1>5, <2>2
    <3>2. next # Nil
        BY <1>3, <1>4, <2>2, <3>1, QueueAssumption
    <3>3. order'[Len(order')] = order[Len(order)]
        BY <1>1, <1>4, <1>5, <3>1, TailOfOrder
    <3> QED BY <1>1, <1>7, <2>2, <3>2, <3>3 DEF tailAfter
  <2> QED BY <2>1, <2>2
<1>9. order' # <<>> => node'[order'[1]].prev = Nil
  <2> SUFFICES ASSUME order' # <<>> PROVE node'[order'[1]].prev = Nil
      OBVIOUS
  <2>1. 1 \in 1..Len(order') /\ order'[1] = next
      BY <1>3, <1>4
  <2>2. order'[1] \in DOMAIN node'
      BY <1>4, <2>1 DEF NodesOwned
  <2> QED BY <1>2, <2>1, <2>2
<1>10. ListLinked'
    BY <1>1, <1>4, <1>8, <1>9 DEF ListLinked
<1>11. QueueTypeOK'
  <2>1. q'.tail \in Place \cup {Nil} /\ q'.size = Len(order') /\ q'.size \in Nat
    <3>1. q'.tail \in Place \cup {Nil}
        BY <1>4, <1>8
    <3> QED BY <1>1, <1>4, <1>5, <1>7, <3>1
  <2>2. q' \in [size : Nat, head : Place \cup {Nil}, tail : Place \cup {Nil}]
      BY <1>1, <1>3, <1>4, <2>1
  <2>3. it' \in Place \cup {Nil}
      BY <1>1 DEF QInv, QueueTypeOK
  <2> QED BY <1>1, <1>2, <1>4, <1>6, <2>1, <2>2, <2>3 DEF QueueTypeOK
<1> QED BY <1>4, <1>6, <1>10, <1>11 DEF QInv, ListExact

LEMMA ClearNodeStep == ASSUME QInv, ClearNode PROVE QInv'
<1>1. /\ mode \in {"clearing", "dying"} /\ mode' = mode /\ q.head # Nil /\ it' = it
      /\ order' = Tail(order) /\ lost(q.head) /\ returned' = returned
      /\ q' = [q EXCEPT !.head = node[q.head].next]
      /\ node' = without(q.head)
    BY DEF ClearNode
<1>2. \A o \in DOMAIN node' :
          /\ node'[o] \in Node
          /\ node'[o].value = node[o].value /\ node'[o].next = node[o].next
          /\ o # node[q.head].next => node'[o].prev = node[o].prev
    BY <1>1 DEF without, QInv, QueueTypeOK
<1>3. DOMAIN node' = DOMAIN without(q.head) /\ q'.head = node[q.head].next
    BY <1>1 DEF QInv, QueueTypeOK
<1>4. /\ NodesOwned' /\ IteratorVisits'
      /\ order' \in Seq(Place) /\ due' \in Seq(Value) /\ stale' \in BOOLEAN
      /\ DOMAIN node' \subseteq Place
      /\ q'.head \in Place \cup {Nil}
      /\ q'.head = IF order' = <<>> THEN Nil ELSE order'[1]
      /\ \A i \in 1..Len(order') :
            /\ node'[order'[i]].next = IF i = Len(order') THEN Nil ELSE order'[i + 1]
            /\ i > 1 => node'[order'[i]].prev = order'[i - 1]
    BY <1>1, <1>2, <1>3, HeadTaken
<1>5. ListLinked'
    BY <1>1, <1>4 DEF ListLinked
<1>6. q' \in [size : Nat, head : Place \cup {Nil}, tail : Place \cup {Nil}]
    BY <1>1, <1>3, <1>4 DEF QInv, QueueTypeOK
<1>7. QueueTypeOK'
    BY <1>1, <1>2, <1>4, <1>6 DEF QInv, QueueTypeOK
<1> QED BY <1>4, <1>5, <1>7 DEF QInv, ListExact

(* The other steps leave the nodes alone.                                  *)
LEMMA EmptyList ==
    ASSUME QInv, q.head = Nil
    PROVE  order = <<>> /\ values = <<>>
<1>1. order = <<>>
  <2>1. order # <<>> => order[1] \in Place
      BY DEF QInv, QueueTypeOK
  <2> QED BY <2>1, QueueAssumption DEF QInv, ListExact, ListLinked
<1>2. values \in Seq(Value) /\ Len(values) = 0
    BY <1>1, ValuesAre, EmptySeq
<1> QED BY <1>1, <1>2, EmptySeq

LEMMA SameList ==
    ASSUME QInv, UNCHANGED <<node, order, returned, it, due, stale>>,
           q'.head = q.head, q' \in [size : Nat, head : Place \cup {Nil}, tail : Place \cup {Nil}],
           mode' \in {"absent", "ready", "clearing", "dying"},
           mode' \in {"absent", "ready"} =>
               /\ q'.size = Len(order)
               /\ q'.tail = IF order = <<>> THEN Nil ELSE order[Len(order)]
               /\ order # <<>> => node[order[1]].prev = Nil,
           mode' = "absent" => order = <<>>
    PROVE  QInv' /\ values' = values
<1>1. QueueTypeOK'
    BY DEF QInv, QueueTypeOK
<1>2. ListExact'
    BY DEF QInv, ListExact, NodesOwned, ListLinked
<1>3. values' = values
    BY DEF values
<1>4. IteratorVisits'
    BY <1>3 DEF QInv, IteratorVisits
<1> QED BY <1>1, <1>2, <1>3, <1>4 DEF QInv

LEMMA ConstructStep == ASSUME QInv, ConstructQueue PROVE QInv' /\ values = <<>> /\ values' = values
<1>1. order = <<>> /\ mode = "absent"
    BY DEF ConstructQueue, QInv, QueueTypeOK
<1>2. q.head = Nil
    BY <1>1 DEF QInv, ListExact, ListLinked
<1>3. values = <<>>
    BY <1>2, EmptyList
<1>4. /\ q' = EmptyQueue /\ mode' = "ready"
      /\ UNCHANGED <<node, order, returned, it, due, stale>>
    BY DEF ConstructQueue
<1> QED BY <1>1, <1>2, <1>3, <1>4, EmptySeq, SameList DEF EmptyQueue

LEMMA ClearStep ==
    ASSUME QInv, BeginClear \/ EndClear
    PROVE  QInv' /\ values' = values /\ (EndClear => values = <<>>)
<1>1. CASE BeginClear
  <2>1. /\ mode' \in {"clearing", "dying"} /\ q' = q /\ mode = "ready"
        /\ UNCHANGED <<node, order, returned, it, due, stale>>
      BY <1>1 DEF BeginClear
  <2>2. q \in [size : Nat, head : Place \cup {Nil}, tail : Place \cup {Nil}]
      BY DEF QInv, QueueTypeOK
  <2> QED BY <2>1, <2>2, SameList DEF EndClear
<1>2. CASE EndClear
  <2>1. /\ q.head = Nil /\ q' = [q EXCEPT !.size = 0, !.tail = Nil] /\ mode' \in {"absent", "ready"}
        /\ UNCHANGED <<node, order, returned, it, due, stale>>
      BY <1>2 DEF EndClear, allCleared
  <2>2. order = <<>> /\ values = <<>>
      BY <2>1, EmptyList
  <2>3. /\ q' \in [size : Nat, head : Place \cup {Nil}, tail : Place \cup {Nil}]
        /\ q'.head = q.head /\ q'.size = 0 /\ q'.tail = Nil
      BY <2>1 DEF QInv, QueueTypeOK
  <2> QED BY <2>1, <2>2, <2>3, EmptySeq, SameList
<1> QED BY <1>1, <1>2

LEMMA IteratorStep ==
    ASSUME QInv, Begin \/ Advance
    PROVE  QInv' /\ values' = values
<1>1. UNCHANGED <<q, node, mode, returned, order>>
    BY DEF Begin, Advance
<1>2. values' = values
    BY <1>1 DEF values
<1>3. /\ order \in Seq(Place) /\ Len(order) \in Nat
      /\ values \in Seq(Value) /\ Len(values) = Len(order)
    BY ValuesAre DEF QInv, QueueTypeOK
<1>4. IteratorVisits' /\ due' \in Seq(Value) /\ stale' \in BOOLEAN /\ it' \in Place \cup {Nil}
  <2>1. CASE Begin
    <3>1. it' = q.head /\ due' = values /\ stale' = FALSE
        BY <2>1 DEF Begin
    <3>2. CASE q.head = Nil
        BY <1>3, <3>1, <3>2, EmptyList DEF IteratorVisits
    <3>3. CASE q.head # Nil
      <4>1. order # <<>> /\ q.head = order[1] /\ 1 \in 1..Len(order)
          BY <1>3, <3>3, TailOfOrder
      <4>2. values = SubSeq(values, 1, Len(order))
          BY <1>3, SubSeqFull
      <4>3. IteratorVisits'
          BY <1>1, <1>2, <3>1, <4>1, <4>2 DEF IteratorVisits
      <4>4. q.head \in Place
          BY <1>3, <4>1
      <4> QED BY <1>3, <3>1, <4>3, <4>4
    <3> QED BY <3>2, <3>3
  <2>2. CASE Advance
    <3>1. it' = node[it].next /\ due' = Tail(due) /\ usable /\ stale' = stale
        BY <2>2 DEF Advance
    <3>2. PICK i \in 1..Len(order) : it = order[i] /\ due = SubSeq(values, i, Len(order))
        BY <3>1 DEF usable, QInv, IteratorVisits
    <3>3. node[it].next = IF i = Len(order) THEN Nil ELSE order[i + 1]
        BY <3>2 DEF QInv, ListExact, ListLinked
    <3>4. i \in 1..Len(values) /\ Len(order) \in i..Len(values)
        BY <1>3
    <3>5. due' = SubSeq(values, i + 1, Len(order))
        BY <1>3, <3>1, <3>2, <3>4, HeadTailOfSubSeq
    <3>6. CASE i = Len(order)
      <4>1. due' = <<>>
          BY <1>3, <3>5, <3>6, SubSeqEmpty
      <4>2. it' = Nil
          BY <3>1, <3>3, <3>6
      <4>3. IteratorVisits'
          BY <4>1, <4>2 DEF IteratorVisits
      <4>4. due' \in Seq(Value)
          BY <4>1, EmptySeq
      <4> QED BY <3>1, <4>2, <4>3, <4>4 DEF QInv, QueueTypeOK
    <3>7. CASE i # Len(order)
      <4>1. i + 1 \in 1..Len(order) /\ it' = order[i + 1]
          BY <1>3, <3>1, <3>3, <3>7
      <4>2. IteratorVisits'
          BY <1>1, <1>2, <3>5, <4>1 DEF IteratorVisits
      <4>3. \A j \in (i + 1)..Len(order) : values[j] \in Value
          BY <1>3
      <4>4. due' \in Seq(Value)
          BY <1>3, <3>5, <4>3, SubSeqProperties
      <4> QED BY <1>3, <3>1, <4>1, <4>2, <4>4 DEF QInv, QueueTypeOK
    <3> QED BY <3>6, <3>7
  <2> QED BY <2>1, <2>2
<1>5. QueueTypeOK'
    BY <1>1, <1>4 DEF QInv, QueueTypeOK
<1>6. ListExact'
    BY <1>1 DEF QInv, ListExact, NodesOwned, ListLinked
<1> QED BY <1>2, <1>4, <1>5, <1>6 DEF QInv

(* What no step changes.                                                   *)
LEMMA QueueStutters == QInv /\ UNCHANGED qvars => QInv' /\ values' = values
<1> SUFFICES ASSUME QInv, UNCHANGED qvars PROVE QInv' /\ values' = values
    OBVIOUS
<1>1. values' = values
    BY DEF qvars, values
<1> QED BY <1>1 DEF qvars, QInv, QueueTypeOK, ListExact, NodesOwned, ListLinked, IteratorVisits

LEMMA QueueStep == QInv /\ [QNext]_qvars => QInv'
<1> SUFFICES ASSUME QInv, [QNext]_qvars PROVE QInv'
    OBVIOUS
<1>1. ASSUME NEW v \in Value, Enqueue(v) PROVE QInv'
    BY <1>1, EnqueueStep
<1>2. CASE Dequeue
    BY <1>2, DequeueStep
<1>3. CASE ClearNode
    BY <1>3, ClearNodeStep
<1>4. CASE ConstructQueue
    BY <1>4, ConstructStep
<1>5. CASE BeginClear \/ EndClear
    BY <1>5, ClearStep
<1>6. CASE Begin \/ Advance
    BY <1>6, IteratorStep
<1>7. CASE UNCHANGED qvars
    BY <1>7, QueueStutters
<1> QED BY <1>1, <1>2, <1>3, <1>4, <1>5, <1>6, <1>7 DEF QNext

LEMMA QInvHolds == QSpec => []QInv
BY QueueInitially, QueueStep, PTL DEF QSpec

(* Whatever is put in, taken out, cleared and gone through: the nodes      *)
(* allocated are those linked from head to tail, each once, in both        *)
(* directions.                                                             *)
THEOREM ListIsExact == QSpec => []ListExact
<1>1. QInv => ListExact
    BY DEF QInv
<1> QED BY QInvHolds, <1>1, PTL

(* The links and iterators lead to addresses or nowhere, and between the   *)
(* operations the size is the number of nodes.                             *)
THEOREM QueueTyped == QSpec => []QueueTypeOK
<1>1. QInv => QueueTypeOK
    BY DEF QInv
<1> QED BY QInvHolds, <1>1, PTL

(* An iterator whose node was not deleted has before it exactly what it    *)
(* has yet to visit.                                                       *)
THEOREM IteratorsVisitAll == QSpec => []IteratorVisits
<1>1. QInv => IteratorVisits
    BY DEF QInv
<1> QED BY QInvHolds, <1>1, PTL

(* Values leave in the order they came in: each step of the queue is one   *)
(* of Fifo's or none.                                                      *)
THEOREM QueueIsFifo == QSpec => ImplementsFifo
<1> DEFINE items == IF mode = "ready" THEN values ELSE <<>>
<1>1. QInit => FifoView!FInit
    BY DEF QInit, FifoView!FInit
<1>2. QInv /\ [QNext]_qvars => [FifoView!FNext]_FifoView!fvars
  <2> SUFFICES ASSUME QInv, [QNext]_qvars PROVE [FifoView!FNext]_FifoView!fvars
      OBVIOUS
  <2> USE DEF FifoView!FNext, FifoView!fvars
  <2>1. ASSUME NEW v \in Value, Enqueue(v) PROVE FifoView!Put(v)
    <3>1. values' = Append(values, v)
        BY <2>1, EnqueueStep
    <3> QED BY <2>1, <3>1 DEF Enqueue, FifoView!Put
  <2>2. CASE Dequeue
    <3>1. values # <<>> /\ values' = Tail(values) /\ returned' = Head(values)
        BY <2>2, DequeueStep
    <3>2. FifoView!Take
        BY <2>2, <3>1 DEF Dequeue, FifoView!Take
    <3> QED BY <3>2
  <2>3. CASE ClearNode
      BY <2>3 DEF ClearNode
  <2>4. CASE ConstructQueue
    <3>1. values = <<>> /\ values' = values
        BY <2>4, ConstructStep
    <3> QED BY <2>4, <3>1 DEF ConstructQueue
  <2>5. CASE BeginClear
    <3>1. FifoView!DropAll
        BY <2>5 DEF BeginClear, FifoView!DropAll
    <3> QED BY <3>1
  <2>6. CASE EndClear
    <3>1. values = <<>> /\ values' = values
        BY <2>6, ClearStep
    <3> QED BY <2>6, <3>1 DEF EndClear
  <2>7. CASE Begin \/ Advance
    <3>1. values' = values
        BY <2>7, IteratorStep
    <3> QED BY <2>7, <3>1 DEF Begin, Advance
  <2>8. CASE UNCHANGED qvars
    <3>1. values' = values
        BY <2>8, QueueStutters
    <3> QED BY <2>8, <3>1 DEF qvars
  <2> QED BY <2>1, <2>2, <2>3, <2>4, <2>5, <2>6, <2>7, <2>8 DEF QNext
<1> QED BY <1>1, <1>2, QInvHolds, PTL DEF QSpec, ImplementsFifo, FifoView!FSpec
=============================================================================
