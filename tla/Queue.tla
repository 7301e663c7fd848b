-------------------------------- MODULE Queue --------------------------------
(***************************************************************************)
(* ministl::queue (kernel/kstl/Queue.h): a doubly linked list of nodes on  *)
(* the heap.  clear() and the destructor delete node by node, one step     *)
(* each.  An iterator holds the address of a node and is told nothing when *)
(* that node is deleted, and its address handed out again.                 *)
(*                                                                         *)
(* Clients do not take from an empty queue (dequeue() asserts) nor use an  *)
(* iterator whose node they had deleted.  operator new does not fail.      *)
(***************************************************************************)
EXTENDS Integers, Sequences

CONSTANTS
    Value,
    Place,      \* addresses new Node may return; their number bounds the queue
    Nil,        \* nullptr
    None        \* no value was returned yet

ASSUME QueueAssumption == Nil \notin Place

VARIABLES
    q,          \* _size, head, tail
    node,       \* the nodes allocated, by address
    mode,       \* "absent", "ready", or which loop of clear() runs
    returned,   \* what the last dequeue() returned
    it,         \* the node an iterator stands on
    order,      \* history: the nodes in the order their values came
    due,        \* history: the values the iterator has yet to visit
    stale       \* history: the iterator's node was deleted under it

qvars == <<q, node, mode, returned, it, order, due, stale>>

Node == [value : Value, next : Place \cup {Nil}, prev : Place \cup {Nil}]

(* Types; outside of clear()'s loop _size counts the nodes, and there are  *)
(* none without a queue.                                                   *)
QueueTypeOK ==
    /\ q \in [size : Nat, head : Place \cup {Nil}, tail : Place \cup {Nil}]
    /\ DOMAIN node \subseteq Place
    /\ \A p \in DOMAIN node : node[p] \in Node
    /\ mode \in {"absent", "ready", "clearing", "dying"}
    /\ returned \in Value \cup {None}
    /\ it \in Place \cup {Nil}
    /\ order \in Seq(Place) /\ due \in Seq(Value)
    /\ stale \in BOOLEAN
    /\ mode \in {"absent", "ready"} => q.size = Len(order)
    /\ mode = "absent" => order = <<>>

EmptyQueue == [size |-> 0, head |-> Nil, tail |-> Nil]
fresh(v)   == [value |-> v, next |-> Nil, prev |-> Nil]
without(p) == [o \in DOMAIN node \ {p} |-> node[o]]

values == [i \in 1..Len(order) |-> node[order[i]].value]
usable == ~stale /\ it # Nil

QInit ==
    /\ q = EmptyQueue /\ node = <<>> /\ mode = "absent" /\ returned = None
    /\ it = Nil /\ order = <<>> /\ due = <<>> /\ stale = FALSE

(* What deleting the node p does to an iterator.                           *)
lost(p) == IF it = p THEN stale' = TRUE /\ due' = <<>>
                     ELSE UNCHANGED <<stale, due>>

-----------------------------------------------------------------------------
ConstructQueue ==
    /\ mode = "absent" /\ mode' = "ready"
    /\ q' = EmptyQueue
    /\ UNCHANGED <<node, returned, it, order, due, stale>>

(* The list with p, holding v, behind its tail.                            *)
linkedForwardOnly(p, v) ==
    [o \in DOMAIN node \cup {p} |->
        IF o = p THEN fresh(v)
        ELSE IF o = q.tail THEN [node[o] EXCEPT !.next = p] ELSE node[o]]
linked(p, v) ==
    [o \in DOMAIN node \cup {p} |->
        IF o = p THEN [fresh(v) EXCEPT !.prev = q.tail]
        ELSE IF o = q.tail THEN [node[o] EXCEPT !.next = p] ELSE node[o]]

Enqueue(v) ==
    /\ mode = "ready"
    /\ \E p \in Place \ DOMAIN node :
          /\ node' = linked(p, v)
          /\ q' = [size |-> q.size + 1, tail |-> p,
                   head |-> IF q.tail = Nil THEN p ELSE q.head]
          /\ order' = Append(order, p)
    /\ due' = IF usable THEN Append(due, v) ELSE due
    /\ UNCHANGED <<mode, returned, it, stale>>

(* The queue without its first node: forgetting tail, and as it is.        *)
tailKept(next) == q.tail
tailAfter(next) == IF next = Nil THEN Nil ELSE q.tail

Dequeue ==
    /\ mode = "ready" /\ q.head # Nil
    /\ LET next == node[q.head].next
       IN  /\ q' = [size |-> q.size - 1, head |-> next, tail |-> tailAfter(next)]
           /\ node' = [o \in DOMAIN without(q.head) |->
                          IF o = next THEN [node[o] EXCEPT !.prev = Nil] ELSE node[o]]
    /\ returned' = node[q.head].value
    /\ order' = Tail(order)
    /\ lost(q.head)
    /\ UNCHANGED <<mode, it>>

(* clear() and ~queue()                                                    *)
BeginClear ==
    /\ mode = "ready" /\ mode' \in {"clearing", "dying"}
    /\ UNCHANGED <<q, node, returned, it, order, due, stale>>

ClearNode ==
    /\ mode \in {"clearing", "dying"} /\ q.head # Nil
    /\ q' = [q EXCEPT !.head = node[q.head].next]
    /\ node' = without(q.head)
    /\ order' = Tail(order)
    /\ lost(q.head)
    /\ UNCHANGED <<mode, returned, it>>

(* A clear() that leaves _size or tail alone, and what it does.            *)
tailCleared == [q EXCEPT !.tail = Nil]
headCleared == [q EXCEPT !.size = 0]
allCleared  == [q EXCEPT !.size = 0, !.tail = Nil]

EndClear ==
    /\ mode \in {"clearing", "dying"} /\ q.head = Nil
    /\ q' = allCleared
    /\ mode' = IF mode = "dying" THEN "absent" ELSE "ready"
    /\ UNCHANGED <<node, returned, it, order, due, stale>>

(* begin() and ++                                                          *)
Begin ==
    /\ mode = "ready"
    /\ it' = q.head /\ due' = values /\ stale' = FALSE
    /\ UNCHANGED <<q, node, mode, returned, order>>

Advance ==
    /\ mode = "ready" /\ usable
    /\ it' = node[it].next /\ due' = Tail(due)
    /\ UNCHANGED <<q, node, mode, returned, order, stale>>

QNext ==
    \/ ConstructQueue \/ (\E v \in Value : Enqueue(v)) \/ Dequeue
    \/ BeginClear \/ ClearNode \/ EndClear \/ Begin \/ Advance

QSpec == QInit /\ [][QNext]_qvars
-----------------------------------------------------------------------------
(* The nodes allocated are those of the list, each once: none is leaked or *)
(* deleted while it is linked.                                             *)
NodesOwned ==
    /\ DOMAIN node = {order[i] : i \in 1..Len(order)}
    /\ \A i, j \in 1..Len(order) : order[i] = order[j] => i = j

(* next, prev, head and tail name the neighbours and the ends, except that *)
(* clear() leaves prev of the first node and tail behind.                  *)
ListLinked ==
    /\ q.head = IF order = <<>> THEN Nil ELSE order[1]
    /\ \A i \in 1..Len(order) :
          /\ node[order[i]].next = IF i = Len(order) THEN Nil ELSE order[i + 1]
          /\ i > 1 => node[order[i]].prev = order[i - 1]
    /\ mode \in {"absent", "ready"} =>
          /\ q.tail = IF order = <<>> THEN Nil ELSE order[Len(order)]
          /\ order # <<>> => node[order[1]].prev = Nil

(* The nodes allocated are exactly the list.                               *)
ListExact == NodesOwned /\ ListLinked

(* An iterator goes through what was in the queue when it began and what   *)
(* came since, however the queue changes behind it, until its own node is  *)
(* deleted: a node in between keeps its address and its link.              *)
IteratorVisits ==
    \/ stale
    \/ it = Nil /\ due = <<>>
    \/ \E i \in 1..Len(order) :
          it = order[i] /\ due = SubSeq(values, i, Len(order))

(* The queue is a FIFO.  clear() takes effect when it begins.              *)
FifoView == INSTANCE Fifo WITH
    items <- IF mode = "ready" THEN values ELSE <<>>
ImplementsFifo == FifoView!FSpec
=============================================================================
