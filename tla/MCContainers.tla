---------------------------- MODULE MCContainers ----------------------------
(* The containers of ministl side by side.  They share no state, so each   *)
(* behaviour is about one of them and the others keep still.               *)
EXTENDS String, Queue, Bitset

VARIABLE object

all == <<object, vars, qvars, bvars>>

MCInit ==
    /\ object \in {"vector", "string", "queue", "bitset"}
    /\ Init /\ QInit /\ BInit
    /\ object # "bitset" => N = 1
MCNext ==
    /\ UNCHANGED object
    /\ \/ object = "vector" /\ Next /\ UNCHANGED <<qvars, bvars>>
       \/ object = "string" /\ StringNext /\ UNCHANGED <<qvars, bvars>>
       \/ object = "queue" /\ QNext /\ UNCHANGED <<vars, bvars>>
       \/ object = "bitset" /\ BNext /\ UNCHANGED <<vars, qvars>>

MCSpec == MCInit /\ [][MCNext]_all
=============================================================================
