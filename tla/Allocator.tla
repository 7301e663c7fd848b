----------------------------- MODULE Allocator -----------------------------
(***************************************************************************)
(* What the kernel heap promises to the code that uses new and delete: a   *)
(* block it hands out shares no word with any other block in use, and      *)
(* every request is answered.  It does not promise that a block given back *)
(* is used again: the heap may lose it.                                    *)
(***************************************************************************)
EXTENDS Integers

CONSTANTS
    Place,      \* addresses a block may start at
    Sizes       \* sizes asked for, in words

VARIABLES
    wanted,     \* {} or the size of the request in progress
    live,       \* blocks in use: [at, len]
    lost        \* blocks given back that the heap ignored

avars == <<wanted, live, lost>>

words(r) == r.at..(r.at + r.len - 1)

AInit == wanted = {} /\ live = {} /\ lost = {}

Ask == /\ wanted = {}
       /\ \E n \in Sizes : wanted' = {n}
       /\ UNCHANGED <<live, lost>>

Answer ==
    /\ \E at \in Place, n \in wanted :
          LET r == [at |-> at, len |-> n]
          IN  /\ \A o \in live \cup lost :
                    o.at # at /\ words(o) \cap words(r) = {}
              /\ live' = live \cup {r}
    /\ wanted' = {}
    /\ UNCHANGED lost

GiveBack ==
    /\ wanted = {}
    /\ \E r \in live :
          live' = live \ {r} /\ lost' \in {lost, lost \cup {r}}
    /\ UNCHANGED wanted

ANext == Ask \/ Answer \/ GiveBack

ASafety == AInit /\ [][ANext]_avars

ASpec == ASafety /\ WF_avars(Answer)
=============================================================================
