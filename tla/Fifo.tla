-------------------------------- MODULE Fifo --------------------------------
(***************************************************************************)
(* What a queue promises: values leave in the order they came in.          *)
(***************************************************************************)
EXTENDS Sequences

CONSTANTS Value, None

VARIABLES
    items,      \* what was put in and not yet taken out
    returned    \* what the last Take returned

fvars == <<items, returned>>

FInit == items = <<>> /\ returned = None

Put(v) == items' = Append(items, v) /\ UNCHANGED returned

Take ==
    /\ items # <<>>
    /\ returned' = Head(items)
    /\ items' = Tail(items)

DropAll == items' = <<>> /\ UNCHANGED returned

FNext == (\E v \in Value : Put(v)) \/ Take \/ DropAll

FSpec == FInit /\ [][FNext]_fvars
=============================================================================
