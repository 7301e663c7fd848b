------------------------------- MODULE String -------------------------------
(***************************************************************************)
(* ministl::string (kernel/kstl/String.h): a vector of characters with a   *)
(* NUL behind them.  A modifier takes the NUL away, pushes and puts it     *)
(* back; copies and moves are those of the vector.                         *)
(***************************************************************************)
EXTENDS Vector, SequencesExt

NUL   == Zero
Chars == Elem \ {NUL}

(* A push_back for each character of q, and for each of the first n of u,  *)
(* read when its turn comes.                                               *)
pushedChars(s, v, q) == FoldLeft(LAMBDA t, c : pushed(t, v, c), s, q)
pushedFrom(s, v, u, n) ==
    FoldLeft(LAMBDA t, i : pushed(t, v, t.mem[t.vec[u].storage][i - 1]), s,
             [i \in 1..n |-> i])

terminated(s, v) == pushed(s, v, NUL)

text(v)        == Front(holds[v])
becomesText(v, q) == becomes(v, Append(q, NUL))
nonEmpty       == {v \in live(st) : st.vec[v].size > 0}    \* not moved from

(* string() and string(cstr)                                               *)
Make(v, q) ==
    /\ v \notin live(st)
    /\ st' = terminated(pushedChars(constructed(st, v), v, q), v)
    /\ becomesText(v, q)

AppendChar(v, c) ==
    /\ v \in nonEmpty /\ st.vec[v].size < MaxSize
    /\ st' = terminated(pushed(popped(st, v), v, c), v)
    /\ becomesText(v, Append(text(v), c))

(* other may not be the string itself: the loop would not end.             *)
AppendString(v, u) ==
    /\ v \in nonEmpty /\ u \in nonEmpty \ {v}
    /\ st.vec[v].size + st.vec[u].size <= MaxSize
    /\ LET s == pushedFrom(popped(st, v), v, u, st.vec[u].size - 1)
       IN  st' = terminated([s EXCEPT !.spoilt = IF u \in @ THEN @ \cup {v} ELSE @], v)
    /\ becomesText(v, text(v) \o text(u))

ClearText(v) ==
    /\ v \in live(st)
    /\ st' = terminated(cleared(st, v), v)
    /\ becomesText(v, <<>>)

StringNext ==
    /\ ~st.overran
    /\ \E v \in Vectors :
          \/ \E q \in {<<>>} \cup {<<c>> : c \in Chars} : Make(v, q)
          \/ \E c \in Chars : AppendChar(v, c)
          \/ ClearText(v) \/ Destroy(v)
          \/ \E u \in Vectors : AppendString(v, u) \/ Copy(v, u) \/ Move(v, u)

StringSpec == Init /\ [][StringNext]_vars
-----------------------------------------------------------------------------
(* "always null-terminated" (String.h): behind the characters of a string  *)
(* that was not moved from there is a NUL.                                 *)
AlwaysTerminated == \A v \in nonEmpty : Last(elements(st, v)) = NUL
=============================================================================
