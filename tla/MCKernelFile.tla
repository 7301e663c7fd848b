---------------------------- MODULE MCKernelFile ----------------------------
(* Two host files of three bytes and two and a path that does not exist.   *)
EXTENDS KernelFile

MCSize == [p \in {"a", "b"} |-> IF p = "a" THEN 3 ELSE 2]
=============================================================================
