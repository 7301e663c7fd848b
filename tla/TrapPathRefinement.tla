------------------------- MODULE TrapPathRefinement -------------------------
(***************************************************************************)
(* TrapPath implements UserMachine.  What the program sees is found, while *)
(* user code runs, in the CPU; while it is trapped, in the context the     *)
(* outermost trap saved; and from the moment the PCB has it, in the PCB.   *)
(***************************************************************************)
EXTENDS TrapPath

booting == currentThread = "null"

(* Where the outermost handler stands.  At depth 1 it is the code that runs *)
(* or, while a nested trap starts or ends, the code that was interrupted;  *)
(* deeper, the address in the second context.                              *)
outermost ==
    IF depth > 1                 THEN saved[2].epc
    ELSE IF pc = "kernel_trap"   THEN epc
    ELSE IF pc = "run_process"   THEN pcb["kernel"].epc
    ELSE IF pc = "nestedret"     THEN k1
    ELSE pc

(* The block asmglue.asm leaves the kernel by.                             *)
leaving == pc \in {"run_process", "eret"} /\ depth = 0

userSvc ==
    IF booting THEN "boot"
    ELSE IF pc \in UserPC THEN "none"
    ELSE IF leaving THEN "done"
    ELSE IF depth > 0 /\ outermost \in {"post", "exit", "trap_return"} THEN "done"
    ELSE "pending"

inCpu == [gpr |-> gpr, epc |-> IF pc \in UserPC THEN pc ELSE epc,
          exl |-> exl, cause |-> cause]

userContext ==
    IF booting THEN [ZeroCtx EXCEPT !.epc = BeforeEntry]
    ELSE IF pc = "run_process" /\ depth = 0 THEN pcb["user"]
    ELSE IF depth = 0 THEN inCpu
    ELSE saved[1]

userCode == IF userSvc = "pending" THEN userContext.cause ELSE 0

UM == INSTANCE UserMachine WITH
          upc   <- userContext.epc,
          uregs <- userContext.gpr,
          svc   <- userSvc,
          code  <- userCode,
          alive <- ~killed

(* The kernel keeps its promise to a program that has no privileged        *)
(* instruction: every step of TrapPath is a step of UserMachine or none of *)
(* its, and the kernel's work gets done.                                   *)
ImplementsUserMachine == UM!USpec
=============================================================================
