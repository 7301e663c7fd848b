---------------------------- MODULE UserMachine ----------------------------
(***************************************************************************)
(* What the kernel promises the one user program it runs: the program sees *)
(* its own registers and its own pc, and a trap is to it one instruction   *)
(* that the kernel executes.  The program is started at its entry; an      *)
(* instruction that traps is either served, after which the program goes   *)
(* on at the next instruction with every register as it was (except v0     *)
(* when it asked for an integer), or it stops the machine.  How registers  *)
(* are saved, and that the kernel may itself trap meanwhile, cannot be     *)
(* told from here.  TrapPathRefinement maps TrapPath to this module.       *)
(***************************************************************************)
EXTENDS Naturals

CONSTANTS UserPC, NextPC, BeforeEntry, Word, UserSp, UserCodes,
          FaultCodes        \* exceptions the kernel itself may raise

VARIABLES
    upc,      \* address of the current instruction of the program
    uregs,    \* its registers
    svc,      \* "boot", "none", "pending" (trapped) or "done" (served)
    code,     \* exception code of the trap, 0 when there is none
    alive

uvars == <<upc, uregs, svc, code, alive>>

UserRegs == [v0 : Word, t : Word, sp : UserSp]

UTypeOK ==
    /\ upc \in UserPC
    /\ uregs \in UserRegs \cup {[v0 |-> 0, t |-> 0, sp |-> 0]}
    /\ svc \in {"boot", "none", "pending", "done"}
    /\ code \in UserCodes \cup {0}
    /\ alive \in BOOLEAN

UInit ==
    /\ upc = BeforeEntry
    /\ uregs = [v0 |-> 0, t |-> 0, sp |-> 0]
    /\ svc = "boot"
    /\ code = 0
    /\ alive = TRUE

Load ==
    /\ alive /\ svc = "boot"
    /\ uregs' \in {[v0 |-> 0, t |-> 0, sp |-> s] : s \in UserSp}
    /\ svc' = "done"
    /\ UNCHANGED <<upc, code, alive>>

Compute ==
    /\ alive /\ svc = "none"
    /\ upc' \in UserPC
    /\ uregs' \in UserRegs
    /\ UNCHANGED <<svc, code, alive>>

Trap ==
    /\ alive /\ svc = "none"
    /\ svc' = "pending"
    /\ code' \in UserCodes
    /\ code' = 12 \/ UNCHANGED uregs    \* an overflow has stored its result
    /\ uregs' \in UserRegs \cup {uregs}
    /\ UNCHANGED <<upc, alive>>

Stops == code \in {10, 12} \/ (code = 8 /\ uregs.v0 = 10)

Stop ==
    /\ alive /\ svc = "pending" /\ Stops
    /\ alive' = FALSE
    /\ UNCHANGED <<upc, uregs, svc, code>>

Serve ==
    /\ alive /\ svc = "pending" /\ ~Stops
    /\ svc' = "done"
    /\ code' = 0
    /\ IF code = 8 /\ uregs.v0 = 5
       THEN \E w \in Word : uregs' = [uregs EXCEPT !.v0 = w]
       ELSE UNCHANGED uregs
    /\ UNCHANGED <<upc, alive>>

Resume ==
    /\ alive /\ svc = "done"
    /\ upc' = NextPC[upc]
    /\ svc' = "none"
    /\ UNCHANGED <<uregs, code, alive>>

(* A fault of the kernel's own may stop the machine: any in boot, later    *)
(* those the kernel gives up on; but never at an instruction of the        *)
(* program.                                                                *)
Panic ==
    /\ alive
    /\ \/ svc = "boot" /\ FaultCodes # {}
       \/ svc \in {"pending", "done"} /\ FaultCodes \cap {10, 12} # {}
    /\ alive' = FALSE
    /\ UNCHANGED <<upc, uregs, svc, code>>

UNext == Load \/ Compute \/ Trap \/ Stop \/ Serve \/ Resume \/ Panic

KernelWork == Load \/ Stop \/ Serve \/ Resume \/ Panic

(* The kernel finishes what it starts; the program may run on for ever.    *)
USafety == UInit /\ [][UNext]_uvars

USpec == USafety /\ WF_uvars(KernelWork)
=============================================================================
