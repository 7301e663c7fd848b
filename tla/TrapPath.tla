------------------------------ MODULE TrapPath ------------------------------
(***************************************************************************)
(* The trap path of mySpim: the simulated CPU raising an exception         *)
(* (machine/Hardware.cpp, machine/CPU.cpp), the assembly that saves and    *)
(* restores a register context (kernel/asmglue.asm), the C++ handler       *)
(* (kernel/trap.cpp), boot (kernel/boot.cpp) and the privileged            *)
(* instructions (machine/instructions/KInstructions.cpp).                  *)
(*                                                                         *)
(* The machine is one sequential CPU.  Each action is a block of           *)
(* instructions in which nothing can trap; the blocks that can trap are    *)
(* user code, the body of handleTrap around its switch, and boot.          *)
(*                                                                         *)
(* Data kept: of the 31 general registers, v0 (which the kernel reads and  *)
(* writes), one that it only has to preserve (t) and sp; of the status     *)
(* register, the EXL bit; of the kernel stack, one slot per trap level,    *)
(* holding the saved context and handleTrap's frame under it, numbered     *)
(* downwards from top_kstack = 0.                                          *)
(***************************************************************************)
EXTENDS Naturals

CONSTANTS
    UserPC,       \* addresses of the user program's text
    NextPC,       \* "pc + 4" on those addresses
    BeforeEntry,  \* the address 4 below the program's entry
    Word,         \* values of a general register
    UserSp,       \* values of sp the user program uses
    MaxDepth,     \* bound: trap levels the kernel stack has room for
    UserCodes,    \* exception codes a user instruction raises
    FaultCodes,   \* exception codes a kernel instruction raises
    UserOps       \* privileged instructions the user program contains

SYSCALL  == 8
RI       == 10
OVERFLOW == 12

KernelPC == {"boot", "kernel_trap", "handleTrap", "pre", "serve", "post",
             "exit", "trap_return", "run_process", "nestedret", "eret"}

ASSUME AddressAssumption ==
    /\ UserPC \cap (KernelPC \cup {"zero"}) = {}
    /\ NextPC \in [UserPC -> UserPC]
    /\ BeforeEntry \in UserPC

ASSUME DataAssumption ==
    /\ MaxDepth \in 2..255      \* exceptionDepth is an unsigned char
    /\ UserSp # {}
    /\ UserSp \subseteq Nat
    /\ 0 \in Word
    /\ Word \subseteq Nat

ASSUME CodeAssumption ==
    /\ UserCodes \subseteq Nat
    /\ FaultCodes \subseteq Nat \ {SYSCALL, OVERFLOW}  \* the kernel's code has
                                \* no syscall, add, addi or sub
    /\ UserOps \subseteq {"mfc0", "mtc0", "eret", "vmtunnel"}

VARIABLES
    pc,             \* programCounter: a user address or a block of the kernel
    gpr,            \* the CPU's general registers
    k0, k1,         \* registers reserved for the kernel
    epc, exl, cause,\* coprocessor 0
    depth,          \* exceptionDepth
    currentThread,  \* the PCB pointer of Process.h
    saved,          \* contexts on the kernel stack, by slot
    frame,          \* handleTrap's locals on the kernel stack, by slot
    pcb,            \* PCB::regCtx of the two PCBs
    killed          \* Machine::killed

cp0  == <<epc, exl, cause>>
vars == <<pc, gpr, k0, k1, epc, exl, cause, depth, currentThread, saved,
          frame, pcb, killed>>

Slots   == 1..MaxDepth
Thread  == {"user", "kernel"}
Address == UserPC \cup KernelPC \cup {"zero"}
Gpr     == [v0 : Word \cup Slots, t : Word \cup Slots,
            sp : UserSp \cup (0..MaxDepth)]
Context == [gpr : Gpr, epc : Address, exl : BOOLEAN, cause : Nat]
Frame   == [trapCtx : 0..MaxDepth, oldThread : Thread]

NoFrame == [trapCtx |-> 0, oldThread |-> "kernel"]
ZeroGpr == [v0 |-> 0, t |-> 0, sp |-> 0]
ZeroCtx == [gpr |-> ZeroGpr, epc |-> "zero", exl |-> FALSE, cause |-> 0]

(* Context the PCB constructor builds for the program it loads. *)
FirstCtx(usp) ==
    [gpr   |-> [v0 |-> 0, t |-> 0, sp |-> usp],
     epc   |-> BeforeEntry, exl |-> FALSE, cause |-> 0]

(* A return from a nested trap that forgets the implicit + 4.              *)
AfterWithoutStep(a) == IF a \in {"pre", "post"} THEN a ELSE NextPC[a]

(* The instruction after the one at a: the CPU adds 4 to pc after every    *)
(* instruction, the jr and eret that end a trap included.                  *)
After(a) ==
    CASE a \in UserPC -> NextPC[a]
      [] a = "pre"    -> "serve"
      [] a = "post"   -> "exit"
      [] OTHER        -> a

TypeOK ==
    /\ pc \in UserPC \cup KernelPC
    /\ gpr \in Gpr
    /\ k0 \in 0..MaxDepth
    /\ k1 \in Address
    /\ epc \in Address
    /\ exl \in BOOLEAN
    /\ cause \in Nat
    /\ depth \in 0..MaxDepth
    /\ currentThread \in Thread \cup {"null"}
    /\ saved \in [Slots -> Context]
    /\ frame \in [Slots -> Frame]
    /\ pcb \in [Thread -> Context]
    /\ killed \in BOOLEAN

Init ==
    /\ pc = "boot"
    /\ gpr = [ZeroGpr EXCEPT !.sp = 1]   \* in cppmain, one frame deep
    /\ k0 = 0
    /\ k1 = "zero"
    /\ epc = "zero"
    /\ exl = TRUE                        \* loadKernel: STATUS = 0b10
    /\ cause = 0
    /\ depth = 1                         \* exceptionDepth = 1
    /\ currentThread = "null"
    /\ saved = [s \in Slots |-> ZeroCtx]
    /\ frame = [s \in Slots |-> NoFrame]
    /\ pcb = [h \in Thread |-> ZeroCtx]
    /\ killed = FALSE

-----------------------------------------------------------------------------
(* The CPU. *)

(* Machine::raiseTrap; what the instruction wrote before it threw is left  *)
(* to the caller.                                                          *)
trapped(code) ==
    /\ epc' = pc
    /\ exl' = TRUE
    /\ cause' = code
    /\ pc' = "kernel_trap"
    /\ UNCHANGED <<k0, k1, depth, currentThread, saved, frame, pcb, killed>>

raiseTrap(code) == trapped(code) /\ UNCHANGED gpr

(* An instruction of the user program that does not trap. *)
UserStep ==
    /\ pc \in UserPC
    /\ pc' \in UserPC
    /\ gpr' \in [v0 : Word, t : Word, sp : UserSp]
    /\ UNCHANGED <<k0, k1, epc, exl, cause, depth, currentThread, saved,
                   frame, pcb, killed>>

UserTrap == pc \in UserPC /\ \E c \in UserCodes \ {OVERFLOW} : raiseTrap(c)

(* __builtin_add_overflow has stored the wrapped sum when add, addi or sub *)
(* throws: the destination register is lost.                               *)
UserOverflow ==
    /\ pc \in UserPC /\ OVERFLOW \in UserCodes
    /\ trapped(OVERFLOW)
    /\ gpr' \in [v0 : Word, t : Word, sp : UserSp]

(* EXL_CHECK fails: a privileged instruction of the user program traps.    *)
UserPrivilegedTrap == pc \in UserPC /\ UserOps # {} /\ ~exl /\ raiseTrap(RI)

UserMoveFrom ==
    /\ pc \in UserPC /\ "mfc0" \in UserOps /\ exl
    /\ \E w \in Word : gpr' = [gpr EXCEPT !.t = w]
    /\ pc' = NextPC[pc]
    /\ UNCHANGED <<k0, k1, epc, exl, cause, depth, currentThread, saved,
                   frame, pcb, killed>>

UserMoveTo ==
    /\ pc \in UserPC /\ "mtc0" \in UserOps /\ exl
    /\ \/ exl' \in BOOLEAN /\ UNCHANGED <<epc, cause>>
       \/ epc' \in UserPC /\ UNCHANGED <<exl, cause>>
       \/ cause' \in UserCodes /\ UNCHANGED <<epc, exl>>
    /\ pc' = NextPC[pc]
    /\ UNCHANGED <<gpr, k0, k1, depth, currentThread, saved, frame, pcb,
                   killed>>

UserEret ==
    /\ pc \in UserPC /\ "eret" \in UserOps /\ exl
    /\ pc' = After(epc)
    /\ UNCHANGED <<gpr, k0, k1, epc, exl, cause, depth, currentThread, saved,
                   frame, pcb, killed>>

(* A tunnel request by the user program: HALT, or one that leaves the      *)
(* registers alone.                                                        *)
UserTunnel ==
    /\ pc \in UserPC /\ "vmtunnel" \in UserOps /\ exl
    /\ killed' \in BOOLEAN
    /\ pc' = NextPC[pc]
    /\ UNCHANGED <<gpr, k0, k1, epc, exl, cause, depth, currentThread, saved,
                   frame, pcb>>

-----------------------------------------------------------------------------
(* Boot. *)

(* cppmain: build the init process, drop to depth 0, run_process.          *)
BootDone ==
    /\ pc = "boot"
    /\ currentThread' = "user"
    /\ \E usp \in UserSp : pcb' = [pcb EXCEPT !["user"] = FirstCtx(usp)]
    /\ depth' = depth - 1
    /\ pc' = "run_process"
    /\ UNCHANGED <<gpr, k0, k1, epc, exl, cause, saved, frame, killed>>

BootFault == pc = "boot" /\ \E c \in FaultCodes : raiseTrap(c)

-----------------------------------------------------------------------------
(* kernel_trap that always switches to top_kstack. *)
trapStackAlwaysTop == 0

(* bgtz $k0: a nested trap stays on its stack, others take top_kstack.     *)
trapStack == IF depth > 0 THEN gpr.sp ELSE 0

(* kernel_trap up to its call of handleTrap. *)
KernelTrap ==
    /\ pc = "kernel_trap"
    /\ k1' = "zero"                      \* the old sp: no return address
    /\ LET slot == trapStack + 1
       IN  /\ saved' = [saved EXCEPT ![slot] =
                 [gpr |-> gpr, epc |-> epc, exl |-> exl, cause |-> cause]]
           /\ gpr' = [gpr EXCEPT !.sp = slot]
           /\ k0' = slot
    /\ depth' = depth + 1
    /\ pc' = "handleTrap"
    /\ UNCHANGED <<epc, exl, cause, currentThread, frame, pcb, killed>>

-----------------------------------------------------------------------------
(* handleTrap. *)

(* assert(currentThread): assert_fail halts the machine.                   *)
AssertThread ==
    /\ pc = "handleTrap"
    /\ currentThread = "null"
    /\ killed' = TRUE
    /\ UNCHANGED <<pc, gpr, k0, k1, epc, exl, cause, depth, currentThread,
                   saved, frame, pcb>>

(* The handler's own register values stand tagged with its level, so that  *)
(* a nested trap that lost them would show.                                *)
EnterHandler ==
    /\ pc = "handleTrap"
    /\ currentThread # "null"
    /\ frame' = [frame EXCEPT ![gpr.sp] =
                    [trapCtx |-> k0, oldThread |-> currentThread]]
    /\ currentThread' = "kernel"
    /\ gpr' = [gpr EXCEPT !.v0 = depth, !.t = depth]
    /\ pc' = "pre"
    /\ UNCHANGED <<k0, k1, epc, exl, cause, depth, saved, pcb, killed>>

HandlerStep ==
    /\ pc \in {"pre", "post"}
    /\ pc' = After(pc)
    /\ UNCHANGED <<gpr, k0, k1, epc, exl, cause, depth, currentThread, saved,
                   frame, pcb, killed>>

(* An instruction of the handler traps.  MaxDepth bounds the nesting.      *)
HandlerFault ==
    /\ pc \in {"pre", "post"}
    /\ depth < MaxDepth
    /\ \E c \in FaultCodes : raiseTrap(c)

(* The context of the trap being handled: what $k0 pointed to.             *)
trapCtx == saved[frame[gpr.sp].trapCtx]

Halts(c) == \/ c.cause = SYSCALL /\ c.gpr.v0 = 10
            \/ c.cause \in {RI, OVERFLOW}

ReadsInteger(c) == c.cause = SYSCALL /\ c.gpr.v0 = 5

ServeHalt ==
    /\ pc = "serve" /\ Halts(trapCtx)
    /\ killed' = TRUE
    /\ UNCHANGED <<pc, gpr, k0, k1, epc, exl, cause, depth, currentThread,
                   saved, frame, pcb>>

ServeRead ==
    /\ pc = "serve" /\ ReadsInteger(trapCtx)
    /\ \E w \in Word :
         saved' = [saved EXCEPT ![frame[gpr.sp].trapCtx].gpr.v0 = w]
    /\ pc' = "post"
    /\ UNCHANGED <<gpr, k0, k1, epc, exl, cause, depth, currentThread, frame,
                   pcb, killed>>

(* The services that only print, and the codes that are only reported.     *)
ServePrint ==
    /\ pc = "serve" /\ ~Halts(trapCtx) /\ ~ReadsInteger(trapCtx)
    /\ pc' = "post"
    /\ UNCHANGED <<gpr, k0, k1, epc, exl, cause, depth, currentThread, saved,
                   frame, pcb, killed>>

(* A handler that always gives the context to the user process.            *)
oldThreadAlwaysUser == "user"

oldThread == frame[gpr.sp].oldThread

ExitHandler ==
    /\ pc = "exit"
    /\ currentThread' = oldThread
    /\ pcb' = [pcb EXCEPT ![oldThread] = trapCtx]
    /\ pc' = "trap_return"
    /\ UNCHANGED <<gpr, k0, k1, epc, exl, cause, depth, saved, frame, killed>>

-----------------------------------------------------------------------------
(* The rest of asmglue.asm. *)

(* A return path that does not count the level it leaves.                  *)
depthKept == depth

depthLeft == depth - 1

(* kernel_trap after handleTrap: unwind, exceptionDepth--, j run_process.  *)
(* What lies above the stack pointer is dead and stands as zero.           *)
TrapReturn ==
    /\ pc = "trap_return"
    /\ gpr' = [gpr EXCEPT !.sp = gpr.sp - 1]
    /\ depth' = depthLeft
    /\ saved' = [saved EXCEPT ![gpr.sp] = ZeroCtx]
    /\ frame' = [frame EXCEPT ![gpr.sp] = NoFrame]
    /\ pc' = "run_process"
    /\ UNCHANGED <<k0, k1, epc, exl, cause, currentThread, pcb, killed>>

(* run_process without its ori, and one register short.                    *)
statusAsSaved(ctx) == ctx.exl
registersButT(ctx) == [ctx.gpr EXCEPT !.t = gpr.t]

(* ori $t1, $t1, 2                                                         *)
statusRestored(ctx) == TRUE

(* The lw block of run_process.                                            *)
registersRestored(ctx) == ctx.gpr

RunProcess ==
    /\ pc = "run_process"
    /\ LET ctx == pcb[currentThread]
       IN  /\ epc' = ctx.epc
           /\ exl' = statusRestored(ctx)
           /\ cause' = ctx.cause
           /\ k1' = ctx.epc
           /\ gpr' = registersRestored(ctx)
    /\ k0' = depth
    /\ pc' = IF depth > 0 THEN "nestedret" ELSE "eret"
    /\ UNCHANGED <<depth, currentThread, saved, frame, pcb, killed>>

(* jr $k1 *)
NestedReturn ==
    /\ pc = "nestedret"
    /\ pc' = After(k1)
    /\ UNCHANGED <<gpr, k0, k1, epc, exl, cause, depth, currentThread, saved,
                   frame, pcb, killed>>

(* ExceptionReturn::run; its EXL_CHECK raises reserved instruction.  EXL   *)
(* stays as it is.                                                         *)
Eret ==
    /\ pc = "eret"
    /\ IF exl
       THEN /\ pc' = After(epc)
            /\ UNCHANGED <<gpr, k0, k1, epc, exl, cause, depth,
                           currentThread, saved, frame, pcb, killed>>
       ELSE raiseTrap(RI)

-----------------------------------------------------------------------------
User == \/ UserStep \/ UserTrap \/ UserOverflow \/ UserPrivilegedTrap
        \/ UserMoveFrom \/ UserMoveTo \/ UserEret \/ UserTunnel

Kernel == \/ BootDone \/ BootFault \/ KernelTrap \/ AssertThread
          \/ EnterHandler \/ HandlerStep \/ HandlerFault \/ ServeHalt
          \/ ServeRead \/ ServePrint \/ ExitHandler \/ TrapReturn
          \/ RunProcess \/ NestedReturn \/ Eret

(* Machine::run: while (!killed) step().                                   *)
Next == ~killed /\ (User \/ Kernel)

Spec == Init /\ [][Next]_vars

(* The loop always executes the next instruction.                          *)
FairSpec == Spec /\ WF_vars(Next)

-----------------------------------------------------------------------------
(* The kernel never executes unprivileged: a trap raised anywhere, nested  *)
(* or not, and the status word run_process restores (the init process's is *)
(* 0) leave EXL set while pc is in the kernel, so the mtc0, the VM tunnel  *)
(* and the eret of the kernel never fail their EXL_CHECK.                  *)
KernelPrivileged == pc \in KernelPC => exl

(* exceptionDepth, the stack pointer and the contexts agree: the two       *)
(* branches of asmglue.asm that test the depth pick the right stack and    *)
(* the right way back.  Depth is 0 exactly when the kernel is not inside   *)
(* a handler (nor in boot), and a handler at depth d runs on slot d.       *)
DepthMatchesStack ==
    /\ pc \in UserPC => depth = 0
    /\ pc \in {"handleTrap", "pre", "serve", "post", "exit", "trap_return",
               "boot"} => depth = gpr.sp
    /\ pc = "run_process" => (depth = 0 <=> currentThread = "user")
    /\ pc = "nestedret" => depth = gpr.sp

(* A nested trap gives the interrupted handler back its own registers: a   *)
(* handler at level d computes with the values it left there, whatever was *)
(* saved and restored above it.                                            *)
HandlerRegistersIntact ==
    pc \in {"pre", "serve", "post", "exit"} => gpr.v0 = depth /\ gpr.t = depth

(* The user process's PCB is rewritten only by the outermost handler (and  *)
(* by boot), never by one that a nested trap started: kernelThread() takes *)
(* those.                                                                  *)
UserPcbOnlyOutermost ==
    [][pcb'["user"] # pcb["user"] =>
          pc = "boot" \/ (pc = "exit" /\ depth = 1)]_vars

(* Once in the kernel, the machine comes back to user code or is halted.   *)
TrapCompletes == pc \in KernelPC ~> (pc \in UserPC \/ killed)

-----------------------------------------------------------------------------
(* The inductive invariant: what the saved contexts and frames below the   *)
(* running code hold, and for each block of code the state it starts in.   *)

UserRegs == [v0 : Word, t : Word, sp : UserSp]

UserContext(c) == c.gpr \in UserRegs /\ c.epc \in UserPC

(* Registers and address of a handler at level l that a trap interrupts.   *)
LevelRegs(l) == [v0 |-> l, t |-> l, sp |-> l]

InterruptedHandler(c, l) ==
    c.gpr = LevelRegs(l) /\ c.epc \in {"pre", "post"} /\ c.cause \in FaultCodes

(* The context that the trap at level l saved, and the thread it found.    *)
Belongs(c, l) ==
    IF l = 1 THEN UserContext(c) ELSE InterruptedHandler(c, l - 1)

FoundThread(l) == IF l = 1 THEN "user" ELSE "kernel"

ContextsBelow ==
    currentThread # "null" => \A l \in 1..depth : Belongs(saved[l], l)

FramesBelow ==
    currentThread # "null" =>
        \A l \in 1..depth :
            l < depth \/ pc # "handleTrap" =>
                frame[l] = [trapCtx |-> l, oldThread |-> FoundThread(l)]

AtUser == pc \in UserPC =>
    /\ depth = 0 /\ currentThread = "user"
    /\ gpr \in UserRegs /\ epc \in UserPC

AtBoot == pc = "boot" =>
    /\ depth = 1 /\ currentThread = "null" /\ gpr.sp = 1

AtKernelTrap == pc = "kernel_trap" =>
    \/ /\ currentThread = "null" /\ depth = 1 /\ gpr.sp = 1
       /\ FaultCodes # {}
    \/ /\ currentThread = "user" /\ depth = 0
       /\ gpr \in UserRegs /\ epc \in UserPC
    \/ /\ currentThread = "kernel" /\ depth \in 1..(MaxDepth - 1)
       /\ gpr = LevelRegs(depth) /\ epc \in {"pre", "post"}
       /\ cause \in FaultCodes

AtHandleTrap == pc = "handleTrap" =>
    /\ depth > 0 /\ gpr.sp = depth /\ k0 = depth
    /\ currentThread \in {"null", FoundThread(depth)}
    /\ currentThread = "null" => FaultCodes # {}

InHandler == pc \in {"pre", "serve", "post", "exit"} =>
    depth > 0 /\ currentThread = "kernel" /\ gpr = LevelRegs(depth)

AtTrapReturn == pc = "trap_return" =>
    /\ depth > 0 /\ gpr.sp = depth /\ currentThread = FoundThread(depth)
    /\ pcb[currentThread] = saved[depth]

AtRunProcess == pc = "run_process" =>
    /\ currentThread = FoundThread(depth + 1)
    /\ Belongs(pcb[currentThread], depth + 1)

AtNestedReturn == pc = "nestedret" =>
    /\ depth > 0 /\ currentThread = "kernel"
    /\ gpr = LevelRegs(depth) /\ k1 \in {"pre", "post"}

AtEret == pc = "eret" =>
    /\ depth = 0 /\ currentThread = "user"
    /\ gpr \in UserRegs /\ epc \in UserPC

TrapInvariant ==
    /\ TypeOK /\ KernelPrivileged
    /\ ContextsBelow /\ FramesBelow
    /\ AtUser /\ AtBoot /\ AtKernelTrap /\ AtHandleTrap /\ InHandler
    /\ AtTrapReturn /\ AtRunProcess /\ AtNestedReturn /\ AtEret

-----------------------------------------------------------------------------
(* What asmglue.asm says of returning to a process: "If we eret later,     *)
(* hardware will flip EXL for us".  User code then runs without privilege. *)
UserModeUnprivileged == pc \in UserPC => ~exl
=============================================================================
