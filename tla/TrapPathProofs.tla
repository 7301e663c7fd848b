--------------------------- MODULE TrapPathProofs ---------------------------
(***************************************************************************)
(* Proofs about TrapPath for every program text, every word set, every     *)
(* bound on the nesting.  The inductive invariant is TrapInvariant; the    *)
(* safety properties follow from it.                                       *)
(***************************************************************************)
EXTENDS TrapPathRefinement, TLAPS

(* The zeroed values of Init and of a popped slot have their types.        *)
LEMMA ZeroTypes == ZeroGpr \in Gpr /\ ZeroCtx \in Context /\ NoFrame \in Frame
  <1> USE AddressAssumption, DataAssumption DEF AddressAssumption, DataAssumption
  <1>1. ZeroGpr \in Gpr
    BY DEF ZeroGpr, Gpr
  <1>2. ZeroCtx \in Context
    BY <1>1 DEF ZeroCtx, Context, Address
  <1>3. NoFrame \in Frame
    BY DEF NoFrame, Frame, Thread
  <1>4. QED
    BY <1>1, <1>2, <1>3

(* The CPU goes from a user address to a user address.                     *)
LEMMA AfterUser == \A a \in UserPC : After(a) = NextPC[a] /\ After(a) \in UserPC
  BY AddressAssumption DEF AddressAssumption, After, KernelPC

(* The boot state satisfies the invariant.                                 *)
LEMMA InitInvariant == Init => TrapInvariant
  <1> USE AddressAssumption, DataAssumption DEF AddressAssumption, DataAssumption
  <1> SUFFICES ASSUME Init PROVE TrapInvariant
    OBVIOUS
  <1>1. TypeOK
    <2>1. gpr \in Gpr
      <3>1. gpr = [v0 |-> 0, t |-> 0, sp |-> 1]
        BY DEF Init, ZeroGpr
      <3>2. 1 \in 0..MaxDepth
        OBVIOUS
      <3>3. QED
        BY <3>1 DEF Gpr
    <2>2. /\ saved \in [Slots -> Context]
          /\ frame \in [Slots -> Frame]
          /\ pcb \in [Thread -> Context]
      BY ZeroTypes DEF Init
    <2>3. pc \in UserPC \cup KernelPC
      BY DEF Init, KernelPC
    <2>4. k1 \in Address /\ epc \in Address
      BY DEF Init, Address
    <2>5. k0 \in 0..MaxDepth /\ depth \in 0..MaxDepth /\ cause \in Nat
      BY DEF Init
    <2>6. exl \in BOOLEAN /\ killed \in BOOLEAN
      BY DEF Init
    <2>7. currentThread \in Thread \cup {"null"}
      BY DEF Init
    <2>8. QED
      BY <2>1, <2>2, <2>3, <2>4, <2>5, <2>6, <2>7 DEF TypeOK
  <1>2. QED
    BY <1>1 DEF Init, TrapInvariant, KernelPrivileged, KernelPC, ContextsBelow,
      FramesBelow, AtUser, AtBoot, AtKernelTrap, AtHandleTrap, InHandler,
      AtTrapReturn, AtRunProcess, AtNestedReturn, AtEret, ZeroGpr

(* Every instruction block preserves the invariant; for each action its    *)
(* types first, then the state of the block that runs next.                *)
LEMMA StepInvariant == TrapInvariant /\ [Next]_vars => TrapInvariant'
  <1> USE AddressAssumption, DataAssumption, CodeAssumption
      DEF AddressAssumption, DataAssumption, CodeAssumption
  <1> DEFINE Rest ==
        /\ KernelPrivileged /\ ContextsBelow /\ FramesBelow
        /\ AtUser /\ AtBoot /\ AtKernelTrap /\ AtHandleTrap /\ InHandler
        /\ AtTrapReturn /\ AtRunProcess /\ AtNestedReturn /\ AtEret
  <1> SUFFICES ASSUME TrapInvariant, [Next]_vars
               PROVE  TypeOK' /\ Rest'
    BY DEF TrapInvariant
  <1>1. CASE UserStep
    <2>1. TypeOK'
      <3>1. gpr' \in Gpr
        BY <1>1 DEF UserStep, Gpr
      <3>2. QED
        BY <1>1, <3>1 DEF UserStep, TrapInvariant, TypeOK
    <2>2. Rest'
      BY <1>1, <2>1 DEF UserStep, raiseTrap, trapped, TrapInvariant, TypeOK, KernelPrivileged, KernelPC,
        ContextsBelow, FramesBelow, AtUser, AtBoot, AtKernelTrap, AtHandleTrap, InHandler,
        AtTrapReturn, AtRunProcess, AtNestedReturn, AtEret, After,
        Belongs, FoundThread, InterruptedHandler, UserContext, LevelRegs, UserRegs
    <2>3. QED
      BY <2>1, <2>2
  <1>2. CASE UserTrap
    <2>1. TypeOK'
      BY <1>2 DEF UserTrap, raiseTrap, trapped, TrapInvariant, TypeOK, Address, KernelPC, After, AtUser, AtEret
    <2>2. Rest'
      BY <1>2, <2>1 DEF UserTrap, raiseTrap, trapped, TrapInvariant, TypeOK, KernelPrivileged, KernelPC,
        ContextsBelow, FramesBelow, AtUser, AtBoot, AtKernelTrap, AtHandleTrap, InHandler,
        AtTrapReturn, AtRunProcess, AtNestedReturn, AtEret, After,
        Belongs, FoundThread, InterruptedHandler, UserContext, LevelRegs, UserRegs
    <2>3. QED
      BY <2>1, <2>2
  <1>2a. CASE UserOverflow
    <2>1. TypeOK'
      <3>1. gpr' \in Gpr
        BY <1>2a DEF UserOverflow, Gpr
      <3>2. QED
        BY <1>2a, <3>1 DEF UserOverflow, trapped, OVERFLOW, TrapInvariant, TypeOK,
          Address, KernelPC
    <2>2. Rest'
      BY <1>2a, <2>1 DEF UserOverflow, trapped, TrapInvariant, TypeOK, KernelPrivileged, KernelPC,
        ContextsBelow, FramesBelow, AtUser, AtBoot, AtKernelTrap, AtHandleTrap, InHandler,
        AtTrapReturn, AtRunProcess, AtNestedReturn, AtEret, After,
        Belongs, FoundThread, InterruptedHandler, UserContext, LevelRegs, UserRegs
    <2>3. QED
      BY <2>1, <2>2
  <1>3. CASE UserPrivilegedTrap
    <2>1. TypeOK'
      BY <1>3 DEF UserPrivilegedTrap, raiseTrap, trapped, RI, TrapInvariant, TypeOK, Address, KernelPC
    <2>2. Rest'
      BY <1>3, <2>1 DEF UserPrivilegedTrap, raiseTrap, trapped, TrapInvariant, TypeOK, KernelPrivileged, KernelPC,
        ContextsBelow, FramesBelow, AtUser, AtBoot, AtKernelTrap, AtHandleTrap, InHandler,
        AtTrapReturn, AtRunProcess, AtNestedReturn, AtEret, After,
        Belongs, FoundThread, InterruptedHandler, UserContext, LevelRegs, UserRegs
    <2>3. QED
      BY <2>1, <2>2
  <1>4. CASE UserMoveFrom
    <2>1. TypeOK'
      <3>1. gpr' \in Gpr
        BY <1>4 DEF UserMoveFrom, Gpr, TrapInvariant, TypeOK
      <3>2. QED
        BY <1>4, <3>1 DEF UserMoveFrom, TrapInvariant, TypeOK
    <2>2. Rest'
      BY <1>4, <2>1 DEF UserMoveFrom, raiseTrap, trapped, TrapInvariant, TypeOK, KernelPrivileged, KernelPC,
        ContextsBelow, FramesBelow, AtUser, AtBoot, AtKernelTrap, AtHandleTrap, InHandler,
        AtTrapReturn, AtRunProcess, AtNestedReturn, AtEret, After,
        Belongs, FoundThread, InterruptedHandler, UserContext, LevelRegs, UserRegs
    <2>3. QED
      BY <2>1, <2>2
  <1>5. CASE UserMoveTo
    <2>1. TypeOK'
      BY <1>5 DEF UserMoveTo, raiseTrap, trapped, TrapInvariant, TypeOK, Address, KernelPC, After, AtUser, AtEret
    <2>2. Rest'
      BY <1>5, <2>1 DEF UserMoveTo, raiseTrap, trapped, TrapInvariant, TypeOK, KernelPrivileged, KernelPC,
        ContextsBelow, FramesBelow, AtUser, AtBoot, AtKernelTrap, AtHandleTrap, InHandler,
        AtTrapReturn, AtRunProcess, AtNestedReturn, AtEret, After,
        Belongs, FoundThread, InterruptedHandler, UserContext, LevelRegs, UserRegs
    <2>3. QED
      BY <2>1, <2>2
  <1>6. CASE UserEret
    <2>1. TypeOK'
      BY <1>6 DEF UserEret, raiseTrap, trapped, TrapInvariant, TypeOK, Address, KernelPC, After, AtUser, AtEret
    <2>2. Rest'
      BY <1>6, <2>1 DEF UserEret, raiseTrap, trapped, TrapInvariant, TypeOK, KernelPrivileged, KernelPC,
        ContextsBelow, FramesBelow, AtUser, AtBoot, AtKernelTrap, AtHandleTrap, InHandler,
        AtTrapReturn, AtRunProcess, AtNestedReturn, AtEret, After,
        Belongs, FoundThread, InterruptedHandler, UserContext, LevelRegs, UserRegs
    <2>3. QED
      BY <2>1, <2>2
  <1>7. CASE UserTunnel
    <2>1. TypeOK'
      BY <1>7 DEF UserTunnel, raiseTrap, trapped, TrapInvariant, TypeOK, Address, KernelPC, After, AtUser, AtEret
    <2>2. Rest'
      BY <1>7, <2>1 DEF UserTunnel, raiseTrap, trapped, TrapInvariant, TypeOK, KernelPrivileged, KernelPC,
        ContextsBelow, FramesBelow, AtUser, AtBoot, AtKernelTrap, AtHandleTrap, InHandler,
        AtTrapReturn, AtRunProcess, AtNestedReturn, AtEret, After,
        Belongs, FoundThread, InterruptedHandler, UserContext, LevelRegs, UserRegs
    <2>3. QED
      BY <2>1, <2>2
  <1>8. CASE BootDone
    <2>0. PICK usp \in UserSp : pcb' = [pcb EXCEPT !["user"] = FirstCtx(usp)]
      BY <1>8 DEF BootDone
    <2>b. FirstCtx(usp) \in Context /\ UserContext(FirstCtx(usp))
      <3>1. [v0 |-> 0, t |-> 0, sp |-> usp] \in UserRegs \cap Gpr
        BY DEF UserRegs, Gpr
      <3>2. QED
        BY <3>1 DEF FirstCtx, Context, Address, UserContext
    <2>1. TypeOK'
      <3>1. pcb' \in [Thread -> Context]
        BY <2>0, <2>b DEF TrapInvariant, TypeOK
      <3>2. depth' \in 0..MaxDepth
        BY <1>8 DEF BootDone, TrapInvariant, AtBoot
      <3>3. QED
        BY <1>8, <3>1, <3>2 DEF BootDone, TrapInvariant, TypeOK, KernelPC, Thread
    <2>2. Rest'
      <3>1. pcb'["user"] = FirstCtx(usp)
        BY <2>0 DEF TrapInvariant, TypeOK, Thread
      <3>2. depth' = 0 /\ currentThread' = "user" /\ pc' = "run_process" /\ exl'
        BY <1>8 DEF BootDone, TrapInvariant, AtBoot, KernelPrivileged, KernelPC
      <3>3. AtRunProcess'
        BY <3>1, <3>2, <2>b DEF AtRunProcess, FoundThread, Belongs
      <3>4. QED
        BY <3>2, <3>3 DEF KernelPrivileged, KernelPC,
          ContextsBelow, FramesBelow, AtUser, AtBoot, AtKernelTrap, AtHandleTrap,
          InHandler, AtTrapReturn, AtNestedReturn, AtEret
    <2>3. QED
      BY <2>1, <2>2
  <1>9. CASE BootFault
    <2>1. TypeOK'
      BY <1>9 DEF BootFault, raiseTrap, trapped, TrapInvariant, TypeOK, Address, KernelPC, After, AtUser, AtEret
    <2>2. Rest'
      BY <1>9, <2>1 DEF BootFault, raiseTrap, trapped, TrapInvariant, TypeOK, KernelPrivileged, KernelPC,
        ContextsBelow, FramesBelow, AtUser, AtBoot, AtKernelTrap, AtHandleTrap, InHandler,
        AtTrapReturn, AtRunProcess, AtNestedReturn, AtEret, After,
        Belongs, FoundThread, InterruptedHandler, UserContext, LevelRegs, UserRegs
    <2>3. QED
      BY <2>1, <2>2
  <1>10. CASE KernelTrap
    <2>1. TypeOK'
      <3> DEFINE slot == (IF depth > 0 THEN gpr.sp ELSE 0) + 1
                 ctx  == [gpr |-> gpr, epc |-> epc, exl |-> exl, cause |-> cause]
      <3>a. depth \in 0..(MaxDepth - 1) /\ (depth > 0 => gpr.sp = depth)
        <4>1. \/ depth = 1 /\ gpr.sp = 1
              \/ depth = 0
              \/ depth \in 1..(MaxDepth - 1) /\ gpr = LevelRegs(depth)
          BY <1>10 DEF trapStack, KernelTrap, TrapInvariant, AtKernelTrap
        <4>2. gpr = LevelRegs(depth) => gpr.sp = depth
          BY DEF LevelRegs
        <4>3. QED
          BY <4>1, <4>2
      <3>1. slot = depth + 1 /\ slot \in Slots
        BY <3>a DEF Slots
      <3>2. ctx \in Context
        BY DEF Context, TrapInvariant, TypeOK
      <3>3. saved' \in [Slots -> Context]
        BY <1>10, <3>1, <3>2 DEF trapStack, KernelTrap, TrapInvariant, TypeOK
      <3>4. gpr' \in Gpr
        <4>1. gpr' = [gpr EXCEPT !.sp = slot]
          BY <1>10 DEF trapStack, KernelTrap
        <4>2. slot \in UserSp \cup (0..MaxDepth)
          BY <3>1 DEF Slots
        <4>3. QED
          BY <4>1, <4>2 DEF TrapInvariant, TypeOK, Gpr
      <3>5. k0' \in 0..MaxDepth /\ depth' \in 0..MaxDepth
        BY <1>10, <3>1 DEF trapStack, KernelTrap, Slots, TrapInvariant, TypeOK
      <3>6. QED
        BY <1>10, <3>3, <3>4, <3>5
           DEF trapStack, KernelTrap, TrapInvariant, TypeOK, Address, KernelPC
    <2>2. Rest'
      BY <1>10, <2>1 DEF trapStack, KernelTrap, raiseTrap, trapped, TrapInvariant, TypeOK, KernelPrivileged, KernelPC,
        ContextsBelow, FramesBelow, AtUser, AtBoot, AtKernelTrap, AtHandleTrap, InHandler,
        AtTrapReturn, AtRunProcess, AtNestedReturn, AtEret, After,
        Belongs, FoundThread, InterruptedHandler, UserContext, LevelRegs, UserRegs
    <2>3. QED
      BY <2>1, <2>2
  <1>11. CASE AssertThread
    <2>1. TypeOK'
      BY <1>11 DEF AssertThread, raiseTrap, trapped, TrapInvariant, TypeOK, Address, KernelPC, After, AtUser, AtEret
    <2>2. Rest'
      BY <1>11, <2>1 DEF AssertThread, raiseTrap, trapped, TrapInvariant, TypeOK, KernelPrivileged, KernelPC,
        ContextsBelow, FramesBelow, AtUser, AtBoot, AtKernelTrap, AtHandleTrap, InHandler,
        AtTrapReturn, AtRunProcess, AtNestedReturn, AtEret, After,
        Belongs, FoundThread, InterruptedHandler, UserContext, LevelRegs, UserRegs
    <2>3. QED
      BY <2>1, <2>2
  <1>12. CASE EnterHandler
    <2>0. gpr.sp = depth /\ k0 = depth /\ depth \in Slots
      BY <1>12 DEF EnterHandler, TrapInvariant, TypeOK, AtHandleTrap, Slots
    <2>a. gpr' = LevelRegs(depth)
      BY <1>12, <2>0 DEF EnterHandler, TrapInvariant, TypeOK, Gpr, LevelRegs
    <2>b. frame' = [frame EXCEPT ![depth] =
                      [trapCtx |-> depth, oldThread |-> FoundThread(depth)]]
      BY <1>12, <2>0 DEF EnterHandler, TrapInvariant, AtHandleTrap
    <2>1. TypeOK'
      <3>1. gpr' \in Gpr
        BY <2>0, <2>a DEF LevelRegs, Gpr, Slots
      <3>2. frame' \in [Slots -> Frame]
        BY <2>0, <2>b DEF TrapInvariant, TypeOK, Frame, FoundThread, Thread, Slots
      <3>3. QED
        BY <1>12, <3>1, <3>2 DEF EnterHandler, TrapInvariant, TypeOK, KernelPC, Thread
    <2>2. Rest'
      <3>1. FramesBelow'
        BY <1>12, <2>0, <2>b DEF EnterHandler, TrapInvariant, TypeOK, FramesBelow, Slots
      <3>2. ContextsBelow'
        BY <1>12 DEF EnterHandler, TrapInvariant, ContextsBelow
      <3>3. QED
        BY <1>12, <2>0, <2>a, <3>1, <3>2 DEF EnterHandler, TrapInvariant, TypeOK,
          KernelPrivileged, KernelPC, AtUser, AtBoot, AtKernelTrap, AtHandleTrap,
          InHandler, AtTrapReturn, AtRunProcess, AtNestedReturn, AtEret, LevelRegs, Slots
    <2>3. QED
      BY <2>1, <2>2
  <1>13. CASE HandlerStep
    <2>1. TypeOK'
      BY <1>13 DEF HandlerStep, raiseTrap, trapped, TrapInvariant, TypeOK, Address, KernelPC, After, AtUser, AtEret
    <2>2. Rest'
      BY <1>13, <2>1 DEF HandlerStep, raiseTrap, trapped, TrapInvariant, TypeOK, KernelPrivileged, KernelPC,
        ContextsBelow, FramesBelow, AtUser, AtBoot, AtKernelTrap, AtHandleTrap, InHandler,
        AtTrapReturn, AtRunProcess, AtNestedReturn, AtEret, After,
        Belongs, FoundThread, InterruptedHandler, UserContext, LevelRegs, UserRegs
    <2>3. QED
      BY <2>1, <2>2
  <1>14. CASE HandlerFault
    <2>1. TypeOK'
      BY <1>14 DEF HandlerFault, raiseTrap, trapped, TrapInvariant, TypeOK, Address, KernelPC, After, AtUser, AtEret
    <2>2. Rest'
      BY <1>14, <2>1 DEF HandlerFault, raiseTrap, trapped, TrapInvariant, TypeOK, KernelPrivileged, KernelPC,
        ContextsBelow, FramesBelow, AtUser, AtBoot, AtKernelTrap, AtHandleTrap, InHandler,
        AtTrapReturn, AtRunProcess, AtNestedReturn, AtEret, After,
        Belongs, FoundThread, InterruptedHandler, UserContext, LevelRegs, UserRegs
    <2>3. QED
      BY <2>1, <2>2
  <1>15. CASE ServeHalt
    <2>1. TypeOK'
      BY <1>15 DEF ServeHalt, raiseTrap, trapped, TrapInvariant, TypeOK, Address, KernelPC, After, AtUser, AtEret
    <2>2. Rest'
      BY <1>15, <2>1 DEF ServeHalt, raiseTrap, trapped, TrapInvariant, TypeOK, KernelPrivileged, KernelPC,
        ContextsBelow, FramesBelow, AtUser, AtBoot, AtKernelTrap, AtHandleTrap, InHandler,
        AtTrapReturn, AtRunProcess, AtNestedReturn, AtEret, After,
        Belongs, FoundThread, InterruptedHandler, UserContext, LevelRegs, UserRegs
    <2>3. QED
      BY <2>1, <2>2
  <1>16. CASE ServeRead
    <2>0. gpr.sp = depth /\ depth \in Slots /\ frame[depth].trapCtx = depth
      <3>1. depth > 0 /\ currentThread = "kernel" /\ gpr = LevelRegs(depth)
        BY <1>16 DEF ServeRead, TrapInvariant, InHandler
      <3>2. gpr.sp = depth
        BY <3>1 DEF LevelRegs
      <3>3. depth \in Slots
        BY <3>1 DEF TrapInvariant, TypeOK, Slots
      <3>4. frame[depth] = [trapCtx |-> depth, oldThread |-> FoundThread(depth)]
        BY <1>16, <3>1, <3>3 DEF ServeRead, TrapInvariant, FramesBelow, Slots
      <3>5. QED
        BY <3>1, <3>2, <3>3, <3>4
    <2>a. PICK w \in Word : saved' = [saved EXCEPT ![depth].gpr.v0 = w]
      BY <1>16, <2>0 DEF ServeRead
    <2>b. saved[depth] \in Context /\ saved[depth].gpr \in Gpr
      BY <2>0 DEF TrapInvariant, TypeOK, Context
    <2>c. depth = 1
      <3>1. saved[depth].cause = SYSCALL
        BY <1>16, <2>0 DEF ServeRead, ReadsInteger, trapCtx
      <3>2. QED
        BY <1>16, <2>0, <3>1 DEF ServeRead, TrapInvariant, ContextsBelow, Belongs,
          InterruptedHandler, InHandler, Slots
    <2>1. TypeOK'
      <3>1. [saved[depth] EXCEPT !.gpr.v0 = w] \in Context
        BY <2>b DEF Context, Gpr
      <3>2. saved' \in [Slots -> Context]
        BY <2>0, <2>a, <3>1 DEF TrapInvariant, TypeOK
      <3>3. QED
        BY <1>16, <3>2 DEF ServeRead, TrapInvariant, TypeOK, KernelPC
    <2>2. Rest'
      <3>0. UserContext(saved[1])
        BY <1>16, <2>0, <2>c DEF ServeRead, TrapInvariant, ContextsBelow, Belongs, InHandler
      <3>a. saved'[1] = [saved[1] EXCEPT !.gpr.v0 = w]
        BY <2>0, <2>a, <2>c DEF TrapInvariant, TypeOK
      <3>1. UserContext(saved'[1])
        BY <3>0, <3>a, <2>b, <2>c DEF UserContext, UserRegs, Context
      <3>2. ContextsBelow'
        BY <1>16, <2>c, <3>1 DEF ServeRead, ContextsBelow, Belongs, TrapInvariant, TypeOK
      <3>3. FramesBelow'
        BY <1>16 DEF ServeRead, TrapInvariant, FramesBelow
      <3>4. QED
        BY <1>16, <3>2, <3>3 DEF ServeRead, TrapInvariant, KernelPrivileged, KernelPC,
          AtUser, AtBoot, AtKernelTrap, AtHandleTrap, InHandler, AtTrapReturn,
          AtRunProcess, AtNestedReturn, AtEret
    <2>3. QED
      BY <2>1, <2>2
  <1>17. CASE ServePrint
    <2>1. TypeOK'
      BY <1>17 DEF ServePrint, raiseTrap, trapped, TrapInvariant, TypeOK, Address, KernelPC, After, AtUser, AtEret
    <2>2. Rest'
      BY <1>17, <2>1 DEF ServePrint, raiseTrap, trapped, TrapInvariant, TypeOK, KernelPrivileged, KernelPC,
        ContextsBelow, FramesBelow, AtUser, AtBoot, AtKernelTrap, AtHandleTrap, InHandler,
        AtTrapReturn, AtRunProcess, AtNestedReturn, AtEret, After,
        Belongs, FoundThread, InterruptedHandler, UserContext, LevelRegs, UserRegs
    <2>3. QED
      BY <2>1, <2>2
  <1>18. CASE ExitHandler
    <2>0. /\ gpr.sp = depth /\ depth \in Slots /\ depth > 0
          /\ frame[depth] = [trapCtx |-> depth, oldThread |-> FoundThread(depth)]
      <3>1. depth > 0 /\ currentThread = "kernel" /\ gpr = LevelRegs(depth)
        BY <1>18 DEF oldThread, ExitHandler, TrapInvariant, InHandler
      <3>2. gpr.sp = depth
        BY <3>1 DEF LevelRegs
      <3>3. depth \in Slots
        BY <3>1 DEF TrapInvariant, TypeOK, Slots
      <3>4. frame[depth] = [trapCtx |-> depth, oldThread |-> FoundThread(depth)]
        BY <1>18, <3>1, <3>3 DEF oldThread, ExitHandler, TrapInvariant, FramesBelow, Slots
      <3>5. QED
        BY <3>1, <3>2, <3>3, <3>4
    <2>a. /\ currentThread' = FoundThread(depth)
          /\ pcb' = [pcb EXCEPT ![FoundThread(depth)] = saved[depth]]
      BY <1>18, <2>0 DEF oldThread, ExitHandler, trapCtx
    <2>b. FoundThread(depth) \in Thread /\ saved[depth] \in Context
      BY <2>0 DEF FoundThread, Thread, TrapInvariant, TypeOK
    <2>1. TypeOK'
      BY <1>18, <2>a, <2>b DEF oldThread, ExitHandler, TrapInvariant, TypeOK, KernelPC
    <2>2. Rest'
      <3>1. AtTrapReturn'
        BY <1>18, <2>0, <2>a, <2>b DEF oldThread, ExitHandler, TrapInvariant, TypeOK, AtTrapReturn
      <3>2. ContextsBelow' /\ FramesBelow'
        BY <1>18, <2>0, <2>a DEF oldThread, ExitHandler, TrapInvariant, ContextsBelow, FramesBelow, InHandler
      <3>3. QED
        BY <1>18, <3>1, <3>2 DEF oldThread, ExitHandler, TrapInvariant, KernelPrivileged, KernelPC,
          AtUser, AtBoot, AtKernelTrap, AtHandleTrap, InHandler, AtRunProcess,
          AtNestedReturn, AtEret
    <2>3. QED
      BY <2>1, <2>2
  <1>19. CASE TrapReturn
    <2>0. /\ gpr.sp = depth /\ depth \in Slots /\ depth > 0
          /\ currentThread = FoundThread(depth) /\ pcb[currentThread] = saved[depth]
          /\ depth - 1 \in 0..MaxDepth
      <3>1. /\ gpr.sp = depth /\ depth > 0
            /\ currentThread = FoundThread(depth) /\ pcb[currentThread] = saved[depth]
        BY <1>19 DEF depthLeft, TrapReturn, TrapInvariant, AtTrapReturn
      <3>2. depth \in Slots /\ depth - 1 \in 0..MaxDepth
        BY <3>1 DEF TrapInvariant, TypeOK, Slots
      <3>3. QED
        BY <3>1, <3>2
    <2>1. TypeOK'
      <3>1. gpr' \in Gpr
        BY <1>19, <2>0 DEF depthLeft, TrapReturn, TrapInvariant, TypeOK, Gpr
      <3>2. saved' \in [Slots -> Context] /\ frame' \in [Slots -> Frame]
        BY <1>19, <2>0, ZeroTypes DEF depthLeft, TrapReturn, TrapInvariant, TypeOK
      <3>3. QED
        BY <1>19, <2>0, <3>1, <3>2 DEF depthLeft, TrapReturn, TrapInvariant, TypeOK, KernelPC
    <2>2. Rest'
      BY <1>19, <2>1 DEF depthLeft, TrapReturn, raiseTrap, trapped, TrapInvariant, TypeOK, KernelPrivileged, KernelPC,
        ContextsBelow, FramesBelow, AtUser, AtBoot, AtKernelTrap, AtHandleTrap, InHandler,
        AtTrapReturn, AtRunProcess, AtNestedReturn, AtEret, After,
        Belongs, FoundThread, InterruptedHandler, UserContext, LevelRegs, UserRegs
    <2>3. QED
      BY <2>1, <2>2
  <1>20. CASE RunProcess
    <2>0. currentThread \in Thread /\ pcb[currentThread] \in Context
      BY <1>20 DEF statusRestored, registersRestored, RunProcess, TrapInvariant, TypeOK, AtRunProcess, FoundThread, Thread
    <2>1. TypeOK'
      <3>1. /\ pcb[currentThread].gpr \in Gpr /\ pcb[currentThread].epc \in Address
            /\ pcb[currentThread].cause \in Nat
        BY <2>0 DEF Context
      <3>2. gpr' \in Gpr /\ epc' \in Address /\ k1' \in Address /\ cause' \in Nat
        BY <1>20, <3>1 DEF statusRestored, registersRestored, RunProcess
      <3>3. QED
        BY <1>20, <3>2 DEF statusRestored, registersRestored, RunProcess, TrapInvariant, TypeOK, KernelPC
    <2>2. Rest'
      BY <1>20, <2>1 DEF statusRestored, registersRestored, RunProcess, raiseTrap, trapped, TrapInvariant, TypeOK, KernelPrivileged, KernelPC,
        ContextsBelow, FramesBelow, AtUser, AtBoot, AtKernelTrap, AtHandleTrap, InHandler,
        AtTrapReturn, AtRunProcess, AtNestedReturn, AtEret, After,
        Belongs, FoundThread, InterruptedHandler, UserContext, LevelRegs, UserRegs
    <2>3. QED
      BY <2>1, <2>2
  <1>21. CASE NestedReturn
    <2>1. TypeOK'
      BY <1>21 DEF NestedReturn, TrapInvariant, TypeOK, AtNestedReturn, KernelPC, After
    <2>2. Rest'
      BY <1>21, <2>1 DEF NestedReturn, raiseTrap, trapped, TrapInvariant, TypeOK, KernelPrivileged, KernelPC,
        ContextsBelow, FramesBelow, AtUser, AtBoot, AtKernelTrap, AtHandleTrap, InHandler,
        AtTrapReturn, AtRunProcess, AtNestedReturn, AtEret, After,
        Belongs, FoundThread, InterruptedHandler, UserContext, LevelRegs, UserRegs
    <2>3. QED
      BY <2>1, <2>2
  <1>22. CASE Eret
    <2>0. exl
      BY <1>22 DEF Eret, TrapInvariant, KernelPrivileged, KernelPC
    <2>1. TypeOK'
      <3>1. epc \in UserPC
        BY <1>22 DEF Eret, TrapInvariant, AtEret
      <3>2. After(epc) \in UserPC
        BY <3>1, AfterUser
      <3>3. QED
        BY <1>22, <2>0, <3>2 DEF Eret, TrapInvariant, TypeOK
    <2>2. Rest'
      BY <1>22, <2>0, <2>1 DEF Eret, raiseTrap, trapped, TrapInvariant, TypeOK, KernelPrivileged, KernelPC,
        ContextsBelow, FramesBelow, AtUser, AtBoot, AtKernelTrap, AtHandleTrap, InHandler,
        AtTrapReturn, AtRunProcess, AtNestedReturn, AtEret, After,
        Belongs, FoundThread, InterruptedHandler, UserContext, LevelRegs, UserRegs
    <2>3. QED
      BY <2>1, <2>2
  <1>23. CASE UNCHANGED vars
    BY <1>23 DEF vars, TrapInvariant, TypeOK, KernelPrivileged, ContextsBelow,
      FramesBelow, AtUser, AtBoot, AtKernelTrap, AtHandleTrap, InHandler,
      AtTrapReturn, AtRunProcess, AtNestedReturn, AtEret
  <1>24. QED
    BY <1>1, <1>2, <1>2a, <1>3, <1>4, <1>5, <1>6, <1>7, <1>8, <1>9, <1>10, <1>11, <1>12, <1>13, <1>14, <1>15, <1>16, <1>17, <1>18, <1>19, <1>20, <1>21, <1>22, <1>23
       DEF Next, User, Kernel

(* In every reachable state the stack, the depth counter, the PCBs and the *)
(* CPU are as the running block of asmglue.asm or handleTrap expects them. *)
THEOREM TrapInvariantHolds == Spec => []TrapInvariant
  BY InitInvariant, StepInvariant, PTL DEF Spec

(* Every variable keeps its type: in particular exceptionDepth never       *)
(* leaves 0..MaxDepth, so the unsigned char neither wraps below 0 nor      *)
(* above 255.                                                              *)
THEOREM TypeCorrect == Spec => []TypeOK
  <1>1. TrapInvariant => TypeOK
    BY DEF TrapInvariant
  <1>2. QED
    BY <1>1, TrapInvariantHolds, PTL

(* Kernel code always runs with EXL set, so none of its privileged         *)
(* instructions is refused.                                                *)
THEOREM KernelStaysPrivileged == Spec => []KernelPrivileged
  <1>1. TrapInvariant => KernelPrivileged
    BY DEF TrapInvariant
  <1>2. QED
    BY <1>1, TrapInvariantHolds, PTL

(* exceptionDepth tells user code from handlers and equals the number of   *)
(* contexts under the running handler, whatever traps nest.                *)
THEOREM DepthAgreesWithStack == Spec => []DepthMatchesStack
  <1>1. TrapInvariant => DepthMatchesStack
    <2> SUFFICES ASSUME TrapInvariant PROVE DepthMatchesStack
      OBVIOUS
    <2> USE DEF TrapInvariant, TypeOK
    <2>1. \A l : LevelRegs(l).sp = l
      BY DEF LevelRegs
    <2>2. pc \in {"handleTrap", "pre", "serve", "post", "exit", "trap_return",
                  "boot"} => depth = gpr.sp
      BY <2>1 DEF AtBoot, AtHandleTrap, InHandler, AtTrapReturn
    <2>3. pc = "run_process" => (depth = 0 <=> currentThread = "user")
      BY DEF AtRunProcess, FoundThread
    <2>4. pc = "nestedret" => depth = gpr.sp
      BY <2>1 DEF AtNestedReturn
    <2>5. pc \in UserPC => depth = 0
      BY DEF AtUser
    <2>6. QED
      BY <2>2, <2>3, <2>4, <2>5 DEF DepthMatchesStack
  <1>2. QED
    BY <1>1, TrapInvariantHolds, PTL

(* A handler that was interrupted by nested traps runs on with the         *)
(* register values it had.                                                 *)
THEOREM HandlerRegistersSurvive == Spec => []HandlerRegistersIntact
  <1>1. TrapInvariant => HandlerRegistersIntact
    BY DEF TrapInvariant, InHandler, HandlerRegistersIntact, LevelRegs
  <1>2. QED
    BY <1>1, TrapInvariantHolds, PTL

(* Only boot and the outermost handler write the user process's PCB.       *)
THEOREM UserPcbWrittenOutermost == Spec => UserPcbOnlyOutermost
  <1> DEFINE Allowed == pcb'["user"] # pcb["user"] =>
                           pc = "boot" \/ (pc = "exit" /\ depth = 1)
  <1>1. TrapInvariant /\ [Next]_vars => [Allowed]_vars
    <2> SUFFICES ASSUME TrapInvariant, Next PROVE Allowed
      BY DEF vars
    <2>1. CASE ExitHandler
      <3>1. /\ gpr = LevelRegs(depth) /\ depth \in 1..MaxDepth /\ pc = "exit"
            /\ currentThread = "kernel"
        BY <2>1 DEF oldThread, ExitHandler, TrapInvariant, TypeOK, InHandler
      <3>2. gpr.sp = depth
        BY <3>1 DEF LevelRegs
      <3>3. frame[depth].oldThread = FoundThread(depth)
        <4>1. depth \in 1..depth
          BY <3>1, DataAssumption DEF DataAssumption
        <4>2. frame[depth] = [trapCtx |-> depth, oldThread |-> FoundThread(depth)]
          BY <3>1, <4>1 DEF TrapInvariant, FramesBelow
        <4>3. QED
          BY <4>2
      <3>4. pcb' = [pcb EXCEPT ![FoundThread(depth)] = trapCtx]
        BY <2>1, <3>2, <3>3 DEF oldThread, ExitHandler
      <3>5. depth # 1 => pcb'["user"] = pcb["user"]
        BY <3>4 DEF FoundThread, TrapInvariant, TypeOK, Thread
      <3>6. QED
        BY <3>1, <3>5
    <2>2. CASE BootDone
      BY <2>2 DEF BootDone
    <2>3. CASE User \/ (Kernel /\ ~ExitHandler /\ ~BootDone)
      <3>1. pcb' = pcb
        BY <2>3 DEF trapStack, depthLeft, statusRestored, registersRestored, User, Kernel, UserStep, UserTrap, UserOverflow, UserPrivilegedTrap,
          UserMoveFrom, UserMoveTo, UserEret, UserTunnel, BootFault, KernelTrap,
          AssertThread, EnterHandler, HandlerStep, HandlerFault, ServeHalt,
          ServeRead, ServePrint, TrapReturn, RunProcess, NestedReturn, Eret,
          raiseTrap, trapped
      <3>2. QED
        BY <3>1
    <2>4. QED
      BY <2>1, <2>2, <2>3 DEF Next
  <1>2. QED
    BY <1>1, TrapInvariantHolds, PTL DEF Spec, UserPcbOnlyOutermost

-----------------------------------------------------------------------------
(***************************************************************************)
(* TrapPath implements the safety part of UserMachine for every program    *)
(* without privileged instructions: the initial state maps to the initial  *)
(* state and every step to a step or to none.                              *)
(***************************************************************************)

(* Boot is what the abstract machine starts in.                            *)
LEMMA InitRefines == Init => UM!UInit
  <1> SUFFICES ASSUME Init PROVE UM!UInit
    OBVIOUS
  <1>1. booting
    BY DEF Init, booting
  <1>2. pc = "boot" /\ pc \notin UserPC
    BY AddressAssumption DEF AddressAssumption, Init, KernelPC
  <1>3. userContext.epc = BeforeEntry /\ userContext.gpr = [v0 |-> 0, t |-> 0, sp |-> 0]
    BY <1>1, <1>2 DEF userContext, ZeroCtx, ZeroGpr
  <1>4. userSvc = "boot"
    BY <1>1 DEF userSvc
  <1>5. QED
    BY <1>3, <1>4 DEF Init, userCode, UM!UInit

(* A step the program cannot tell.                                         *)
Same == userContext'.epc = userContext.epc /\ userContext'.gpr = userContext.gpr
        /\ userSvc' = userSvc /\ userCode' = userCode /\ killed' = killed

(* It is a stuttering step of UserMachine.                                 *)
LEMMA SameStutters == Same => UNCHANGED UM!uvars
  BY DEF Same, UM!uvars


(* The fault in boot leaves the program where it is: not yet started.       *)
LEMMA BootFaultRefines ==
  ASSUME TrapInvariant, ~killed, BootFault PROVE Same
  <1> USE AddressAssumption, DataAssumption DEF AddressAssumption, DataAssumption, KernelPC
  <1> QED
    BY DEF BootFault, raiseTrap, trapped, TrapInvariant, AtBoot, Same, userContext, userSvc, userCode, booting, leaving, outermost

(* Saving the context moves it from the CPU to the stack.                  *)
LEMMA KernelTrapRefines ==
  ASSUME TrapInvariant, ~killed, KernelTrap PROVE Same
  <1> USE AddressAssumption, DataAssumption DEF AddressAssumption, DataAssumption, KernelPC
  <1>1. pc = "kernel_trap" /\ pc' = "handleTrap" /\ pc \notin UserPC /\ pc' \notin UserPC
    BY DEF trapStack, KernelTrap
  <1>2. /\ killed' = killed /\ currentThread' = currentThread /\ depth' = depth + 1
        /\ depth \in Nat
    BY DEF trapStack, KernelTrap, TrapInvariant, TypeOK
  <1>3. CASE currentThread = "null"
    BY <1>1, <1>2, <1>3 DEF Same, userContext, userSvc, userCode, booting
  <1>4. CASE currentThread = "user"
    <2>1. depth = 0
      BY <1>1, <1>4 DEF TrapInvariant, AtKernelTrap
    <2>a. saved' = [saved EXCEPT ![1] =
                      [gpr |-> gpr, epc |-> epc, exl |-> exl, cause |-> cause]]
      BY <2>1, 0 + 1 = 1 DEF trapStack, KernelTrap
    <2>2. saved'[1] = [gpr |-> gpr, epc |-> epc, exl |-> exl, cause |-> cause]
      BY <2>a DEF TrapInvariant, TypeOK, Slots
    <2>3. userSvc = "pending" /\ userSvc' = "pending"
      BY <1>1, <1>2, <1>4, <2>1 DEF userSvc, booting, leaving, outermost
    <2>4. userContext.epc = epc /\ userContext.gpr = gpr /\ userContext.cause = cause
      BY <1>1, <1>4, <2>1 DEF userContext, inCpu, booting
    <2>5. userContext' = saved'[1]
      BY <1>1, <1>2, <1>4, <2>1 DEF userContext, booting
    <2>6. QED
      BY <1>2, <2>2, <2>3, <2>4, <2>5 DEF Same, userCode
  <1>5. CASE currentThread = "kernel"
    <2>1. depth \in 1..(MaxDepth - 1) /\ gpr.sp = depth
      BY <1>1, <1>5 DEF TrapInvariant, AtKernelTrap, LevelRegs
    <2>2. saved' = [saved EXCEPT ![depth + 1] =
                      [gpr |-> gpr, epc |-> epc, exl |-> exl, cause |-> cause]]
      <3>1. depth > 0
        BY <2>1
      <3>2. QED
        BY <2>1, <3>1 DEF trapStack, KernelTrap
    <2>3. saved'[1] = saved[1] /\ (depth > 1 => saved'[2] = saved[2])
          /\ (depth = 1 => saved'[2].epc = epc)
      BY <2>1, <2>2 DEF TrapInvariant, TypeOK, Slots
    <2>4. outermost' = outermost
      BY <1>1, <1>2, <2>1, <2>3 DEF outermost
    <2>5. userContext' = userContext /\ userSvc' = userSvc
      BY <1>1, <1>2, <1>5, <2>1, <2>3, <2>4
         DEF userContext, userSvc, booting, leaving
    <2>6. QED
      BY <1>2, <2>5 DEF Same, userCode
  <1>6. QED
    BY <1>3, <1>4, <1>5 DEF TrapInvariant, TypeOK, Thread

(* Entering handleTrap shows nothing to the program.                        *)
LEMMA EnterHandlerRefines ==
  ASSUME TrapInvariant, ~killed, EnterHandler PROVE Same
  <1> USE AddressAssumption, DataAssumption DEF AddressAssumption, DataAssumption, KernelPC
  <1> QED
    BY DEF EnterHandler, TrapInvariant, TypeOK, AtHandleTrap, Same, userContext, userSvc, userCode, booting, leaving, outermost

(* Nor does the handler's own code.                                         *)
LEMMA HandlerStepRefines ==
  ASSUME TrapInvariant, ~killed, HandlerStep PROVE Same
  <1> USE AddressAssumption, DataAssumption DEF AddressAssumption, DataAssumption, KernelPC
  <1> QED
    BY DEF HandlerStep, After, TrapInvariant, InHandler, Same, userContext, userSvc, userCode, booting, leaving, outermost

(* Nor a trap it takes.                                                     *)
LEMMA HandlerFaultRefines ==
  ASSUME TrapInvariant, ~killed, HandlerFault PROVE Same
  <1> USE AddressAssumption, DataAssumption DEF AddressAssumption, DataAssumption, KernelPC
  <1> QED
    BY DEF HandlerFault, raiseTrap, trapped, TrapInvariant, InHandler, Same, userContext, userSvc, userCode, booting, leaving, outermost

(* Nor its last two lines: the saved context stays the program's.           *)
LEMMA ExitHandlerRefines ==
  ASSUME TrapInvariant, ~killed, ExitHandler PROVE Same
  <1> USE AddressAssumption, DataAssumption DEF AddressAssumption, DataAssumption, KernelPC
  <1>1. /\ pc = "exit" /\ pc' = "trap_return" /\ pc \notin UserPC /\ pc' \notin UserPC
        /\ currentThread = "kernel" /\ depth \in 1..MaxDepth /\ gpr = LevelRegs(depth)
        /\ depth' = depth /\ saved' = saved /\ killed' = killed
    BY DEF oldThread, ExitHandler, TrapInvariant, TypeOK, InHandler
  <1>2. currentThread' # "null"
    <2>1. gpr.sp = depth /\ gpr.sp \in Slots
      BY <1>1 DEF LevelRegs, Slots
    <2>2. frame[gpr.sp].oldThread \in Thread
      BY <2>1 DEF TrapInvariant, TypeOK, Frame
    <2>3. QED
      BY <2>2 DEF oldThread, ExitHandler, Thread
  <1>3. QED
    BY <1>1, <1>2 DEF Same, userContext, userSvc, userCode, booting, leaving, outermost

(* Unwinding moves it from the stack to the PCB.                            *)
LEMMA TrapReturnRefines ==
  ASSUME TrapInvariant, ~killed, TrapReturn PROVE Same
  <1> USE AddressAssumption, DataAssumption DEF AddressAssumption, DataAssumption, KernelPC
  <1>1. /\ pc = "trap_return" /\ pc' = "run_process"
        /\ pc \notin UserPC /\ pc' \notin UserPC
        /\ killed' = killed /\ currentThread' = currentThread /\ pcb' = pcb
    BY DEF depthLeft, TrapReturn
  <1>2. /\ depth \in 1..MaxDepth /\ gpr.sp = depth /\ depth' = depth - 1
        /\ currentThread = FoundThread(depth)
        /\ pcb[currentThread] = saved[depth]
        /\ currentThread # "null"
    BY <1>1 DEF depthLeft, TrapReturn, TrapInvariant, TypeOK, AtTrapReturn, FoundThread
  <1>3. saved' = [saved EXCEPT ![depth] = ZeroCtx]
    BY <1>2 DEF depthLeft, TrapReturn
  <1>4. CASE depth = 1
    <2>1. pcb'["user"] = saved[1]
      BY <1>1, <1>2, <1>4 DEF FoundThread
    <2>2. userSvc = "done" /\ userSvc' = "done"
      BY <1>1, <1>2, <1>4 DEF userSvc, booting, leaving, outermost
    <2>3. userContext = saved[1] /\ userContext' = saved[1]
      BY <1>1, <1>2, <1>4, <2>1 DEF userContext, booting
    <2>4. QED
      BY <1>1, <2>2, <2>3 DEF Same, userCode
  <1>5. CASE depth > 1
    <2>1. saved'[1] = saved[1] /\ (depth > 2 => saved'[2] = saved[2])
      BY <1>2, <1>3, <1>5 DEF TrapInvariant, TypeOK, Slots
    <2>2. depth = 2 => pcb'["kernel"].epc = saved[2].epc
      BY <1>1, <1>2 DEF FoundThread
    <2>3. outermost' = outermost
      BY <1>1, <1>2, <1>5, <2>1, <2>2 DEF outermost
    <2>4. userContext' = userContext /\ userSvc' = userSvc
      BY <1>1, <1>2, <1>5, <2>1, <2>3 DEF userContext, userSvc, booting, leaving
    <2>5. QED
      BY <1>1, <2>4 DEF Same, userCode
  <1>6. QED
    BY <1>2, <1>4, <1>5

(* run_process moves the context from the PCB to the CPU.                   *)
LEMMA RunProcessRefines ==
  ASSUME TrapInvariant, ~killed, RunProcess PROVE Same
  <1> USE AddressAssumption, DataAssumption DEF AddressAssumption, DataAssumption, KernelPC
  <1> QED
    BY DEF statusRestored, registersRestored, RunProcess, inCpu, TrapInvariant, TypeOK, AtRunProcess, FoundThread, Same, userContext, userSvc, userCode, booting, leaving, outermost

(* The return to an interrupted handler shows nothing to the program.       *)
LEMMA NestedReturnRefines ==
  ASSUME TrapInvariant, ~killed, NestedReturn PROVE Same
  <1> USE AddressAssumption, DataAssumption DEF AddressAssumption, DataAssumption, KernelPC
  <1> QED
    BY DEF NestedReturn, After, TrapInvariant, AtNestedReturn, Same, userContext, userSvc, userCode, booting, leaving, outermost

-----------------------------------------------------------------------------
(* A user instruction is the program's.                                    *)
LEMMA UserStepRefines ==
  ASSUME TrapInvariant, ~killed, UserStep PROVE UM!Compute
  <1> USE AddressAssumption, DataAssumption DEF AddressAssumption, DataAssumption, KernelPC
  <1>1. /\ pc \in UserPC /\ pc' \in UserPC /\ depth = 0 /\ depth' = 0
        /\ currentThread = "user" /\ currentThread' = "user" /\ killed' = killed
    BY DEF UserStep, TrapInvariant, AtUser
  <1>2. userSvc = "none" /\ userSvc' = "none" /\ userCode' = userCode
    BY <1>1 DEF userSvc, userCode, booting
  <1>3. userContext'.epc = pc' /\ userContext'.gpr = gpr'
    BY <1>1 DEF userContext, inCpu, booting
  <1>4. QED
    BY <1>1, <1>2, <1>3 DEF UserStep, UM!Compute, UM!UserRegs

(* A trap of the program is one it sees as pending.                        *)
LEMMA UserTrapRefines ==
  ASSUME TrapInvariant, ~killed, UserTrap PROVE UM!Trap
  <1> USE AddressAssumption, DataAssumption DEF AddressAssumption, DataAssumption, KernelPC
  <1>1. /\ pc \in UserPC /\ pc' = "kernel_trap" /\ depth = 0 /\ depth' = 0
        /\ currentThread = "user" /\ currentThread' = "user" /\ killed' = killed
        /\ gpr' = gpr /\ epc' = pc /\ cause' \in UserCodes
    BY DEF UserTrap, raiseTrap, trapped, TrapInvariant, AtUser
  <1>2. userSvc = "none" /\ userSvc' = "pending"
    BY <1>1 DEF userSvc, booting, leaving, outermost
  <1>3. /\ userContext.epc = pc /\ userContext'.epc = pc
        /\ userContext.gpr = gpr /\ userContext'.gpr = gpr
        /\ userContext'.cause = cause'
    BY <1>1 DEF userContext, inCpu, booting
  <1>4. QED
    BY <1>1, <1>2, <1>3 DEF UM!Trap, userCode

(* An addition that overflows is a trap that has changed a register.       *)
LEMMA UserOverflowRefines ==
  ASSUME TrapInvariant, ~killed, UserOverflow PROVE UM!Trap
  <1> USE AddressAssumption, DataAssumption DEF AddressAssumption, DataAssumption, KernelPC
  <1>1. /\ pc \in UserPC /\ pc' = "kernel_trap" /\ depth = 0 /\ depth' = 0
        /\ currentThread = "user" /\ currentThread' = "user" /\ killed' = killed
        /\ gpr' \in UM!UserRegs /\ epc' = pc /\ cause' = 12 /\ 12 \in UserCodes
    BY DEF UserOverflow, trapped, OVERFLOW, TrapInvariant, AtUser, UM!UserRegs
  <1>2. userSvc = "none" /\ userSvc' = "pending"
    BY <1>1 DEF userSvc, booting, leaving, outermost
  <1>3. /\ userContext.epc = pc /\ userContext'.epc = pc
        /\ userContext'.gpr = gpr' /\ userContext'.cause = cause'
    BY <1>1 DEF userContext, inCpu, booting
  <1>4. QED
    BY <1>1, <1>2, <1>3 DEF UM!Trap, userCode

(* The end of boot gives the program its first registers.                  *)
LEMMA BootDoneRefines ==
  ASSUME TrapInvariant, ~killed, BootDone PROVE UM!Load
  <1> USE AddressAssumption, DataAssumption DEF AddressAssumption, DataAssumption, KernelPC
  <1>1. /\ pc' = "run_process" /\ currentThread = "null" /\ currentThread' = "user"
        /\ depth' = 0 /\ killed' = killed
    BY DEF BootDone, TrapInvariant, AtBoot
  <1>2. PICK usp \in UserSp : pcb' = [pcb EXCEPT !["user"] = FirstCtx(usp)]
    BY DEF BootDone
  <1>3. pcb'["user"] = FirstCtx(usp)
    BY <1>2 DEF TrapInvariant, TypeOK, Thread
  <1>4. userSvc = "boot" /\ userSvc' = "done"
    BY <1>1 DEF userSvc, booting, leaving
  <1>5. userContext.epc = BeforeEntry
    BY <1>1 DEF userContext, booting, ZeroCtx
  <1>6. userContext' = FirstCtx(usp)
    BY <1>1, <1>3 DEF userContext, booting
  <1>7. QED
    BY <1>1, <1>4, <1>5, <1>6 DEF UM!Load, userCode, FirstCtx

(* A trap in boot stops the machine.                                       *)
LEMMA AssertThreadRefines ==
  ASSUME TrapInvariant, ~killed, AssertThread PROVE UM!Panic
  <1> USE AddressAssumption, DataAssumption DEF AddressAssumption, DataAssumption, KernelPC
  <1>1. userSvc = "boot" /\ FaultCodes # {}
    BY DEF AssertThread, TrapInvariant, AtHandleTrap, userSvc, booting
  <1>2. Same \/ (killed' /\ userContext' = userContext /\ userSvc' = userSvc)
    BY DEF AssertThread, userContext, userSvc, inCpu, booting, leaving, outermost
  <1>3. QED
    BY <1>1, <1>2 DEF AssertThread, Same, UM!Panic, userCode

(* What the refinement needs to know of a handler about to serve.          *)
LEMMA Serving ==
  ASSUME TrapInvariant, pc = "serve"
  PROVE  /\ depth \in 1..MaxDepth /\ trapCtx = saved[depth]
         /\ frame[gpr.sp].trapCtx = depth
         /\ userContext = saved[1] /\ userSvc \in {"pending", "done"}
         /\ depth = 1 => userSvc = "pending"
         /\ depth > 1 => saved[depth].cause \in FaultCodes
  <1> USE AddressAssumption, DataAssumption DEF AddressAssumption, DataAssumption, KernelPC
  <1>1. depth \in 1..MaxDepth /\ currentThread = "kernel" /\ gpr.sp = depth
    BY DEF TrapInvariant, TypeOK, InHandler, LevelRegs
  <1>2. frame[depth] = [trapCtx |-> depth, oldThread |-> FoundThread(depth)]
    <2>1. depth \in 1..depth
      BY <1>1
    <2>2. QED
      BY <1>1, <2>1 DEF TrapInvariant, FramesBelow
  <1>3. trapCtx = saved[depth] /\ frame[gpr.sp].trapCtx = depth
    BY <1>1, <1>2 DEF trapCtx
  <1>4. depth > 1 => saved[depth].cause \in FaultCodes
    BY <1>1 DEF TrapInvariant, ContextsBelow, Belongs, InterruptedHandler
  <1>5. /\ userContext = saved[1] /\ userSvc \in {"pending", "done"}
        /\ depth = 1 => userSvc = "pending"
    BY <1>1 DEF userContext, userSvc, booting, leaving, outermost
  <1>6. QED
    BY <1>1, <1>3, <1>4, <1>5

(* Halt, on the program's behalf or on a fault of the kernel's own.        *)
LEMMA ServeHaltRefines ==
  ASSUME TrapInvariant, ~killed, ServeHalt PROVE UM!Stop \/ UM!Panic
  <1>1. pc = "serve" /\ killed' = TRUE /\ Halts(saved[depth])
    BY Serving DEF ServeHalt
  <1>2. userContext' = userContext /\ userSvc' = userSvc /\ userCode' = userCode
    BY DEF ServeHalt, userContext, userSvc, userCode, inCpu, booting, leaving, outermost
  <1>3. CASE depth = 1
    <2>1. userSvc = "pending" /\ userCode = saved[1].cause /\ userContext = saved[1]
      BY <1>1, <1>3, Serving DEF userCode
    <2>2. QED
      BY <1>1, <1>2, <1>3, <2>1
         DEF Halts, SYSCALL, RI, OVERFLOW, UM!Stop, UM!Stops
  <1>4. CASE depth > 1
    <2>1. saved[depth].cause \in FaultCodes /\ saved[depth].cause # SYSCALL
      BY <1>1, <1>4, Serving, CodeAssumption DEF CodeAssumption
    <2>2. FaultCodes \cap {10, 12} # {}
      BY <1>1, <2>1 DEF Halts, RI, OVERFLOW
    <2>3. userSvc \in {"pending", "done"}
      BY <1>1, Serving
    <2>4. QED
      BY <1>1, <1>2, <2>2, <2>3 DEF UM!Panic
  <1>5. QED
    BY <1>1, <1>3, <1>4, Serving

(* The integer goes into the program's v0 and nowhere else.                *)
LEMMA ServeReadRefines ==
  ASSUME TrapInvariant, ~killed, ServeRead PROVE UM!Serve
  <1> USE AddressAssumption, DataAssumption DEF AddressAssumption, DataAssumption, KernelPC
  <1>1. /\ pc = "serve" /\ pc' = "post" /\ killed' = killed /\ depth' = depth
        /\ currentThread' = currentThread /\ ReadsInteger(saved[depth])
    BY Serving DEF ServeRead
  <1>2. depth = 1
    <2>1. depth \in 1..MaxDepth /\ (depth > 1 => saved[depth].cause \in FaultCodes)
      BY <1>1, Serving
    <2>2. saved[depth].cause = SYSCALL
      BY <1>1 DEF ReadsInteger
    <2>3. SYSCALL \notin FaultCodes
      BY CodeAssumption DEF CodeAssumption
    <2>4. QED
      BY <2>1, <2>2, <2>3
  <1>3. PICK w \in Word : saved' = [saved EXCEPT ![1].gpr.v0 = w]
    BY <1>1, <1>2, Serving DEF ServeRead
  <1>4. saved[1] \in Context
    BY <1>2 DEF TrapInvariant, TypeOK, Slots
  <1>5. /\ saved'[1].gpr = [saved[1].gpr EXCEPT !.v0 = w]
        /\ saved'[1].epc = saved[1].epc
    <2>1. saved'[1] = [saved[1] EXCEPT !.gpr.v0 = w]
      <3>1. saved \in [Slots -> Context] /\ 1 \in Slots
        BY DEF TrapInvariant, TypeOK, Slots
      <3>2. QED
        BY <1>3, <3>1
    <2>2. QED
      BY <1>4, <2>1 DEF Context
  <1>6. currentThread = "kernel"
    BY <1>1 DEF TrapInvariant, InHandler
  <1>7. userSvc = "pending" /\ userContext = saved[1]
    BY <1>1, <1>2, Serving
  <1>8. userSvc' = "done" /\ userContext' = saved'[1]
    BY <1>1, <1>2, <1>6 DEF userSvc, userContext, booting, leaving, outermost
  <1>9. QED
    BY <1>1, <1>2, <1>5, <1>7, <1>8
       DEF ReadsInteger, SYSCALL, userCode, UM!Serve, UM!Stops

(* The other services change nothing the program can see; a nested         *)
(* handler's not even that a service was done.                             *)
LEMMA ServePrintRefines ==
  ASSUME TrapInvariant, ~killed, ServePrint PROVE UM!Serve \/ Same
  <1> USE AddressAssumption, DataAssumption DEF AddressAssumption, DataAssumption, KernelPC
  <1>1. /\ pc = "serve" /\ pc' = "post" /\ killed' = killed /\ depth' = depth
        /\ currentThread' = currentThread /\ saved' = saved
        /\ ~Halts(saved[depth]) /\ ~ReadsInteger(saved[depth])
    BY Serving DEF ServePrint
  <1>2. currentThread = "kernel"
    BY <1>1 DEF TrapInvariant, InHandler
  <1>3. userContext = saved[1] /\ userContext' = saved[1]
    BY <1>1, <1>2, Serving DEF userContext, booting
  <1>4. CASE depth = 1
    <2>1. userSvc = "pending" /\ userSvc' = "done"
      BY <1>1, <1>2, <1>4, Serving DEF userSvc, booting, leaving, outermost
    <2>2. QED
      BY <1>1, <1>3, <1>4, <2>1 DEF Halts, ReadsInteger, SYSCALL, RI, OVERFLOW,
         userCode, UM!Serve, UM!Stops
  <1>5. CASE depth > 1
    <2>1. userSvc' = userSvc
      BY <1>1, <1>2, <1>5 DEF userSvc, booting, leaving, outermost
    <2>2. QED
      BY <1>1, <1>3, <2>1 DEF Same, userCode
  <1>6. QED
    BY <1>1, <1>4, <1>5, Serving

(* eret puts the program behind the instruction that trapped.              *)
LEMMA EretRefines ==
  ASSUME TrapInvariant, ~killed, Eret PROVE UM!Resume
  <1> USE AddressAssumption, DataAssumption DEF AddressAssumption, DataAssumption, KernelPC
  <1>1. /\ pc = "eret" /\ exl /\ depth = 0 /\ currentThread = "user" /\ epc \in UserPC
    BY DEF Eret, TrapInvariant, KernelPrivileged, AtEret
  <1>2. /\ pc' = NextPC[epc] /\ pc' \in UserPC /\ gpr' = gpr /\ killed' = killed
        /\ depth' = 0 /\ currentThread' = "user"
    BY <1>1, AfterUser DEF Eret
  <1>3. userSvc = "done" /\ userSvc' = "none"
    BY <1>1, <1>2 DEF userSvc, booting, leaving
  <1>4. /\ userContext.epc = epc /\ userContext.gpr = gpr
        /\ userContext'.epc = pc' /\ userContext'.gpr = gpr
    BY <1>1, <1>2 DEF userContext, inCpu, booting
  <1>5. QED
    BY <1>2, <1>3, <1>4 DEF UM!Resume, userCode

-----------------------------------------------------------------------------
(* Every step of the kernel and of an unprivileged program is one the      *)
(* program can tell, or none.                                              *)
LEMMA StepRefines ==
  ASSUME TrapInvariant, UserOps = {}, [Next]_vars
  PROVE  [UM!UNext]_(UM!uvars)
  <1>1. CASE Next
    <2>1. ~killed
      BY <1>1 DEF Next
    <2>2. CASE User
      <3>1. UserStep \/ UserTrap \/ UserOverflow
        BY <2>2 DEF User, UserPrivilegedTrap, UserMoveFrom, UserMoveTo, UserEret,
                    UserTunnel
      <3>2. QED
        BY <2>1, <3>1, UserStepRefines, UserTrapRefines, UserOverflowRefines DEF UM!UNext
    <2>3. CASE BootDone \/ AssertThread \/ ServeHalt \/ ServeRead \/ Eret
      BY <2>1, <2>3, BootDoneRefines, AssertThreadRefines, ServeHaltRefines,
         ServeReadRefines, EretRefines DEF UM!UNext
    <2>4. CASE ServePrint
      BY <2>1, <2>4, ServePrintRefines, SameStutters DEF UM!UNext
    <2>5. CASE \/ BootFault \/ KernelTrap \/ EnterHandler \/ HandlerStep
               \/ HandlerFault \/ ExitHandler \/ TrapReturn \/ RunProcess
               \/ NestedReturn
      <3>1. Same
        BY <2>1, <2>5, BootFaultRefines, KernelTrapRefines, EnterHandlerRefines,
           HandlerStepRefines, HandlerFaultRefines, ExitHandlerRefines,
           TrapReturnRefines, RunProcessRefines, NestedReturnRefines
      <3>2. QED
        BY <3>1, SameStutters
    <2>6. QED
      BY <1>1, <2>2, <2>3, <2>4, <2>5 DEF Next, Kernel
  <1>2. CASE UNCHANGED vars
    <2>1. Same
      BY <1>2 DEF vars, Same, userContext, userSvc, userCode, inCpu, booting,
                  leaving, outermost
    <2>2. QED
      BY <2>1, SameStutters
  <1>3. QED
    BY <1>1, <1>2

(* For every program without privileged instructions, the kernel and the   *)
(* machine keep the promise of UserMachine: a trap, with whatever traps    *)
(* nest in it, is to the program one instruction that changes at most v0,  *)
(* and it goes on at the next instruction.                                 *)
THEOREM KernelKeepsPromise == UserOps = {} /\ Spec => UM!USafety
  <1> SUFFICES ASSUME UserOps = {} PROVE Spec => UM!USafety
    OBVIOUS
  <1>1. TrapInvariant /\ [Next]_vars => [UM!UNext]_(UM!uvars)
    BY StepRefines
  <1>2. QED
    BY <1>1, InitRefines, TrapInvariantHolds, PTL DEF Spec, UM!USafety
=============================================================================
