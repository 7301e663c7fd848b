-------------------------------- MODULE Cpu --------------------------------
(***************************************************************************)
(* CPU::cycle (machine/CPU.cpp): fetch through a cache of decoded          *)
(* instructions, run, add 4 to pc; a Trap thrown on the way goes to        *)
(* Machine::raiseTrap.  The cache is indexed by address and nothing ever   *)
(* drops an entry, whatever is stored over the word it came from.  A word  *)
(* that decode refuses leaves an empty pointer in the cache and is decoded *)
(* again the next time.                                                    *)
(***************************************************************************)
EXTENDS Isa

CONSTANTS
    Images,         \* what loadKernel may leave: [mem, entry, encoding]
    TrapEntry,      \* Machine::trapEntry
    Uninitialised   \* values hi and lo may be found with

(* A word of few bits cannot name all instructions: an image says what     *)
(* each word stands for, a choice of 2 ^ Width words of the real machine.  *)
Encoding == [Word -> Instruction \cup {Reserved}]

ASSUME ImageAssumption ==
    /\ \A im \in Images : /\ im.mem \in [Word -> Byte] /\ im.entry \in Word
                          /\ im.encoding \in Encoding
    /\ TrapEntry \in Word
    /\ Uninitialised \subseteq Word

VARIABLES
    encoding,
    st,         \* registerFile, hiLo, programCounter and the RAM
    epc, cause, \* what raiseTrap writes to coprocessor 0
    alive,      \* the emulator runs
    cache,      \* instructionCache
    changed,    \* history: cached addresses whose word was overwritten since
    calls       \* history: the call whose link a register holds

vars == <<encoding, st, epc, cause, alive, cache, changed, calls>>

Empty  == Nothing("empty")
NoCall == WordMod

CpuTypeOK ==
    /\ encoding \in Encoding
    /\ st \in State
    /\ epc \in Word /\ cause \in {0, SYSCALL, RI, OVERFLOW, TRAP}
    /\ alive \in BOOLEAN
    /\ cache \in [Word -> Instruction \cup {Empty}]
    /\ changed \subseteq Word
    /\ calls \in [Reg -> Word \cup {NoCall}]

(* The constructor zeroes the registers and leaves hi and lo as they are.  *)
Booted(im, h, l) ==
    [reg |-> [r \in Reg |-> 0], fpr |-> [r \in Reg |-> 0], hi |-> h, lo |-> l, pc |-> im.entry,
     mem |-> im.mem]

Start == {[encoding |-> im.encoding, st |-> Booted(im, h, l)] :
             im \in Images, h \in Uninitialised, l \in Uninitialised}

Init ==
    /\ \E s \in Start : encoding = s.encoding /\ st = s.st
    /\ epc = 0 /\ cause = 0
    /\ alive = TRUE
    /\ cache = [a \in Word |-> Empty]
    /\ changed = {}
    /\ calls = [r \in Reg |-> NoCall]

cached == {a \in Word : cache[a] # Empty}

decode(a) == encoding[getWord(st.mem, a)]

(* instructionCache[programCounter], filled by decode if it is empty.      *)
current == IF st.pc \in cached THEN cache[st.pc] ELSE decode(st.pc)

(* The entry is filled before the instruction runs; filled after it, it    *)
(* would stand at the next address.                                        *)
slotAfterRun == st'.pc
slot == st.pc

linked(i) == IF i.op = "jal" THEN {RA} ELSE IF i.op = "jalr" THEN {i.rd} ELSE {}

(* What holds of every instruction that was decoded, however it ends.      *)
ran(i) ==
    /\ cache' = [cache EXCEPT ![slot] = i]
    /\ changed' = changed \cup
          {a \in cached \cup {st.pc} :
              getWord(st'.mem, a) # getWord(st.mem, a)}
    /\ calls' = [r \in Reg |->
          IF r \in linked(i) THEN st.pc
          ELSE IF st'.reg[r] = st.reg[r] THEN calls[r] ELSE NoCall]
    /\ UNCHANGED encoding

(* Saving the address behind the instruction, and the one it has.          *)
trapPcPast(s) == wrap(s.pc + 4)
trapPc(s) == s.pc

raiseTrap(s, code) ==
    /\ epc' = trapPc(s) /\ cause' = code
    /\ st' = [s EXCEPT !.pc = TrapEntry]
    /\ UNCHANGED alive

Complete(i) ==
    /\ \E o \in run(i, st) : o.trap = NOTRAP /\ st' = o.st
    /\ UNCHANGED <<epc, cause, alive>>
    /\ ran(i)

Throw(i) ==
    /\ \E o \in run(i, st) : o.trap \notin {NOTRAP, DIES} /\ raiseTrap(o.st, o.trap)
    /\ ran(i)

Die(i) ==
    /\ \E o \in run(i, st) : o.trap = DIES
    /\ alive' = FALSE
    /\ UNCHANGED <<st, epc, cause>>
    /\ ran(i)

DecodeThrows ==
    /\ raiseTrap(st, RI)
    /\ UNCHANGED <<encoding, cache, changed, calls>>

Cycle == /\ current # Reserved
         /\ Complete(current) \/ Throw(current) \/ Die(current)

Next == alive /\ (Cycle \/ (current = Reserved /\ DecodeThrows))

Spec == Init /\ [][Next]_vars
-----------------------------------------------------------------------------
(* A cached instruction is what the memory holds, except where the word    *)
(* was overwritten after it had been executed: nothing else (a trap, a     *)
(* wrapped pc, an unaligned fetch of overlapping words) makes one stale.   *)
CacheMatches == \A a \in cached : cache[a] = decode(a) \/ a \in changed

(* A trap leaves the machine as the instruction found it, at the address   *)
(* of that instruction, but for the register that an overflow has stored.  *)
PreciseTraps ==
    [][st'.pc = TrapEntry /\ (epc' # epc \/ cause' # cause) =>
          /\ epc' = st.pc
          /\ st'.mem = st.mem /\ st'.fpr = st.fpr /\ st'.hi = st.hi /\ st'.lo = st.lo
          /\ \A r \in Reg : st'.reg[r] # st.reg[r] =>
                cause' = OVERFLOW /\ r = current.rt]_vars

(* jr through a link goes to the instruction behind the call, however many *)
(* instructions, traps and other calls lie between.                        *)
ReturnsBehindCall ==
    [][current # Reserved /\ current.op = "jr" /\ calls[current.rs] # NoCall =>
          st'.pc = wrap(calls[current.rs] + 4)]_vars

(* The CPU with its cache is the processor without.                        *)
Arch == INSTANCE Architecture WITH
            WordAt <- getWord, Runs <- run, fetched <- cached,
            NoTrap <- NOTRAP, Dies <- DIES, ReservedCode <- RI
ImplementsArchitecture == Arch!ArchSpec

(* "recover fib(n-1) and sum" (fibrec.asm): add puts the sum in rd.        *)
AddSums ==
    [][current # Reserved /\ current.op = "add" /\ st'.pc # TrapEntry =>
          st'.reg[current.rd] = wrap(st.reg[current.rs] + st.reg[current.rt])]_vars
=============================================================================
