---------------------------- MODULE Architecture ----------------------------
(***************************************************************************)
(* The processor as a program sees it, for any instruction set and with no *)
(* instruction cache: each step executes what the memory holds at pc.  As  *)
(* MIPS does, it promises nothing of an instruction whose word was         *)
(* overwritten after it had been executed once.                            *)
(***************************************************************************)
CONSTANTS
    Reserved,           \* the meaning of a word that is no instruction
    Start,              \* [encoding, st]: how the machine may start
    TrapEntry,
    WordAt(_, _),       \* the word of memory at an address
    Runs(_, _),         \* the ways an instruction can end in a state
    NoTrap, Dies,       \* ends that are no trap
    ReservedCode        \* exception code of a word that is no instruction

VARIABLES
    encoding,   \* what each word means
    st,         \* registers, pc and memory
    epc, cause, \* where and why the last trap was taken
    alive,
    fetched,    \* addresses executed so far
    changed     \* those of them that were overwritten since

archVars == <<encoding, st, epc, cause, alive, fetched, changed>>

ArchInit ==
    /\ \E s \in Start : encoding = s.encoding /\ st = s.st
    /\ epc = 0 /\ cause = 0 /\ alive = TRUE
    /\ fetched = {} /\ changed = {}

InMemory == encoding[WordAt(st.mem, st.pc)]

(* What may be executed at pc.                                             *)
Fetched == (IF st.pc \in changed THEN {encoding[w] : w \in DOMAIN encoding}
                                 ELSE {InMemory}) \ {Reserved}

Trap(s, code) ==
    /\ st' = [s EXCEPT !.pc = TrapEntry]
    /\ epc' = s.pc /\ cause' = code

Execute ==
    /\ alive
    /\ \E i \in Fetched : \E o \in Runs(i, st) :
          /\ o.trap = NoTrap => st' = o.st /\ UNCHANGED <<epc, cause>>
          /\ o.trap = Dies => UNCHANGED <<st, epc, cause>>
          /\ o.trap \notin {NoTrap, Dies} => Trap(o.st, o.trap)
          /\ alive' = (o.trap # Dies)
    /\ fetched' = fetched \cup {st.pc}
    /\ changed' = changed \cup
          {a \in fetched' : WordAt(st'.mem, a) # WordAt(st.mem, a)}
    /\ UNCHANGED encoding

Refuse ==
    /\ alive
    /\ st.pc \notin changed /\ InMemory = Reserved
    /\ Trap(st, ReservedCode)
    /\ UNCHANGED <<encoding, alive, fetched, changed>>

ArchNext == Execute \/ Refuse

ArchSpec == ArchInit /\ [][ArchNext]_archVars
=============================================================================
