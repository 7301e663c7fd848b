------------------------------- MODULE Loader -------------------------------
(***************************************************************************)
(* The host's half of starting up: main.cpp takes the arguments, the       *)
(* KernelLoader (loader/Loader.cpp) takes kernel.elf apart and             *)
(* Machine::loadKernel (machine/Hardware.cpp) lays it and the arguments    *)
(* into memory.                                                            *)
(*                                                                         *)
(* ELFIO's parsing is not modelled: a kernel file is the record of what it *)
(* finds.  The kernel has .text, .data and the three globals, whose        *)
(* entries follow those of local symbols in the table, as ELF asks; and it *)
(* is big-endian, so that a word of text is its bytes in order.            *)
(***************************************************************************)
EXTENDS Integers, Sequences, SequencesExt

CONSTANTS
    Address,    \* memory
    Chars,      \* what a byte may be, besides NUL
    Kernels,    \* kernel files
    ArgLists,   \* what the command line may hold behind the program's name
    ArgLen,     \* argv[4][64] of boot.cpp: the 64,
    ArgSlots,   \* and the 4
    WordBytes   \* bytes of a word of text, 4

Symbol == {"kernel_trap", "argc", "argv"}

(* What a cell of memory holds: a byte, or a word that counts.             *)
byte(c)  == [byte |-> c]
count(n) == [count |-> n]
NUL      == byte("nul")

Text == [byte : Chars]
Byte == Text \cup {NUL}
Cell == Byte \cup [count : Nat]

ASSUME LoaderAssumption ==
    /\ Address \subseteq Nat /\ \A a, b \in Address : a..b \subseteq Address
    /\ "nul" \notin Chars
    /\ ArgLen \in Nat \ {0} /\ ArgSlots \in Nat \ {0} /\ WordBytes \in Nat \ {0}
    /\ \A k \in Kernels, s \in Symbol : \E i \in DOMAIN k.symbols :
          /\ k.symbols[i] = [name |-> s, value |-> k.globals[s]]
          /\ \A j \in (i + 1)..Len(k.symbols) : k.symbols[j].name # s

(* linker.ld puts .text, .data and .bss one behind the other; which of     *)
(* argc and argv comes first in .bss is the compiler's choice.             *)
ASSUME KernelAssumption ==
    \A k \in Kernels :
        /\ k.symbols \in Seq([name : STRING, value : Nat])
        /\ k.text \in Seq(Byte) /\ k.data \in Seq(Byte)
        /\ k.textStart \in Address /\ k.dataStart \in Nat
        /\ k.globals["argc"] \in Address /\ k.globals["argv"] \in Address
        /\ k.textStart + Len(k.text) <= k.dataStart
        /\ k.dataStart + Len(k.data) <= k.globals["argc"]
        /\ k.dataStart + Len(k.data) <= k.globals["argv"]
        /\ \/ k.globals["argc"] < k.globals["argv"]
           \/ k.globals["argc"] >= k.globals["argv"] + ArgLen * ArgSlots

(* Arguments are strings, and memory does not end with them.               *)
ASSUME ArgAssumption ==
    \A as \in ArgLists :
        /\ as \in Seq(Seq(Text))
        /\ \A k \in Kernels : \E z \in Address : \A i \in DOMAIN as :
              k.globals["argv"] + ArgLen * (i - 1) + Len(as[i]) <= z

VARIABLES
    step,       \* how far starting up has come
    args,       \* the command line
    kernel,     \* the kernel file, if there is one: at most one record
    image,      \* KernelBootInformation
    mem,        \* RAM
    pc          \* program counter

loaderVars == <<step, args, kernel, image, mem, pc>>

noImage == [bootEntry |-> 0, trapEntry |-> 0, argc |-> 0, argv |-> 0,
            textStart |-> 0, text |-> <<>>, dataStart |-> 0, data |-> <<>>]

LoaderInit ==
    /\ step = "main"
    /\ args \in ArgLists
    /\ kernel \in {<<>>} \cup {<<k>> : k \in Kernels}
    /\ image = noImage
    /\ mem = [a \in Address |-> NUL]
    /\ pc = 0

(* Memory with s from address a on.                                        *)
placed(m, a, s) ==
    [b \in Address |-> IF b \in a..(a + Len(s) - 1) THEN s[b - a + 1] ELSE m[b]]

-----------------------------------------------------------------------------
(* main(): there must be a program to run.                                 *)
Main ==
    /\ step = "main"
    /\ step' = IF args = <<>> THEN "exit" ELSE "parse"
    /\ UNCHANGED <<args, kernel, image, mem, pc>>

(* A symbol's value: of its first entry, and of its last.                  *)
firstValue(k, s) ==
    k.symbols[SelectInSeq(k.symbols, LAMBDA e : e.name = s)].value
value(k, s) ==
    k.symbols[SelectLastInSeq(k.symbols, LAMBDA e : e.name = s)].value

(* Bytes in whole words: what follows the last one is not read.            *)
wholeWords(s) == SubSeq(s, 1, (Len(s) \div WordBytes) * WordBytes)

ParseKernel ==
    /\ step = "parse"
    /\ IF kernel = <<>>
       THEN step' = "exit" /\ UNCHANGED image
       ELSE LET k == kernel[1]
            IN  /\ step' = "load"
                /\ image' = [bootEntry |-> k.entry,
                             trapEntry |-> value(k, "kernel_trap"),
                             argc      |-> value(k, "argc"),
                             argv      |-> value(k, "argv"),
                             textStart |-> k.textStart,
                             text      |-> wholeWords(k.text),
                             dataStart |-> k.dataStart,
                             data      |-> k.data]
    /\ UNCHANGED <<args, kernel, mem, pc>>

(* Rows of argv one byte short, and as they are.                           *)
shortRow(i) == image.argv + (ArgLen - 1) * (i - 1)
row(i)      == image.argv + ArgLen * (i - 1)

(* One argument after the other, whatever their number and lengths.        *)
withArguments(m) ==
    LET upTo[i \in 0..Len(args)] ==
            IF i = 0 THEN placed(m, image.argc, <<count(Len(args))>>)
            ELSE placed(upTo[i - 1], row(i), args[i])
    IN  upTo[Len(args)]

LoadKernel ==
    /\ step = "load" /\ step' = "boot"
    /\ mem' = withArguments(placed(placed(mem, image.textStart, image.text),
                                   image.dataStart, image.data))
    /\ pc' = image.bootEntry
    /\ UNCHANGED <<args, kernel, image>>
=============================================================================
