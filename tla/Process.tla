------------------------------ MODULE Process ------------------------------
(***************************************************************************)
(* The kernel's half of starting up: cppmain (kernel/boot.cpp) reads the   *)
(* arguments at its own addresses of argc and argv, and PCB's constructor  *)
(* (kernel/Process.cpp) loads the init program, as a plain image if        *)
(* "-spim" is given and else from the sections of an ELF file.             *)
(*                                                                         *)
(* A file is its bytes and, for ELF files, its entry and sections: what    *)
(* the code reads through the header, the section headers and the table of *)
(* names.  From a file that is none it reads some values all the same.     *)
(* How read() and seek() do their work is KernelFile's matter.             *)
(***************************************************************************)
EXTENDS Loader

CONSTANTS
    Disks,      \* host file systems, path -> file
    Flag,       \* "-spim"
    TextStart,  \* 0x00400024
    DataStart,  \* 0x10008000
    ReadSize,   \* bytes asked of a read() of a plain image, 256
    Extent      \* what an uninitialised offset and size may be

ASSUME ProcessAssumption ==
    /\ Flag \in Seq(Text) /\ Len(Flag) < ArgLen
    /\ ReadSize \in Nat \ {0}
    /\ TextStart \in Address /\ DataStart \in Address
    /\ Extent \subseteq [offset : Nat, size : Nat]

(* A file is smaller than the room from text to data, and from there to    *)
(* the kernel.  The sections of an ELF file lie in it, and no two of them  *)
(* have the name .text, or .data.                                          *)
ASSUME FileAssumption ==
    \A d \in Disks : \A p \in DOMAIN d :
        LET f == d[p]
            n == Len(f.bytes)
        IN  /\ f.bytes \in Seq(Byte)
            /\ TextStart + n <= DataStart
            /\ \A k \in Kernels : DataStart + n <= k.textStart
            /\ f.elf \in BOOLEAN
            /\ f.sections \in Seq([name : STRING, offset : Nat, size : Nat])
            /\ f.elf => \A i, j \in DOMAIN f.sections :
                  /\ f.sections[i].offset + f.sections[i].size <= n
                  /\ f.sections[i].name = f.sections[j].name =>
                        i = j \/ f.sections[i].name \notin {".text", ".data"}

VARIABLES
    disk,       \* the host's files
    program,    \* binaryFile
    fromSpim,
    position,   \* offset of the File
    info        \* entry, .text and .data as found

pcbVars   == <<program, fromSpim, position, info>>
startVars == <<loaderVars, disk, pcbVars>>

noInfo == [entry |-> 0, text |-> [offset |-> 0, size |-> 0],
           data |-> [offset |-> 0, size |-> 0]]

StartInit ==
    /\ LoaderInit
    /\ disk \in Disks
    /\ program = <<>> /\ fromSpim = FALSE /\ position = 0 /\ info = noInfo

(* The string at address a: up to the first NUL, as is the first byte of a *)
(* word that counts.                                                       *)
cstring(a) ==
    LET ends == {b \in Address : b >= a /\ mem[b] \notin Text}
        end  == CHOOSE b \in ends : \A c \in ends : b <= c
    IN  [i \in 1..(end - a) |-> mem[a + i - 1]]

(* Whether a word is more than 1, which one of characters is.              *)
several(c) == c \in Text \/ c.count > 1

(* Where the kernel's linker put a global.                                 *)
global(s) == kernel[1].globals[s]

-----------------------------------------------------------------------------
(* cppmain up to new PCB(argv[0], fromSpim), which opens the file.         *)
Boot ==
    /\ step = "boot"
    /\ program' = cstring(global("argv"))
    /\ fromSpim' = /\ several(mem[global("argc")])
                   /\ cstring(global("argv") + ArgLen) = Flag
    /\ step' = IF fromSpim' THEN "plain" ELSE "header"
    /\ UNCHANGED <<args, kernel, image, mem, pc, disk, position, info>>

(* A file that does not exist is opened without a complaint: the first     *)
(* read ends the emulator.                                                 *)
ReadFails ==
    /\ step \in {"plain", "header"} /\ program \notin DOMAIN disk
    /\ step' = "terminated"
    /\ UNCHANGED <<args, kernel, image, mem, pc, disk, pcbVars>>

bytes == disk[program].bytes

(* At most n bytes of the file from offset o on.                           *)
readAt(o, n) == SubSeq(bytes, o + 1, IF o + n < Len(bytes) THEN o + n ELSE Len(bytes))

(* Where a chunk goes: always the same place, and behind the last one.     *)
firstPlace == TextStart
nextPlace  == TextStart + position

(* The File's offset after a read of n bytes: if each turn opened the file *)
(* anew, and as it is.                                                     *)
reopened(n) == n
advanced(n) == position + n

(* One turn of the loop that reads a plain image.                          *)
ReadPlain ==
    /\ step = "plain" /\ program \in DOMAIN disk
    /\ LET chunk == readAt(position, ReadSize)
       IN  IF chunk = <<>>
           THEN /\ step' = "run" /\ pc' = TextStart
                /\ UNCHANGED <<mem, position>>
           ELSE /\ mem' = placed(mem, nextPlace, chunk)
                /\ position' = advanced(Len(chunk))
                /\ UNCHANGED <<step, pc>>
    /\ UNCHANGED <<args, kernel, image, disk, program, fromSpim, info>>

(* Offset and size of the last section of that name, which stay            *)
(* uninitialised if there is none.                                         *)
extents(f, name) ==
    LET i == SelectLastInSeq(f.sections, LAMBDA s : s.name = name)
    IN  IF i = 0 THEN Extent
        ELSE {[offset |-> f.sections[i].offset, size |-> f.sections[i].size]}

ReadHeaders ==
    /\ step = "header" /\ program \in DOMAIN disk
    /\ LET f == disk[program]
       IN  info' \in IF f.elf
                     THEN [entry : {f.entry}, text : extents(f, ".text"),
                           data : extents(f, ".data")]
                     ELSE [entry : {0, TextStart}, text : Extent, data : Extent]
    /\ step' = "place"
    /\ UNCHANGED <<args, kernel, image, mem, pc, disk, program, fromSpim, position>>

(* The data, without the seek before the read, and with it.                *)
dataBehindText == readAt(info.text.offset + info.text.size, info.data.size)
dataBytes      == readAt(info.data.offset, info.data.size)

PlaceSections ==
    /\ step = "place" /\ step' = "run"
    /\ mem' = placed(placed(mem, TextStart, readAt(info.text.offset, info.text.size)),
                     DataStart, dataBytes)
    /\ pc' = info.entry
    /\ UNCHANGED <<args, kernel, image, disk, pcbVars>>

(* The program runs, or the emulator has ended.                            *)
started == step \in {"run", "exit", "terminated"}

StartNext ==
    \/ (Main \/ ParseKernel \/ LoadKernel) /\ UNCHANGED <<disk, pcbVars>>
    \/ Boot \/ ReadFails \/ ReadPlain \/ ReadHeaders \/ PlaceSections

StartSpec == StartInit /\ [][StartNext]_startVars /\ WF_startVars(StartNext)
-----------------------------------------------------------------------------
argEnd(i) == ArgLen * (i - 1) + Len(args[i])

(* cppmain finds the program's name and the flag that were given, if the   *)
(* name is shorter than a row of argv or is the only argument: host and    *)
(* kernel agree on where and how arguments lie, and later ones, whatever   *)
(* their number and lengths, spoil neither.                                *)
FindsArguments ==
    /\ step \notin {"main", "parse", "load", "boot", "exit"}
    /\ \/ Len(args[1]) < ArgLen
       \/ Len(args) = 1 /\ argEnd(1) < ArgLen * ArgSlots
    => /\ program = args[1]
       /\ fromSpim = (Len(args) > 1 /\ args[2] = Flag)

(* What the kernel's linker put at an address, bss being zero.             *)
linked(a) ==
    LET k == kernel[1]
    IN  IF a \in k.textStart..(k.textStart + Len(k.text) - 1)
        THEN k.text[a - k.textStart + 1]
        ELSE IF a \in k.dataStart..(k.dataStart + Len(k.data) - 1)
        THEN k.data[a - k.dataStart + 1] ELSE NUL

(* Of the kernel only argc and argv differ from what was linked, and the   *)
(* bytes of text behind its last whole word, as long as the arguments end  *)
(* within argv: a program's image never reaches the kernel, whatever is in *)
(* the file and in uninitialised variables.                                *)
KernelIntact ==
    /\ step \notin {"main", "parse", "load", "exit"}
    /\ \A i \in DOMAIN args : argEnd(i) <= ArgLen * ArgSlots
    => LET k == kernel[1]
           argv == global("argv")
       IN  /\ \A a \in Address :
                 \/ a < k.textStart
                 \/ a = global("argc") \/ a \in argv..(argv + ArgLen * ArgSlots - 1)
                 \/ a - k.textStart \in Len(wholeWords(k.text))..(Len(k.text) - 1)
                 \/ mem[a] = linked(a)
           /\ image.trapEntry = global("kernel_trap")

sectionAt(f, start, name) ==
    \A i \in DOMAIN f.sections :
        LET s == f.sections[i]
        IN  s.name = name =>
                \A j \in 1..s.size : mem[start + j - 1] = bytes[s.offset + j]

(* The program in memory is the one in the file: a plain image at its      *)
(* place with nothing behind it, and each section of an ELF file, in       *)
(* whatever order and whether or not the other one is missing; and it      *)
(* begins at its entry.                                                    *)
UserImage ==
    step = "run" =>
        IF fromSpim
        THEN /\ pc = TextStart
             /\ \A a \in TextStart..(DataStart - 1) :
                   mem[a] = IF a - TextStart < Len(bytes)
                            THEN bytes[a - TextStart + 1] ELSE NUL
        ELSE LET f == disk[program]
             IN  f.elf => /\ sectionAt(f, TextStart, ".text")
                          /\ sectionAt(f, DataStart, ".data")
                          /\ pc = f.entry

(* Starting up ends: the plain image is read to its end and every other    *)
(* step comes to the next one.                                             *)
StartEnds == <>started
=============================================================================
