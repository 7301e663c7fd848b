# mySpim: models, checks and proofs

mySpim is a MIPS32 emulator with a small kernel of its own. The emulator (`machine/`, host C++) executes one
instruction at a time over a byte memory; the kernel (`kernel/`, cross-compiled MIPS C++ and assembly) is loaded into
that memory, handles the traps of the one user program it runs, and asks the emulator for input, output and files
through one instruction, the *VM tunnel*. This directory holds TLA+ models of the parts whose correctness depends on
control and shared state, the TLC runs that check them, and proofs that TLAPS checks.

Everything in the source is single threaded. What makes it hard is not threads but **nesting** (the kernel itself can
trap, at any instruction of its handler, to any depth), **aliasing** (copies of objects that own a descriptor, block
headers laid in the memory they describe) and **hidden protocol** (which code may run with which status bit, which
register survives which call).

## 1. Inventory

| part | source | state | operations |
|---|---|---|---|
| CPU and trap entry | `machine/CPU.cpp`, `Hardware.cpp`, `instructions/` | pc, general registers, hi/lo, coprocessors 0 and 1, instruction cache, `killed` | `cycle`, `raiseTrap`, one `run` per instruction |
| trap path of the kernel | `kernel/asmglue.asm`, `trap.cpp`, `boot.cpp`, `Process.h` | exceptionDepth, currentThread, kernel stack, PCBs | kernel_trap, handleTrap, run_process, boot |
| VM tunnel, open files | `machine/FileSystem.*`, `instructions/KInstructions.cpp` | table of open files, free vfds, host descriptors | open, read, seek, close, write; print, read integer, halt |
| `kernel::File` | `kernel/kstl/File.*` | vfd, `bad` | construct, read, seek, destroy |
| kernel heap | `kernel/HeapManager.cpp` (twin: `HeapImpl/`) | block headers in memory, head, last_visited, break | malloc, calloc, free |
| memory | `machine/Memory.*` | bytes by address | byte, half and word access, big-endian |
| start-up and loaders | `main.cpp`, `loader/Loader.cpp`, `machine/Hardware.cpp`, `kernel/boot.cpp`, `kernel/Process.cpp` | memory, argc and argv, first PCB | main, KernelLoader, loadKernel, cppmain, plain and ELF programs |
| containers | `kernel/kstl/Vector.h`, `UniquePtr.h`, `String.h`, `Queue.h`, `Bitset.h` | array, size, capacity; nodes of a list; blocks of bits | the usual ones |
| floating point | `machine/instructions/FloatingPoint.*`, `machine/Processors.*` | registers of coprocessor 1 | loads, stores, arithmetic |
| frame allocator | `kernel/Process.cpp` | bitset of frames | reserveFreeFrame, without a caller |
| debug hooks, tests | `debug/debughooks.cpp`, `programs/`, `tests/` | none | |

### How the parts interact

* User code traps by a call of `raiseTrap` from the `catch` of `CPU::cycle`: EPC, Cause and EXL are written and pc goes
  to the exception vector, `kernel_trap`. From there everything is ordinary instructions until `eret` (to the user) or
  `jr $k1` (to an interrupted handler).
* The kernel asks the machine for a service by executing the tunnel instruction with `$a0` pointing to a request in its
  memory; the machine answers into the same memory before the next instruction. File requests reach the table of open
  files.
* `new` and `delete` in the kernel are the heap; the vectors, strings and queues of `ministl`, and `boot.cpp`'s PCB,
  live there.
* The heap, `kernel::File` and the trap path share no state. The trap handler neither allocates nor opens files, so the
  three are modelled apart and lose nothing by it.

### What is hard, and what makes each part correct

| part | hard behaviour | correct when |
|---|---|---|
| trap path | the handler traps while it handles a trap; the depth byte, the stack pointer and currentThread must agree at two assembly branches that nothing checks; registers are saved three times over (stack, PCB, CPU) | the program sees a trap as one instruction that changes at most v0; an interrupted handler finds its registers; the kernel is always privileged; it always comes back or halts |
| open files | `OpenFile` closes in its destructor and has the implicit copy constructor; `std::vector` copies when it grows; host descriptors are reused | each vfd denotes the file it was opened for, no host descriptor leaks, no close fails |
| `kernel::File` | short reads, end of file, errors from the tunnel | read returns the consecutive bytes of its file and ends |
| heap | splitting, merging in both directions, shrinking the break, the saved search position; sizes that leave no room for a header | the list tiles the heap; no block in use overlaps another or is written by the allocator; malloc ends |
| CPU, ISA | a decoded instruction is cached and never invalidated; traps inside an instruction that has half finished; + 4 at one end of a call or the other; shift, divide, multiply corner cases | the cache cannot be told from none except where executed code was overwritten; traps are precise; calls return behind themselves |
| vector, string | default vectors have no array and share address zero; moved-from ones have no capacity; ownership through copies, moves and growth | one owner for each array; elements as the client put them; no write outside |
| queue | two ends and two links kept in step; nodes deleted under iterators, addresses reused | a FIFO; every node linked and none leaked; an iterator misses nothing |
| bitset | shifts that cross blocks; more positions in the highest block than bits | the blocks hold the bits the client set and nothing else |
| start-up | host and kernel each have their own idea of where argv and its rows lie; one file is taken apart with uninitialised offsets, another byte by byte | the kernel finds the arguments given; its own image stays; the program in memory is the file's |

The hazards, one by one and at their source lines, are in `PROJECT.json`, with the properties that would
catch them or the reason why none does: some go wrong in this code as it stands, and there a property delimits the damage and a note says what it leaves out.

## 2. Modules

    TrapPath <-- TrapPathRefinement --(INSTANCE)--> UserMachine      FileSystem <-- KernelFile      Heap --(INSTANCE)--> Allocator
       ^                ^                                                            ^               ^
    MCTrapPath    TrapPathProofs                                MCKernelFile, KernelFileProofs   HeapProofs

    Isa <-- Cpu --(INSTANCE)--> Architecture       Vector <-- String <-- MCContainers --> Queue, Bitset
             ^                                       ^                                      ^       ^
       MCCpu, CpuProofs                         VectorProofs                        QueueProofs   BitsetProofs

    Loader <-- Process <-- MCStartup, ProcessProofs         Queue --(INSTANCE)--> Fifo

| module | models |
|---|---|
| `TrapPath` | the trap path, end to end, with user code |
| `UserMachine` | abstract: what the kernel promises the user program |
| `TrapPathRefinement` | the mapping from the first to the second |
| `TrapPathProofs` | the trap path's invariant and its refinement, proved |
| `FileSystem` | table of open files on the host's descriptors |
| `KernelFile` | `kernel::File` objects over it (composes with `FileSystem`) |
| `KernelFileProofs` | the table and the regime of one file, proved |
| `Heap` | allocator with its headers in a word memory |
| `Allocator` | abstract: what `new` and `delete` promise |
| `HeapProofs` | the list of blocks, its clients and the refinement, proved |
| `Isa` | memory access and the instructions of the CPU, as operators on a state |
| `Cpu` | `CPU::cycle` with the instruction cache, and `raiseTrap` |
| `Architecture` | abstract: the processor a program sees, without a cache |
| `CpuProofs` | instructions, cache, precise traps, calls and the refinement, proved |
| `Vector` | `ministl::vector` objects over arrays, with address zero |
| `VectorProofs` | ownership, contents and bounds of vectors, proved |
| `String` | `ministl::string` (composes the operators of `Vector`) |
| `Queue` | `ministl::queue` with its nodes on the heap and an iterator |
| `Fifo` | abstract: what a queue promises |
| `QueueProofs` | the list, its iterators and the refinement, proved |
| `Bitset` | `ministl::bitset<N>`, by blocks |
| `BitsetProofs` | that the blocks hold the client's bits, and `count()` counts them, proved |
| `Loader` | the host's half of starting up: arguments, kernel image, boot |
| `Process` | the kernel's half (composes with `Loader`): cppmain and the first program |
| `ProcessProofs` | what the kernel finds, keeps and loads, proved |
| `MCTrapPath`, `MCKernelFile`, `MCCpu`, `MCStartup` | values for TLC |
| `MCContainers` | the containers side by side, and their values |

### TrapPath

`pc` is a user address or the name of a block of kernel code in which nothing can trap; a block is one action. The
program's text is a set with a successor function, so that "pc + 4" after every instruction (`CPU.cpp`) is kept: it is
why `run_process` can return to the *saved* EPC and still go on behind the trapping instruction, and why the PCB of a new
process holds the address *before* its entry.

| action | code |
|---|---|
| `UserStep`, `UserTrap`, `UserOverflow`, `UserPrivilegedTrap` | how a user instruction can end; an overflow has already stored its wrapped result |
| `UserMoveFrom`, `UserMoveTo`, `UserEret`, `UserTunnel` | privileged instructions the program may contain; they work, because EXL stays set in user mode |
| `BootDone`, `BootFault` | `cppmain` |
| `KernelTrap` | `kernel_trap` up to `jal handleTrap` |
| `EnterHandler`, `HandlerStep`, `HandlerFault`, `Serve*`, `ExitHandler`, `AssertThread` | `handleTrap` |
| `TrapReturn`, `RunProcess`, `NestedReturn`, `Eret` | the way out in `asmglue.asm` |

Of the general registers the model has v0 (read and written by services), t (any register that is only preserved) and
sp. A handler's registers hold its own level, so that any mix-up with another level or with the user shows. A level of
the kernel stack is one slot: the context and `handleTrap`'s frame. Slots above the stack pointer hold zero (nothing
reads them before they are written again), which keeps the state space finite and small.

### UserMachine and the refinement

To the program a trap is: `Trap` (pending), `Serve` or `Stop`, `Resume` at the next instruction. All registers but v0 of
"read integer" are unchanged. `Panic` is a fault in the kernel that the kernel itself answers by halting. The mapping
finds the user's registers in the CPU, in slot 1 of the kernel stack, or in the PCB, according to where the trap stands,
and finds the *point of service* with the outermost handler's own program counter, wherever a nested trap has put it.

### FileSystem and KernelFile

`files` is a vector of optional `OpenFile`; its `capacity` matters because growth copies. `destroyedByGrowth` is the set
of host descriptors the originals' destructors close; `closesSucceed` is `~OpenFile`'s assertion. A slot taken from the
free list is assigned from a temporary whose destructor closes the descriptor just opened. `outcome` says how the
process died: an assertion (`abort`), an uncaught exception (`terminate`), an empty optional dereferenced (`undefined`).
Bytes carry the file and offset they come from. The host may return short reads, but not an empty one before the end.

### Heap and Allocator

Memory is an array of words and headers lie in it at the source's offsets. `walk` follows the next words as the code
does. `FindBlock` is one turn of the search loop; everything else in malloc and free is one step, there being no one
else to run. What clients write is `Junk`, a value that is neither address nor flag (a payload that happens to equal the
address behind it would pass `validAddr`, but that check only guards against pointers that were never handed out).
`live` and `lost` are history: what clients hold, and what they gave back in vain. A block made by `splitBlock` has no
`ptr`, so after it is reused `free` of it fails `validAddr` and does nothing: the block is lost, and `Allocator`
promises no more than that.

### Isa, Cpu and Architecture

`Isa` works on `[reg, fpr, hi, lo, pc, mem]` with words of 4 * `ByteBits` bits, so that wrapping, sign extension, big-endian
layout and overlapping unaligned words are those of the code at a width TLC can enumerate. `run(i, s)` is the set of ways
instruction i can end: done (with cycle's + 4), a trap with what was stored before it was thrown, or the end of the
emulator. It has more than one element where C++ leaves the result open: the product of `mult` in 32 bits, which the
build may widen. Division by zero and INT_MIN / -1 are the fault the x86-64 host raises, and it masks shift counts.

The registers of coprocessor 1 are words, moved as they are by lwc1 and swc1. What an addition or a division of floats
yields is left open (`FpResults`); that a double goes to an even register and the next one, and that any other register
or format fails an assertion of the decoder and ends the emulator, is modelled.

Sixteen words cannot encode sixty instructions, so which instruction a word stands for is a variable that never changes,
`encoding`, and a run chooses several. The immediate of an instruction is a halfword, that of
`j` and `jal` the address they name. What is lost is `decode`'s bit fields (the 25-bit jump mask among them) and that
jump targets are relative to the 256 MiB region of pc; what is kept is that *every* word decodes to something, that
stores change code, and that the cache goes by address. `cache` is `instructionCache`; a word that `decode` refuses
throws after the map has got an empty pointer, which is decoded again.

`Architecture` fetches from memory in every step. Of an instruction whose word was overwritten after it had been
executed it promises nothing, which is what MIPS32 promises without SYNCI. `cached` and the history variable `changed`
stand for its two sets in the refinement.

Where the machine deviates from MIPS32 the model follows the machine: `add` and `sub` store to rt; `multu` loses hi;
register 0 can be written (no register is special but ra); `sltiu` extends by zero; `jr` and `jalr` go 4 past the
register, which cancels with links that are 4 short but not with the address of a function.

### Vector and String

The representation `[storage, size, capacity]` is the code's; `mem` maps each allocated array to its cells, and its
domain is what was allocated and not yet deleted. Address zero is always there: the kernel is built without optimisation
(`kernel/Makefile`) for a machine that lets it read and write there, so the null storage of a default vector *works*.
`holds` is what the client expects in each vector; `spoilt` are the vectors whose elements another one overwrote at
address zero. A write outside of an array ends the run (`overran`): what it hits is the header of the next heap block.
Operations are operators on the state, so that a modifier of `String` is the composition of `pop_back` and `push_back`
that it is in the code.

### Queue and Fifo

`node` maps the addresses of allocated nodes to nodes, so that `new` may return an address that was just deleted;
`order` is the history of which node came when. `clear()` and the destructor are loops and one step a node: their
intermediate states are where the list has no valid `tail`. The iterator is the address it is in the code; `due` is the
history of what it owes its client and `stale` says that its node was deleted under it, after which its client may not
use it. The refinement maps a queue being cleared to the empty sequence.

### Bitset

A block is the set of the positions of its ones; `up` and `down` are the shifts of an `unsigned int`. The highest block
has positions beyond N, which is what `high_mask` is about, and `expected` is what a client that counts positions would
have. `BitsExact` includes that no operation leaves a one beyond N.

### Loader and Process

One linear story with the memory as its state: `Main`, `ParseKernel`, `LoadKernel` on the host, then `Boot`,
`ReadPlain` or `ReadHeaders` and `PlaceSections` in the kernel. A byte of memory is a byte or the word that counts the
arguments. The host finds `argc` and `argv` by name in a symbol table; the kernel knows them from its linker
(`globals`); the compiler is free to put `argc` before or behind `argv` in bss, and both orders occur. That these agree, with the stride of 64 used on both sides and the zeroes of bss as terminators, is what
`FindsArguments` asks. Offsets and sizes that stay uninitialised are any of `Extent`, and a file that is no ELF file
gives any of them too. The steps of `kernel::File` are in `KernelFile`; here a read is what that module shows of one
file: consecutive bytes, as many as there are.

What the run showed on the way: the text of the kernel is taken in whole words, while linker.ld puts read-only data of
any length behind the code, so that the last bytes may be missing (`KernelIntact` excepts them); a name of 64 characters
has no terminator and is read on into the next argument (`FindsArguments` excepts it); a fifth argument overwrites what
lies behind argv.

## 3. Runs

| run | asks | answer |
|---|---|---|
| `trap_path` | everything about traps for a program without privileged instructions, traps nested up to three deep, and the refinement with liveness | holds |
| `trap_path_privileged` | do the inductive invariant (kernel privilege is part of it) and completion survive a program that uses mtc0, eret and the tunnel (all work, since user code is privileged) | holds |
| `user_mode` | asmglue.asm:140: "hardware will flip EXL for us" | **violated**: eret leaves EXL set |
| `kernel_file` | table integrity for any three opens; the regime the kernel keeps to (one file) works; every read ends | holds |
| `file_alias` | the table represents each open file | **violated** by four opens: a vfd reads another file |
| `heap` | tiling, backing, payloads, termination, the abstract allocator, with splits and merges and requests of size 0 | holds |
| `heap_emptied` | malloc ends after the heap was emptied (as HeapImpl/test.cpp does) | **violated**: last_visited is stale and the list becomes a cycle |
| `cpu` | can a program tell the cached CPU from `Architecture`; are traps precise; do calls return behind themselves; for every instruction, with self-modifying programs | holds |
| `cpu_add` | fibrec.asm: add into v0 to "sum" | **violated**: the sum goes to the second source |
| `containers` | ownership, contents and bounds of two vectors; a queue as a FIFO, its links and its iterators; bitsets across blocks | holds |
| `string` | String.h: "always null-terminated" | **violated** by two constructions |
| `startup` | from the command line to the user's first instruction: arguments found, kernel intact, program as in its file, and that it ends | holds |

The violations are explained, with the lines they contradict, under "findings" in `PROJECT.json`.

### Bounds, and why they are enough

* `MaxDepth` 3: levels 1 (from the user), 2 (from a handler) and 3 (from a nested handler) show the three kinds of
  neighbour a level can have; the proofs cover every other bound. In the code it is the 8 KiB kernel stack or the byte
  `exceptionDepth` that ends; nesting beyond is not modelled.
* A program of two instructions: entry and one other suffice to tell "the same", "the next" and "the one before".
  `Word` holds the two values of v0 the kernel tests and one it does not. The proofs are for every program.
* `MaxOpens` 3 (4 for the alias): the vector grows at the first, second and third open; a descriptor is reused for the
  first time at the third, and read under a wrong name at the fourth. Chunk 2, files of 3 and 2 bytes, reads of up to 4:
  chunks that are full, short, empty, and one that ends with the file. `Offsets` 0, 1 and 3: the beginning, inside, and
  the end of one file or past the end of the other, where a read brings nothing.
* `HeapWords` 30 with sizes 0 and 7: up to five blocks, so that a block with free neighbours on both sides, between
  used ones, exists; 7 = 0 + header + 1 is the smallest block that is split for a request of 0, and merges leave larger
  ones. A block of size 0 may lie at the break.
* `Anchored` TRUE: the first block is never given back. boot.cpp allocates the PCB first and never frees it, so this is
  how the kernel uses the heap; FALSE is `heap_emptied`. `InMemory` ends a run at lists that leave the modelled memory,
  which anchored ones never do.

* `cpu`: bytes of one bit, so 16 words, 16 bytes of memory and 16 addresses, all reachable by an unaligned pc. Five
  encodings cover every instruction; each program loads two registers from hi and lo, which boot with any of three values
  (0, 6 and -1), and goes on with every pair of words; the rest of memory holds word 0. Stores, overlapping words and
  jumps make programs of up to 74 steps out of these, through code they overwrite and traps they take.
* `containers`: the objects share no state, so a behaviour is about one of them. Two vectors (no operation involves more), initial capacity 1 instead of 8 and up to three pushed elements, so
  that growth happens from address zero and from an array; capacity 0, 1, 2, 4 occur. `string` has the source's 8.
  Three nodes: a first, a last and one between. Blocks of two bits and N from 1 to 5: one to three blocks, the highest
  full and not full, shifts by less than a block, by whole blocks, by both and by more than N.
* `startup`: rows of three characters, two of them, words of two bytes, reads of two bytes: arguments one short of a row,
  filling it and over it, and one argument more than there are rows; text that ends inside a word; plain files of an odd
  length and an empty one; `.text` before and behind `.data`, and either one alone; kernels with `argc` before and behind `argv`.
* `FpResults` is one word: `run` yields every pair of its elements, and no property looks at the value.

`CHECK_DEADLOCK FALSE` stands where the system really stops: the machine was halted, the process died, every File
object was used, or a vector wrote outside of its array.

### Fairness

`Machine::run` is `while (!killed) step()`: something always executes next, hence `WF(Next)` in `TrapPath`, and nothing
about which user instruction. `kernel::File::read` and `findBlock` are loops with nothing else to run: `WF` of the loop's
turn. In `Process` it is `WF` of the next step, again because nothing else runs. No fairness is assumed of clients, of the user program or of faults. `TrapCompletes` is nevertheless true, though
faults may recur: a nested trap's handler ends in the same bounded nesting, and a fault at the same instruction is
followed by the next instruction (the +4 of nested return).

## 4. Proofs

Every invariant and every action property that a passing run checks is also a theorem, for all values of the constants,
and so is the safety part of the four refinements. The theorem modules are one per component; each begins with lemmas
about its component's operators and ends with its theorems.

### Trap path

Assumptions, all named in `TrapPath`: `AddressAssumption` (user addresses are not names of kernel blocks, the successor
stays in the text, the entry has a predecessor), `DataAssumption` (nesting bound 2..255, registers hold naturals, there
is a user stack pointer), `CodeAssumption` (codes are naturals; the kernel's own code raises neither syscall nor
overflow: it contains no syscall, add, addi or sub).

`TrapInvariant` is inductive. The safety properties alone are not: that the right branch is taken on the way out depends
on what was saved on the way in, possibly many levels below. So it says of **every** level of the stack whose context is
saved there (`Belongs`: level 1 the user's, level n + 1 a handler's with level n's registers and an address in the
handler) and which thread was found (`FoundThread`), and of every block of code the state in which it starts. Each action
then has one step in `NextInvariant`'s proof.

| theorem | says |
|---|---|
| `TrapInvariantHolds` | `Spec => []TrapInvariant` |
| `TypeCorrect`, `KernelStaysPrivileged`, `DepthAgreesWithStack`, `HandlerRegistersSurvive` | its consequences |
| `UserPcbWrittenOutermost` | the action property, from the invariant |
| `KernelKeepsPromise` | for a program without privileged instructions, `Spec => UM!USafety`: Init maps to UInit, each action to a step of UserMachine or a stutter |

`KernelPrivileged` and the invariant do not need `UserOps = {}`: they hold whatever privileged instructions the program
has. The refinement does need it, for a program that writes EPC or executes eret does more than its own instructions.

### CPU

Assumptions: `WidthAssumption` (a byte has a bit), `RegAssumption` (ra is a register; the odd register of a pair is one
that begins no pair), `FpAssumption` (a floating point result is a word), `ImageAssumption` (what the loader leaves in
memory and registers are bytes and words).

The lemma everything rests on is `RunEnds`: from a typed state each instruction of the set ends in typed states, and
an ending that is a trap has the pc, memory and registers the instruction found, but for the register that an overflow
has already stored. It is proved instruction by instruction, over arithmetic for every width: `pow2` and `number` are
recursive functions, and what they compute is shown by the smallest argument at which it would fail (`Smallest`,
`StepByStep`).

`CpuInv` is `CpuTypeOK`, `CacheMatches`, `changed` within what is cached, `FromImage` (a cached instruction stands for
some word of the image, which types what a cached instruction may be after its word was overwritten) and `LinksHeld` (a
register holds the link the history says it holds, without which nothing is known of where `jr` goes).

| theorem | says |
|---|---|
| `CacheIsMemory` | `Spec => []CacheMatches`; its proof does not look into `run`, so it holds of any instruction set |
| `CpuInvHolds`, `CpuTyped` | `Spec => []CpuInv`, `[]CpuTypeOK` |
| `TrapsArePrecise`, `CallsReturn` | `Spec => PreciseTraps`, `ReturnsBehindCall` |
| `CpuIsArchitecture` | `Spec => ImplementsArchitecture`: with its cache the CPU is the processor that fetches from memory, but for words overwritten after their execution |

### Table of open files and `kernel::File`

`KernelFileProofs` assumes `FileAssumption` and `ObjectAssumption` (the files that exist are among the paths, sizes and
offsets are naturals, the chunk is not empty). `KInv` adds to the type invariant and the two properties of the table that
the host never has more descriptors open than `open` was called, so that one is free for the next call: without that the
type of `host` is not inductive. What a client of one file sees needs `OneInv`: before the first `open` nothing has
happened (`Untouched`), then the single slot holds a descriptor on the path for as long as its object lives
(`TheOnlyOne`), and the bytes collected are those just before the descriptor's offset (`BytesInOrder`). It says nothing
of two files, for which `file_alias` shows the opposite.

| theorem | says |
|---|---|
| `FilesTypeCorrect`, `FreeListIsExact`, `DescriptorsAreHeld` | `Spec => []KfTypeOK`, `[]FreeListExact`, `[]NoDescriptorLeaks`, for any number of opens and objects |
| `OneFileIsSafe` | `Spec => []OneFileNeverDies`, whatever the order of reads, seeks and the destructor |
| `OneFileReadsInOrder` | `Spec => []OneFileReadsWhole`, for every size, chunk, request and every way the host may shorten a read |

### Heap

The theorems have one hypothesis, `Anchored`: the block allocated first is never given back, as the kernel has it.
Without it `heap_emptied` shows the opposite.

`walk`, and with it `Blocks`, follows the next words; nothing can be proved about it while an operation is rewriting
them. So the lemmas speak of memory words and any set B of blocks that is `Tiled` (the next block begins where this one
ends, the links in both directions agree, the last ends at the break), `Coalesced` (the first block is in use, the last
is, and of two neighbours one) and `Backed` (what clients hold lies in blocks of B that are in use). Each primitive of the
code has a lemma that says which words it changes and which set tiles the heap afterwards: a block cut in two, one that
swallows its successor, the break lowered, the heap extended. `BlocksAre` says that a set that tiles the heap is the one
the walk finds. That the last block is in use is what makes `free` right when it lowers the break, and that
`last_visited` is a block at every moment of a search is what makes extending the heap right.

| theorem | says |
|---|---|
| `HInvHolds`, `HeapTyped` | `Spec => []HInv`, `[]HeapTypeOK` |
| `Tiles`, `Backing`, `Payload` | `Spec => []HeapTiled`, `[]LiveBacked`, `PayloadUntouched`, for any memory and any sizes of requests |
| `Promise` | `Spec => A!ASafety`, the safety part of `Allocator` |

### Containers

`VectorProofs` assumes `VectorAssumption` (null is no array, Junk no element) and `ArraysAssumption` (whatever the
vectors own, there is another array: `operator new` of the kernel does not fail). `VInv` says that either
all is in order (`Good`: every array known and owned once, sizes within capacities, contents as the client put them), or
the run has ended with a write outside, of a vector that has capacity 0 (`Overran`). Every operator on states has a lemma about what becomes of `Arrayed`, `Owned` and `Kept`;
operations are their composition.

`QueueProofs` assumes only `QueueAssumption` (null is no address). Its invariant `QInv` is the type invariant,
`ListExact` and `IteratorVisits` together: that a dequeue is right needs the links of the node behind the first, that an
iterator is owed what follows it needs that the addresses in `order` are distinct, and that the size is right needs both.

`BitsetProofs` assumes `BitsetAssumption` (blocks and bitsets have a bit). Positions are taken as B * i + o, block and
offset, uniquely (`Divides`, `Unique`); `Hold` says that blocks hold a set of positions, and `BitInv` that they hold
`expected`. `LeftMoves` and `RightMoves` say where the bit comes from that a shift puts at an offset, from one block or
its neighbour; the mask is exactly the positions of the highest block below N. That `count()` is the cardinality is
shown over the blocks, by the first block after which the partial sum would be wrong.

| theorem | says |
|---|---|
| `VectorTyped`, `Ownership`, `Contents`, `Overruns` | `Spec => []VectorTypeOK`, `[]OneOwnerEach`, `[]ElementsKept`, `[]OverrunsOnlyEmptied`, for any number of vectors |
| `QueueTyped`, `ListIsExact`, `IteratorsVisitAll` | `QSpec => []QueueTypeOK`, `[]ListExact`, `[]IteratorVisits` |
| `QueueIsFifo` | `QSpec => ImplementsFifo`: each operation is a step of `Fifo` or a stutter, for any values and any number of nodes |
| `BitInvHolds`, `BitsAreExact` | `BSpec => []BitInv`, `[]BitsExact`, for any width of blocks and any N |

### Start-up

Assumptions beside those on the shapes of values: `KernelAssumption` (the sections come in the order linker.ld gives
them; argc lies before or behind argv in bss, not inside), `ArgAssumption` (memory does not end with the arguments) and
`FileAssumption` (a file is smaller than the room from text to data and from data to the kernel, at least 250 MB; its
sections lie in it). `LoaderAssumption` says that the kernel's symbol table agrees with its linker.

`StartInv` follows the story: what the host has parsed and laid out (`HostsPart`, memory at boot being *exactly* the
linked image with the arguments written over it), what `cppmain` found (`Found`), that nothing at or above the kernel
changes once it runs (`KernelsPart`), how far a plain image is in memory (`PlainPart`), and what a header may have said
(`ElfPart`). Arguments longer than a row overwrite the rows behind them, so what a row holds is decided by the **last**
argument that covers an address (`Holds`), and the first row stays the first argument's exactly if that one fits.

| theorem | says |
|---|---|
| `StartInvHolds` | `StartSpec => []StartInv` |
| `ArgumentsFound` | `StartSpec => []FindsArguments`, however long and many the other arguments are |
| `KernelKept`, `ImageInPlace` | `StartSpec => []KernelIntact`, `[]UserImage` |

### Only model-checked

Liveness (`TrapCompletes`, `ReadEnds`, `MallocReturns`, `StartEnds` and the fairness parts of the refinements to
`UserMachine` and `Allocator`), which is out of the prover's reach. `String`, whose run is a counterexample. What single
instructions *compute*: `RunEnds` proves where and how they end, and the values are those of `Isa`'s definitions.

## 5. Not modelled

* Encodings as bit fields, the results of floating point arithmetic, and an element type with a destructor in `Vector` (the kernel has none).
* `s += s` of a string: its loop compares with the size it increases and does not end; `AppendString` excludes it.
* A user program that writes kernel memory or jumps into kernel text. Nothing in the machine prevents it, since user
  code is privileged; no property of the kernel would survive it.
* The kernel stack running into other data, or `exceptionDepth` wrapping at 256: `MaxDepth` ends the nesting before.
* A write: request 7 of the tunnel falls through to seek, so `Seek` is both, and the kernel has no caller.
* The frame allocator: `reserveFreeFrame` has no caller, does not return the frame it finds, and nothing marks one.
* `ELFIO`, which takes the kernel file apart; a header of the user's file that is garbage beyond what `Extent` says; the
  unused loaders `SpimLoader`, `ELFLoader` and `Machine::loadProgram`.
* Unsafe use the containers cannot notice: bit positions beyond N, iterators whose node was deleted.
* Contents of request and response beyond result and error; printing and its format.
* `calloc`'s product overflowing, `sbrk` (it cannot fail in the kernel), misaligned sizes (rounded before).
* Host-side twin of the heap: the same code apart from sbrk.

## 6. Plan

1. Done: all modules of section 2, with a theorem for every safety property of the passing runs and the safety part of
   every refinement.
2. Model: the fields `decode` takes from a word (the jump mask of 25 bits among them).
3. Isa against MIPS32: a reference definition of each instruction and the list of those that differ.
4. Theorems: what remains true of strings for every content. It starts from `VectorProofs`' lemmas about `push_back` and
   `pop_back`, of which the operations of `String` are compositions, and needs a fold over them.
