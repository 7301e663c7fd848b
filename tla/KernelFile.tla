----------------------------- MODULE KernelFile -----------------------------
(***************************************************************************)
(* kernel::File (kernel/kstl/File.cpp): the kernel's file object, which    *)
(* sends the VM file requests.  Its constructor opens, read() collects     *)
(* chunks until it has what was asked for or a chunk is empty, seek() sets *)
(* bad on an error, the destructor closes.  The kernel is single threaded: *)
(* one call is in progress at a time, but several objects may be alive.    *)
(***************************************************************************)
EXTENDS FileSystem

CONSTANTS
    Object,   \* File objects, each constructed and destroyed at most once
    Chunk,    \* size of read()'s buffer (128)
    MaxRead,  \* bound: bytes asked of one read()
    Offsets   \* bound: where clients seek to

ASSUME ObjectAssumption ==
    Chunk \in Nat \ {0} /\ MaxRead \in Nat /\ Offsets \subseteq Nat

VARIABLES
    life,     \* life[f]: "unborn", "alive" or "dead"
    fd,       \* fd[f]: fileIO.args.generic.arg0
    bad,      \* bad[f]
    call      \* the read() in progress: what is left, what it collected

kfVars == <<files, capacity, freeVFDs, host, resp, opened, outcome, life, fd,
            bad, call>>

Idle == [of |-> {}, asked |-> 0, left |-> 0, out |-> <<>>, done |-> TRUE]

KfTypeOK ==
    /\ FsTypeOK
    /\ life \in [Object -> {"unborn", "alive", "dead"}]
    /\ fd \in [Object -> Nat]
    /\ bad \in [Object -> BOOLEAN]
    /\ call \in [of : SUBSET Object, asked : 0..MaxRead, left : 0..MaxRead,
                 out : Seq((DOMAIN Size) \X Nat), done : BOOLEAN]
    /\ Len(call.out) = call.asked - call.left
    /\ \A f, g \in call.of : f = g
    /\ ~call.done => \A f \in call.of : life[f] = "alive"

Init ==
    /\ FsInit
    /\ life = [f \in Object |-> "unborn"]
    /\ fd = [f \in Object |-> 0]
    /\ bad = [f \in Object |-> FALSE]
    /\ call = Idle

idle == call.done
ready(f) == idle /\ life[f] = "alive"

(* The request was answered: the process did not die serving it.           *)
answered == outcome' = "running"

(* File(fileName, flags)                                                   *)
Construct(f, p) ==
    /\ idle /\ life[f] = "unborn"
    /\ Open(p)
    /\ IF answered
       THEN /\ life' = [life EXCEPT ![f] = "alive"]
            /\ fd' = [fd EXCEPT ![f] = resp'.res]
            /\ bad' = [bad EXCEPT ![f] = resp'.err # 0]
       ELSE UNCHANGED <<life, fd, bad>>
    /\ UNCHANGED call

(* ~File()                                                                 *)
Destroy(f) ==
    /\ ready(f)
    /\ Close(fd[f])
    /\ life' = IF answered THEN [life EXCEPT ![f] = "dead"] ELSE life
    /\ UNCHANGED <<fd, bad, call>>

SeekTo(f, k) ==
    /\ ready(f)
    /\ Seek(fd[f], k)
    /\ bad' = [bad EXCEPT ![f] = @ \/ (answered /\ resp'.err # 0)]
    /\ UNCHANGED <<life, fd, call>>

BeginRead(f, n) ==
    /\ ready(f) /\ outcome = "running"
    /\ call' = [of |-> {f}, asked |-> n, left |-> n, out |-> <<>>, done |-> n = 0]
    /\ UNCHANGED fsVars /\ UNCHANGED <<life, fd, bad>>

(* The chunk asked for whatever is left, and the real one.                 *)
fullChunk == Chunk
chunk == IF call.left < Chunk THEN call.left ELSE Chunk

(* The bytes a response brought, each named by its file and offset.        *)
bytesOf(r) == [i \in 1..r.res |-> <<r.got.path, r.got.from + i - 1>>]

(* Reading on after an empty chunk, and after any short one.               *)
neverEnds(r) == call.left = r.res
endsOnShort(r) == call.left = r.res \/ r.res < chunk

(* The loop ends when nothing is left to read or a chunk is empty.         *)
ends(r) == call.left = r.res \/ r.res = 0

(* One turn of read()'s loop.                                              *)
ReadChunk(f) ==
    /\ ~idle /\ f \in call.of
    /\ Read(fd[f], chunk)
    /\ IF answered
       THEN call' = [call EXCEPT !.left = @ - resp'.res,
                                 !.out  = @ \o bytesOf(resp'),
                                 !.done = ends(resp')]
       ELSE UNCHANGED call
    /\ UNCHANGED <<life, fd, bad>>

Next == \E f \in Object :
    \/ \E p \in Path : Construct(f, p)
    \/ \E k \in Offsets : SeekTo(f, k)
    \/ \E n \in 0..MaxRead : BeginRead(f, n)
    \/ ReadChunk(f)
    \/ Destroy(f)

Spec == Init /\ [][Next]_kfVars

(* The kernel's loop runs on.                                              *)
FairSpec == Spec /\ WF_kfVars(\E f \in Object : ReadChunk(f))

-----------------------------------------------------------------------------
(* The free list holds exactly the empty slots, each once: open() never    *)
(* reuses a slot that is taken (the assertion "Reusing occupied VFD").     *)
FreeListExact ==
    outcome = "running" =>
        /\ Range(freeVFDs) = {v \in 0..(Len(files) - 1) : ~engaged(v)}
        /\ IsInjective(freeVFDs)

(* Whatever the copies of OpenFile close, no host descriptor stays open    *)
(* that no slot of the table holds: the table may close too much but never *)
(* leaks.                                                                  *)
NoDescriptorLeaks ==
    outcome = "running" => DOMAIN host \subseteq descriptors

(* The regime the shipped kernel keeps to: one File over an existing file  *)
(* is constructed in the machine's life.  Then nothing the object can be   *)
(* asked for stops the machine, however reads, seeks and the destructor    *)
(* are ordered.                                                            *)
OneFileNeverDies ==
    Len(opened) = 1 /\ Range(opened) \subseteq DOMAIN Size
        => outcome = "running"

(* In that regime read() returns the consecutive bytes of its own file, as *)
(* many as it was asked for unless the end of the file comes first,        *)
(* however short the host's reads are.                                     *)
OneFileReadsWhole ==
    Len(opened) = 1 /\ Range(opened) \subseteq DOMAIN Size => \A f \in call.of :
        /\ \A i \in DOMAIN call.out : call.out[i][1] = opened[1]
        /\ \A i \in 2..Len(call.out) : call.out[i][2] = call.out[i - 1][2] + 1
        /\ call.done /\ call.left > 0 /\ call.out # <<>> =>
               Last(call.out)[2] = Size[opened[1]] - 1

(* read() ends or the process dies: "Prevent infinite loop on partial      *)
(* reads".                                                                 *)
ReadEnds == ~idle ~> (idle \/ outcome # "running")

(* Every byte an open File reads is a byte of the path it was given: the   *)
(* table "represents ALL open files", each apart from the others.          *)
ReadsOwnFile ==
    \A f \in call.of : life[f] = "alive" =>
        \A i \in DOMAIN call.out : call.out[i][1] = file(fd[f]).path
=============================================================================
