----------------------------- MODULE FileSystem -----------------------------
(***************************************************************************)
(* The machine's table of open files (machine/FileSystem.cpp) on top of    *)
(* the host's file descriptors, as the VM tunnel's file requests use it    *)
(* (machine/instructions/KInstructions.cpp, requests 5 to 9).              *)
(*                                                                         *)
(* An OpenFile owns a host descriptor: its destructor closes it and        *)
(* asserts that the close succeeded.  It has no copy constructor of its    *)
(* own, so a copy holds the same descriptor and destroying either closes   *)
(* it.  Copies are made where std::vector grows and where open() fills a   *)
(* freed slot from a temporary.                                            *)
(***************************************************************************)
EXTENDS Integers, Sequences, FiniteSets, SequencesExt

CONSTANTS
    Path,       \* paths a client opens
    Size,       \* Size[p]: bytes of the host file p, for the p that exist
    MaxOpens    \* bound: calls of open

ASSUME FileAssumption ==
    /\ DOMAIN Size \subseteq Path
    /\ \A p \in DOMAIN Size : Size[p] \in Nat
    /\ MaxOpens \in Nat \ {0}

VARIABLES
    files,      \* FileSystem::files, by vfd + 1; <<>> is an empty optional
    capacity,   \* the vector's capacity
    freeVFDs,   \* FileSystem::freeVFDs
    host,       \* the host's open descriptors: fd -> [path, offset]
    resp,       \* the VMResponse of the last request, and what it read
    opened,     \* the paths open() was called with, in order
    outcome     \* "running", or how the process died

fsVars == <<files, capacity, freeVFDs, host, resp, opened, outcome>>

(* Host descriptors: the lowest free one is taken.  NoFd is Word(-1).      *)
HostFd == 1..(MaxOpens + 1)
NoFd   == 0
lowest == CHOOSE d \in HostFd : /\ d \notin DOMAIN host
                                /\ \A e \in HostFd : e < d => e \in DOMAIN host

OpenFile == [fd : HostFd \cup {NoFd}, err : {0, 1}, path : Path]
Minus1   == -1                          \* Word(-1) as a result
NoRead   == [path |-> "", from |-> 0]

Slot     == {<<>>} \cup {<<f>> : f \in OpenFile}
HostFile == [path : DOMAIN Size, offset : Nat]

FsTypeOK ==
    /\ files \in Seq(Slot) /\ capacity \in Nat /\ Len(files) <= capacity
    /\ freeVFDs \in Seq(0..(Len(files) - 1))
    /\ DOMAIN host \subseteq HostFd /\ host \in [DOMAIN host -> HostFile]
    /\ resp.res \in Nat \cup {Minus1} /\ resp.err \in {0, 1}
    /\ opened \in Seq(Path) /\ Len(opened) <= MaxOpens
    /\ outcome \in {"running", "abort", "terminate", "undefined"}

FsInit ==
    /\ files = <<>> /\ capacity = 0 /\ freeVFDs = <<>>
    /\ host = <<>>
    /\ resp = [res |-> 0, err |-> 0, got |-> NoRead]
    /\ opened = <<>>
    /\ outcome = "running"

engaged(v) == v \in 0..(Len(files) - 1) /\ files[v + 1] # <<>>
file(v)    == files[v + 1][1]

Closing(h, fds) == [d \in DOMAIN h \ fds |-> h[d]]

respond(r, e) == resp' = [res |-> r, err |-> e, got |-> NoRead]

dies(how) ==
    /\ outcome' = how
    /\ UNCHANGED <<files, capacity, freeVFDs, host, resp>>

-----------------------------------------------------------------------------
(* OpenFile(filePath, flags) and the host table after it.                  *)
constructed(p) ==
    IF p \in DOMAIN Size THEN [fd |-> lowest, err |-> 0, path |-> p]
                         ELSE [fd |-> NoFd, err |-> 1, path |-> p]

hostAfterOpen(p) ==
    IF p \in DOMAIN Size
    THEN [d \in DOMAIN host \cup {lowest} |->
             IF d = lowest THEN [path |-> p, offset |-> 0] ELSE host[d]]
    ELSE host

(* Descriptors of the vector's elements, and the destructors of them all:  *)
(* every close succeeds when each descriptor is open and none is closed    *)
(* twice.                                                                  *)
elements == {v \in DOMAIN files : files[v] # <<>>}
descriptors == {files[v][1].fd : v \in elements}
closesSucceed(h) == /\ descriptors \subseteq DOMAIN h
                    /\ Cardinality(descriptors) = Cardinality(elements)

(* Adding with push_back of a temporary would destroy the temporary too.   *)
destroyedByPushBack ==
    (IF Len(files) = capacity THEN descriptors ELSE {}) \cup {lowest}

(* Growing copies the elements and destroys the originals.                 *)
destroyedByGrowth == IF Len(files) = capacity THEN descriptors ELSE {}

(* open(), no free vfd: files.emplace_back.                                *)
OpenNew(p) ==
    /\ freeVFDs = <<>>
    /\ IF Len(files) = capacity /\ ~closesSucceed(hostAfterOpen(p))
       THEN dies("abort")
       ELSE /\ files' = Append(files, <<constructed(p)>>)
            /\ capacity' = IF Len(files) < capacity THEN capacity
                           ELSE IF capacity = 0 THEN 1 ELSE 2 * capacity
            /\ host' = Closing(hostAfterOpen(p), destroyedByGrowth)
            /\ respond(Len(files), 0)
            /\ UNCHANGED <<freeVFDs, outcome>>

(* open() into a freed slot: the temporary is copied, then destroyed,      *)
(* which closes the descriptor it shares with the slot.                    *)
OpenReuse(p) ==
    /\ freeVFDs # <<>>
    /\ LET v == Last(freeVFDs)
           f == constructed(p)
       IN  IF engaged(v) \/ f.fd = NoFd
           THEN dies("abort")
           ELSE /\ files' = [files EXCEPT ![v + 1] = <<f>>]
                /\ freeVFDs' = Front(freeVFDs)
                /\ host' = Closing(hostAfterOpen(p), {f.fd})
                /\ respond(v, 0)
                /\ UNCHANGED <<capacity, outcome>>

Open(p) == /\ outcome = "running" /\ Len(opened) < MaxOpens
           /\ OpenNew(p) \/ OpenReuse(p)
           /\ opened' = Append(opened, p)

(* FileSystem::operator[] and the optional's ->.                           *)
unusable(v) ==
    /\ \/ v >= Len(files) /\ dies("terminate")      \* std::out_of_range
       \/ v < Len(files) /\ ~engaged(v) /\ dies("undefined")
    /\ UNCHANGED opened

bytesLeft(h) == IF h.offset < Size[h.path] THEN Size[h.path] - h.offset ELSE 0

(* read() of at most n bytes.  A failed host read is -1 as a 64-bit value, *)
(* which the test against Word(-1) misses: resize throws length_error.     *)
Read(v, n) ==
    /\ outcome = "running"
    /\ \/ unusable(v)
       \/ engaged(v) /\ file(v).fd \notin DOMAIN host /\ dies("terminate")
          /\ UNCHANGED opened
       \/ /\ engaged(v) /\ file(v).fd \in DOMAIN host
          /\ LET d    == file(v).fd
                 left == bytesLeft(host[d])
             IN  \E k \in 0..n :
                   /\ k <= left
                   /\ k = 0 => left = 0 \/ n = 0
                   /\ host' = [host EXCEPT ![d].offset = @ + k]
                   /\ resp' = [res |-> k, err |-> 0,
                               got |-> [path |-> host[d].path,
                                        from |-> host[d].offset]]
          /\ UNCHANGED <<files, capacity, freeVFDs, opened, outcome>>

(* seek() to offset k; its err is never cleared.                           *)
Seek(v, k) ==
    /\ outcome = "running"
    /\ \/ unusable(v)
       \/ /\ engaged(v)
          /\ LET d    == file(v).fd
                 live == d \in DOMAIN host
             IN  /\ host' = IF live THEN [host EXCEPT ![d].offset = k] ELSE host
                 /\ files' = [files EXCEPT ![v + 1][1].err =
                                 IF live THEN @ ELSE 1]
                 /\ respond(IF live THEN k ELSE Minus1, IF live THEN file(v).err ELSE 1)
          /\ UNCHANGED <<capacity, freeVFDs, opened, outcome>>

(* The slots close() gives back, in the order it does.                     *)
freedTwice(v) == freeVFDs \o <<v, v>>
freed(v)      == Append(freeVFDs, v)

(* A close() that leaves the host's descriptor open, and the real one.     *)
keptOpen(v) == {}
closedBy(v) == {file(v).fd}

(* close(): reset() runs the destructor.  The answer to the request is     *)
(* always res = err = 0.                                                   *)
Close(v) ==
    /\ outcome = "running"
    /\ \/ ~engaged(v) /\ respond(0, 0)
          /\ UNCHANGED <<files, capacity, freeVFDs, host, opened, outcome>>
       \/ engaged(v) /\ file(v).fd \notin DOMAIN host /\ dies("abort")
          /\ UNCHANGED opened
       \/ /\ engaged(v) /\ file(v).fd \in DOMAIN host
          /\ files' = [files EXCEPT ![v + 1] = <<>>]
          /\ freeVFDs' = freed(v)
          /\ host' = Closing(host, closedBy(v))
          /\ respond(0, 0)
          /\ UNCHANGED <<capacity, opened, outcome>>
=============================================================================
