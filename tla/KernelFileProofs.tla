--------------------------- MODULE KernelFileProofs ---------------------------
(***************************************************************************)
(* The table of open files and the File objects over it, for all paths,    *)
(* sizes and offsets and any number of opens and objects.                  *)
(***************************************************************************)
EXTENDS KernelFile, FiniteSetTheorems, SequenceTheorems, TLAPS

(* The table.  There is always a descriptor for the next open because each *)
(* earlier one took at most one.                                           *)
TableInv ==
    /\ FsTypeOK /\ FreeListExact /\ NoDescriptorLeaks
    /\ Cardinality(DOMAIN host) <= Len(opened)

LEMMA HostFinite ==
    ASSUME FsTypeOK
    PROVE  IsFiniteSet(HostFd) /\ Cardinality(HostFd) = MaxOpens + 1 /\ IsFiniteSet(DOMAIN host)
<1>1. 1 \in Int /\ MaxOpens + 1 \in Int /\ MaxOpens + 1 >= 1
    BY FileAssumption
<1>2. IsFiniteSet(HostFd) /\ Cardinality(HostFd) = MaxOpens + 1
    BY <1>1, FS_Interval DEF HostFd
<1>3. DOMAIN host \subseteq HostFd
    BY DEF FsTypeOK
<1> QED BY <1>2, <1>3, FS_Subset

(* Every non-empty set of naturals has a smallest element.                 *)
LEMMA Smallest ==
    ASSUME NEW T, T \subseteq Nat, T # {}
    PROVE  \E x \in T : \A y \in T : x <= y
<1>1. PICK x \in T : \A y \in T : ~(<<y, x>> \in OpToRel(<, Nat))
    BY NatLessThanWellFounded, WFMin
<1>2. \A y \in T : ~(y < x)
    BY <1>1 DEF OpToRel
<1> QED BY <1>2

LEMMA DescriptorFree ==
    ASSUME TableInv, Len(opened) < MaxOpens
    PROVE  lowest \in HostFd \ DOMAIN host
<1> DEFINE T == HostFd \ DOMAIN host
<1>1. T # {}
  <2>1. SUFFICES ASSUME T = {} PROVE FALSE
      OBVIOUS
  <2>2. DOMAIN host = HostFd
      BY <2>1 DEF TableInv, FsTypeOK
  <2>3. Len(opened) \in Nat /\ MaxOpens \in Nat
      BY FileAssumption DEF TableInv, FsTypeOK
  <2> QED BY <2>2, <2>3, HostFinite DEF TableInv
<1>2. T \subseteq Nat
    BY FileAssumption DEF HostFd
<1>3. PICK d \in T : \A e \in T : d <= e
    BY <1>1, <1>2, Smallest
<1>4. \A e \in HostFd : e < d => e \in DOMAIN host
    BY <1>2, <1>3 DEF HostFd
<1> QED BY <1>3, <1>4 DEF lowest

-----------------------------------------------------------------------------
(* The free list, a sequence used as a stack.                              *)
LEMMA Pushed ==
    ASSUME NEW S, NEW s \in Seq(S), NEW x \in S \ Range(s), IsInjective(s)
    PROVE  /\ Append(s, x) \in Seq(S) /\ Range(Append(s, x)) = Range(s) \cup {x}
           /\ IsInjective(Append(s, x))
<1>1. /\ Append(s, x) \in Seq(S) /\ DOMAIN s = 1..Len(s) /\ Len(s) \in Nat
      /\ DOMAIN Append(s, x) = 1..(Len(s) + 1) /\ Append(s, x)[Len(s) + 1] = x
      /\ \A i \in 1..Len(s) : Append(s, x)[i] = s[i]
    OBVIOUS
<1>2. Range(Append(s, x)) = Range(s) \cup {x}
    BY <1>1 DEF Range
<1>3. IsInjective(Append(s, x))
    BY <1>1 DEF IsInjective, Range
<1> QED BY <1>1, <1>2, <1>3

LEMMA Popped ==
    ASSUME NEW S, NEW s \in Seq(S), s # <<>>, IsInjective(s)
    PROVE  /\ Last(s) \in S /\ Last(s) \in Range(s)
           /\ Front(s) \in Seq(S) /\ Range(Front(s)) = Range(s) \ {Last(s)}
           /\ IsInjective(Front(s))
<1>1. /\ DOMAIN s = 1..Len(s) /\ Len(s) \in Nat \ {0} /\ Last(s) = s[Len(s)]
      /\ \A i \in 1..Len(s) : s[i] \in S
    BY DEF Last
<1>2. /\ Front(s) \in Seq(S) /\ Len(Front(s)) = Len(s) - 1
      /\ \A i \in 1..(Len(s) - 1) : Front(s)[i] = s[i]
  <2>1. /\ Front(s) = SubSeq(s, 1, Len(s) - 1)
        /\ \A i \in 1..(Len(s) - 1) : s[i] \in S
      BY <1>1 DEF Front
  <2> QED BY <1>1, <2>1, SubSeqProperties
<1>3. DOMAIN Front(s) = 1..(Len(s) - 1)
    BY <1>2
<1>4. Range(Front(s)) = Range(s) \ {Last(s)}
    BY <1>1, <1>2, <1>3 DEF Range, IsInjective
<1>5. IsInjective(Front(s))
    BY <1>1, <1>2, <1>3 DEF IsInjective
<1>6. Last(s) \in S /\ Last(s) \in Range(s)
  <2>1. Len(s) \in DOMAIN s
      BY <1>1
  <2> QED BY <1>1, <2>1 DEF Range
<1> QED BY <1>2, <1>4, <1>5, <1>6

-----------------------------------------------------------------------------
(* A slot of the table is empty or holds one open file.                    *)
LEMMA SlotsHold ==
    ASSUME FsTypeOK
    PROVE  /\ Len(files) \in Nat /\ DOMAIN files = 1..Len(files)
           /\ \A v \in DOMAIN files : files[v] \in Slot
           /\ \A v \in DOMAIN files : files[v] # <<>> =>
                 files[v][1] \in OpenFile /\ files[v] = <<files[v][1]>>
           /\ \A v : engaged(v) => /\ v + 1 \in DOMAIN files /\ v \in Nat
                                   /\ file(v) \in OpenFile
                                   /\ file(v).fd \in descriptors
<1>1. files \in Seq(Slot)
    BY DEF FsTypeOK
<1>2. /\ Len(files) \in Nat /\ DOMAIN files = 1..Len(files)
      /\ \A v \in DOMAIN files : files[v] \in Slot
    BY <1>1
<1>3. \A v \in DOMAIN files : files[v] # <<>> =>
          files[v][1] \in OpenFile /\ files[v] = <<files[v][1]>>
    BY <1>2 DEF Slot
<1>4. ASSUME NEW v, engaged(v)
      PROVE  /\ v + 1 \in DOMAIN files /\ v \in Nat
             /\ file(v) \in OpenFile /\ file(v).fd \in descriptors
    BY <1>2, <1>3, <1>4 DEF engaged, file, descriptors, elements
<1> QED BY <1>2, <1>3, <1>4

(* What open() adds to the host's descriptors is what it puts in the slot. *)
LEMMA HostOpened ==
    ASSUME TableInv, Len(opened) < MaxOpens, NEW p \in Path
    PROVE  /\ constructed(p) \in OpenFile
           /\ hostAfterOpen(p) \in [DOMAIN hostAfterOpen(p) -> HostFile]
           /\ DOMAIN hostAfterOpen(p) \subseteq HostFd
           /\ DOMAIN host \subseteq DOMAIN hostAfterOpen(p)
           /\ DOMAIN hostAfterOpen(p) \subseteq DOMAIN host \cup {constructed(p).fd}
           /\ Cardinality(DOMAIN hostAfterOpen(p)) <= Len(opened) + 1
           /\ IsFiniteSet(DOMAIN hostAfterOpen(p))
<1>1. lowest \in HostFd \ DOMAIN host
    BY DescriptorFree
<1>2. constructed(p) \in OpenFile
    BY <1>1 DEF constructed, OpenFile
<1>3. host \in [DOMAIN host -> HostFile] /\ DOMAIN host \subseteq HostFd
    BY DEF TableInv, FsTypeOK
<1>4. Len(opened) \in Nat /\ Cardinality(DOMAIN host) <= Len(opened)
    BY DEF TableInv, FsTypeOK
<1>5. IsFiniteSet(DOMAIN host) /\ Cardinality(DOMAIN host) \in Nat
    BY HostFinite, FS_CardinalityType DEF TableInv
<1>6. CASE p \in DOMAIN Size
  <2>1. /\ DOMAIN hostAfterOpen(p) = DOMAIN host \cup {lowest}
        /\ \A d \in DOMAIN hostAfterOpen(p) : hostAfterOpen(p)[d] =
              IF d = lowest THEN [path |-> p, offset |-> 0] ELSE host[d]
        /\ constructed(p).fd = lowest
      BY <1>6 DEF hostAfterOpen, constructed
  <2>2. \A d \in DOMAIN hostAfterOpen(p) : hostAfterOpen(p)[d] \in HostFile
      BY <1>3, <1>6, <2>1 DEF HostFile
  <2>3. hostAfterOpen(p) \in [DOMAIN hostAfterOpen(p) -> HostFile]
      BY <1>6, <2>1, <2>2 DEF hostAfterOpen
  <2>4. /\ IsFiniteSet(DOMAIN host \cup {lowest})
        /\ Cardinality(DOMAIN host \cup {lowest}) = Cardinality(DOMAIN host) + 1
      BY <1>1, <1>5, FS_AddElement
  <2> QED BY <1>1, <1>2, <1>3, <1>4, <1>5, <2>1, <2>3, <2>4
<1>7. CASE p \notin DOMAIN Size
    BY <1>2, <1>3, <1>4, <1>5, <1>7 DEF hostAfterOpen
<1> QED BY <1>6, <1>7

(* Closing some descriptors of a host table.                               *)
LEMMA HostClosed ==
    ASSUME NEW h, NEW X, NEW n \in Nat, h \in [DOMAIN h -> HostFile],
           IsFiniteSet(DOMAIN h), Cardinality(DOMAIN h) <= n
    PROVE  /\ DOMAIN Closing(h, X) = DOMAIN h \ X
           /\ Closing(h, X) \in [DOMAIN Closing(h, X) -> HostFile]
           /\ Cardinality(DOMAIN Closing(h, X)) <= n
<1>1. DOMAIN Closing(h, X) = DOMAIN h \ X
    BY DEF Closing
<1>2. Closing(h, X) \in [DOMAIN Closing(h, X) -> HostFile]
    BY DEF Closing
<1>3. /\ Cardinality(DOMAIN h \ X) <= Cardinality(DOMAIN h)
      /\ Cardinality(DOMAIN h \ X) \in Nat /\ Cardinality(DOMAIN h) \in Nat
  <2>1. DOMAIN h \ X \in SUBSET DOMAIN h
      OBVIOUS
  <2>2. IsFiniteSet(DOMAIN h \ X) /\ Cardinality(DOMAIN h \ X) <= Cardinality(DOMAIN h)
      BY <2>1, FS_Subset
  <2> QED BY <2>2, FS_CardinalityType
<1> QED BY <1>1, <1>2, <1>3

-----------------------------------------------------------------------------
(* Each request keeps the table as TableInv says.                          *)
LEMMA DeathKeeps ==
    ASSUME TableInv, NEW how \in {"abort", "terminate", "undefined"}, dies(how),
           opened' \in {opened} \cup {Append(opened, p) : p \in Path},
           Len(opened') <= MaxOpens
    PROVE  TableInv' /\ outcome' # "running"
<1>1. /\ Len(opened) \in Nat /\ opened' \in Seq(Path) /\ Len(opened') >= Len(opened)
  <2>1. Len(opened) \in Nat /\ opened \in Seq(Path)
      BY DEF TableInv, FsTypeOK
  <2>2. CASE opened' = opened
      BY <2>1, <2>2
  <2>3. CASE \E p \in Path : opened' = Append(opened, p)
      BY <2>1, <2>3
  <2> QED BY <2>1, <2>2, <2>3
<1>2. /\ UNCHANGED <<files, capacity, freeVFDs, host, resp>>
      /\ outcome' = how /\ how # "running"
    BY DEF dies
<1>3. FsTypeOK'
    BY <1>1, <1>2 DEF TableInv, FsTypeOK
<1>4. Cardinality(DOMAIN host') <= Len(opened')
  <2>1. Cardinality(DOMAIN host) \in Nat
      BY HostFinite, FS_CardinalityType DEF TableInv
  <2>2. Cardinality(DOMAIN host) <= Len(opened) /\ Len(opened') \in Nat
      BY <1>1 DEF TableInv
  <2> QED BY <1>1, <1>2, <2>1, <2>2
<1>5. FreeListExact' /\ NoDescriptorLeaks'
    BY <1>2 DEF FreeListExact, NoDescriptorLeaks
<1> QED BY <1>2, <1>3, <1>4, <1>5 DEF TableInv

LEMMA OpenNewKeeps ==
    ASSUME TableInv, NEW p \in Path, outcome = "running", Len(opened) < MaxOpens,
           OpenNew(p), opened' = Append(opened, p)
    PROVE  TableInv' /\ (outcome' = "running" => resp'.res \in Nat)
<1>1. /\ Len(opened) \in Nat /\ opened' \in Seq(Path) /\ Len(opened') = Len(opened) + 1
      /\ Len(opened') <= MaxOpens
    BY FileAssumption DEF TableInv, FsTypeOK
<1>2. CASE Len(files) = capacity /\ ~closesSucceed(hostAfterOpen(p))
    BY <1>1, <1>2, DeathKeeps DEF OpenNew
<1>3. CASE ~(Len(files) = capacity /\ ~closesSucceed(hostAfterOpen(p)))
  <2>1. /\ freeVFDs = <<>> /\ UNCHANGED <<freeVFDs, outcome>>
        /\ files' = Append(files, <<constructed(p)>>)
        /\ capacity' = IF Len(files) < capacity THEN capacity
                       ELSE IF capacity = 0 THEN 1 ELSE 2 * capacity
        /\ host' = Closing(hostAfterOpen(p), destroyedByGrowth)
        /\ resp'.res = Len(files) /\ resp'.err = 0
      BY <1>3 DEF OpenNew, respond
  <2>2. /\ Len(files) \in Nat /\ files \in Seq(Slot) /\ capacity \in Nat
        /\ Len(files) <= capacity
      BY DEF TableInv, FsTypeOK
  <2>3. <<constructed(p)>> \in Slot /\ constructed(p) \in OpenFile
      BY HostOpened DEF Slot
  <2>4. /\ files' \in Seq(Slot) /\ Len(files') = Len(files) + 1
        /\ DOMAIN files' = 1..(Len(files) + 1)
        /\ files'[Len(files) + 1] = <<constructed(p)>>
        /\ \A v \in 1..Len(files) : files'[v] = files[v]
      BY <2>1, <2>2, <2>3
  <2>5. capacity' \in Nat /\ Len(files') <= capacity'
      BY <2>1, <2>2, <2>4
  <2>6. /\ DOMAIN host' = DOMAIN hostAfterOpen(p) \ destroyedByGrowth
        /\ host' \in [DOMAIN host' -> HostFile]
        /\ Cardinality(DOMAIN host') <= Len(opened')
    <3> DEFINE h == hostAfterOpen(p)
    <3>1. /\ h \in [DOMAIN h -> HostFile] /\ IsFiniteSet(DOMAIN h)
          /\ Cardinality(DOMAIN h) <= Len(opened') /\ Len(opened') \in Nat
        BY <1>1, HostOpened
    <3> HIDE DEF h
    <3>2. \A X : /\ DOMAIN Closing(h, X) = DOMAIN h \ X
                 /\ Closing(h, X) \in [DOMAIN Closing(h, X) -> HostFile]
                 /\ Cardinality(DOMAIN Closing(h, X)) <= Len(opened')
        BY <3>1, HostClosed
    <3>3. host' = Closing(h, destroyedByGrowth)
        BY <2>1 DEF h
    <3>4. /\ DOMAIN host' = DOMAIN h \ destroyedByGrowth /\ host' \in [DOMAIN host' -> HostFile]
          /\ Cardinality(DOMAIN host') <= Len(opened')
        BY <3>2, <3>3
    <3> QED BY <3>4 DEF h
  <2>7. DOMAIN host' \subseteq HostFd /\ DOMAIN host' \subseteq DOMAIN host \cup {constructed(p).fd}
      BY <2>6, HostOpened
  <2>8. FsTypeOK'
    <3>1. freeVFDs' \in Seq(0..(Len(files') - 1))
        BY <2>1
    <3> QED BY <1>1, <2>1, <2>2, <2>4, <2>5, <2>6, <2>7, <3>1 DEF FsTypeOK, TableInv
  <2>9. FreeListExact'
    <3>1. Range(freeVFDs) = {} /\ IsInjective(freeVFDs)
        BY <2>1 DEF Range, IsInjective
    <3>2. \A v \in 0..(Len(files) - 1) : files[v + 1] # <<>>
        BY <2>2, <3>1 DEF TableInv, FreeListExact, engaged
    <3>3. \A v \in 0..(Len(files') - 1) : files'[v + 1] # <<>>
      <4> TAKE v \in 0..(Len(files') - 1)
      <4>1. CASE v = Len(files)
        <5>1. <<constructed(p)>> # <<>> /\ files'[v + 1] = <<constructed(p)>>
            BY <2>4, <4>1
        <5> QED BY <5>1
      <4>2. CASE v # Len(files)
        <5>1. v \in 0..(Len(files) - 1) /\ v + 1 \in 1..Len(files)
            BY <2>2, <2>4, <4>2
        <5> QED BY <2>4, <3>2, <5>1
      <4> QED BY <4>1, <4>2
    <3> QED BY <2>1, <2>4, <3>1, <3>3 DEF FreeListExact, engaged
  <2>10. NoDescriptorLeaks'
    <3>1. descriptors \subseteq descriptors'
        BY <2>2, <2>4 DEF descriptors, elements
    <3>2. constructed(p).fd \in descriptors'
      <4>1. /\ Len(files) + 1 \in DOMAIN files' /\ files'[Len(files) + 1] # <<>>
            /\ files'[Len(files) + 1][1].fd = constructed(p).fd
          BY <2>2, <2>4
      <4> QED BY <4>1 DEF descriptors, elements
    <3> QED BY <2>7, <3>1, <3>2 DEF TableInv, NoDescriptorLeaks
  <2> QED BY <2>1, <2>2, <2>6, <2>8, <2>9, <2>10 DEF TableInv
<1> QED BY <1>2, <1>3

LEMMA OpenReuseKeeps ==
    ASSUME TableInv, NEW p \in Path, outcome = "running", Len(opened) < MaxOpens,
           OpenReuse(p), opened' = Append(opened, p)
    PROVE  TableInv' /\ (outcome' = "running" => resp'.res \in Nat)
<1> DEFINE w == Last(freeVFDs)
           f == constructed(p)
<1>1. /\ Len(opened) \in Nat /\ opened' \in Seq(Path) /\ Len(opened') = Len(opened) + 1
      /\ Len(opened') <= MaxOpens
    BY FileAssumption DEF TableInv, FsTypeOK
<1>2. CASE engaged(w) \/ f.fd = NoFd
    BY <1>1, <1>2, DeathKeeps DEF OpenReuse
<1>3. CASE ~(engaged(w) \/ f.fd = NoFd)
  <2>1. /\ freeVFDs # <<>> /\ UNCHANGED <<capacity, outcome>>
        /\ files' = [files EXCEPT ![w + 1] = <<f>>]
        /\ freeVFDs' = Front(freeVFDs)
        /\ host' = Closing(hostAfterOpen(p), {f.fd})
        /\ resp'.res = w /\ resp'.err = 0
      BY <1>3 DEF OpenReuse, respond
  <2>2. /\ Len(files) \in Nat /\ files \in Seq(Slot) /\ DOMAIN files = 1..Len(files)
        /\ freeVFDs \in Seq(0..(Len(files) - 1))
      BY DEF TableInv, FsTypeOK
  <2>3. /\ Range(freeVFDs) = {v \in 0..(Len(files) - 1) : ~engaged(v)}
        /\ IsInjective(freeVFDs)
      BY DEF TableInv, FreeListExact
  <2>4. /\ w \in 0..(Len(files) - 1) /\ w \in Nat
        /\ freeVFDs' \in Seq(0..(Len(files) - 1))
        /\ Range(freeVFDs') = Range(freeVFDs) \ {w} /\ IsInjective(freeVFDs')
    <3>1. /\ w \in 0..(Len(files) - 1) /\ freeVFDs' \in Seq(0..(Len(files) - 1))
          /\ Range(freeVFDs') = Range(freeVFDs) \ {w} /\ IsInjective(freeVFDs')
        BY <2>1, <2>2, <2>3, Popped
    <3> QED BY <2>2, <3>1
  <2>5. <<f>> \in Slot /\ f \in OpenFile
      BY HostOpened DEF Slot
  <2>6. /\ files' \in Seq(Slot) /\ Len(files') = Len(files) /\ DOMAIN files' = DOMAIN files
        /\ files'[w + 1] = <<f>> /\ \A v \in DOMAIN files \ {w + 1} : files'[v] = files[v]
      BY <2>1, <2>2, <2>4, <2>5
  <2>7. /\ DOMAIN host' = DOMAIN hostAfterOpen(p) \ {f.fd}
        /\ host' \in [DOMAIN host' -> HostFile]
        /\ Cardinality(DOMAIN host') <= Len(opened')
    <3> DEFINE h == hostAfterOpen(p)
    <3>1. /\ h \in [DOMAIN h -> HostFile] /\ IsFiniteSet(DOMAIN h)
          /\ Cardinality(DOMAIN h) <= Len(opened') /\ Len(opened') \in Nat
        BY <1>1, HostOpened
    <3> HIDE DEF h
    <3>2. \A X : /\ DOMAIN Closing(h, X) = DOMAIN h \ X
                 /\ Closing(h, X) \in [DOMAIN Closing(h, X) -> HostFile]
                 /\ Cardinality(DOMAIN Closing(h, X)) <= Len(opened')
        BY <3>1, HostClosed
    <3>3. host' = Closing(h, {f.fd})
        BY <2>1 DEF h
    <3>4. /\ DOMAIN host' = DOMAIN h \ {f.fd} /\ host' \in [DOMAIN host' -> HostFile]
          /\ Cardinality(DOMAIN host') <= Len(opened')
        BY <3>2, <3>3
    <3> QED BY <3>4 DEF h
  <2>8. DOMAIN host' \subseteq HostFd /\ DOMAIN host' \subseteq DOMAIN host
      BY <2>7, HostOpened
  <2>9. FsTypeOK'
      BY <1>1, <2>1, <2>2, <2>4, <2>6, <2>7, <2>8 DEF FsTypeOK, TableInv
  <2>10. FreeListExact'
    <3>1. \A v \in 0..(Len(files) - 1) :
              files'[v + 1] # <<>> <=> files[v + 1] # <<>> \/ v = w
      <4> TAKE v \in 0..(Len(files) - 1)
      <4>1. v + 1 \in DOMAIN files /\ (v + 1 = w + 1 <=> v = w)
          BY <2>2, <2>4
      <4>2. <<f>> # <<>>
          OBVIOUS
      <4> HIDE DEF f, w
      <4>3. CASE v = w
          BY <2>6, <4>2, <4>3
      <4>4. CASE v # w
          BY <2>6, <4>1, <4>4
      <4> QED BY <4>3, <4>4
    <3>2. Range(freeVFDs') = {v \in 0..(Len(files) - 1) : files'[v + 1] = <<>>}
        BY <2>3, <2>4, <3>1 DEF engaged
    <3> QED BY <2>4, <2>6, <3>2 DEF FreeListExact, engaged
  <2>11. NoDescriptorLeaks'
    <3>1. files[w + 1] = <<>>
        BY <1>3, <2>4 DEF engaged
    <3>2. descriptors \subseteq descriptors'
        BY <2>6, <3>1 DEF descriptors, elements
    <3> QED BY <2>8, <3>2 DEF TableInv, NoDescriptorLeaks
  <2> QED BY <2>1, <2>4, <2>7, <2>9, <2>10, <2>11 DEF TableInv
<1> QED BY <1>2, <1>3

LEMMA OpenKeeps ==
    ASSUME TableInv, NEW p \in Path, Open(p)
    PROVE  TableInv' /\ (outcome' = "running" => resp'.res \in Nat)
BY OpenNewKeeps, OpenReuseKeeps DEF Open
LEMMA UnusableKeeps ==
    ASSUME TableInv, NEW v, unusable(v)
    PROVE  TableInv' /\ outcome' # "running"
<1>1. opened' = opened /\ Len(opened) <= MaxOpens
    BY DEF unusable, TableInv, FsTypeOK
<1> QED BY <1>1, DeathKeeps DEF unusable

LEMMA ReadKeeps ==
    ASSUME TableInv, NEW v, NEW n \in Nat, Read(v, n)
    PROVE  /\ TableInv'
           /\ outcome' = "running" =>
                 /\ engaged(v) /\ file(v).fd \in DOMAIN host
                 /\ resp'.res \in 0..n /\ resp'.got.path \in DOMAIN Size
                 /\ resp'.got.from \in Nat
<1>1. CASE unusable(v)
    BY <1>1, UnusableKeeps
<1>2. CASE dies("terminate") /\ UNCHANGED opened
  <2>1. opened' = opened /\ Len(opened) <= MaxOpens
      BY <1>2 DEF TableInv, FsTypeOK
  <2> QED BY <1>2, <2>1, DeathKeeps
<1>3. CASE ~unusable(v) /\ ~(dies("terminate") /\ UNCHANGED opened)
  <2> DEFINE d == file(v).fd
  <2>1. /\ engaged(v) /\ d \in DOMAIN host
        /\ UNCHANGED <<files, capacity, freeVFDs, opened, outcome>>
      BY <1>3 DEF Read
  <2>2. PICK k \in 0..n :
            /\ host' = [host EXCEPT ![d].offset = @ + k]
            /\ resp' = [res |-> k, err |-> 0,
                        got |-> [path |-> host[d].path, from |-> host[d].offset]]
      BY <1>3 DEF Read
  <2>3. host \in [DOMAIN host -> HostFile] /\ host[d] \in HostFile
      BY <2>1 DEF TableInv, FsTypeOK
  <2>4. host' \in [DOMAIN host -> HostFile] /\ DOMAIN host' = DOMAIN host
      BY <2>1, <2>2, <2>3 DEF HostFile
  <2>5. /\ resp'.res = k /\ resp'.err = 0 /\ resp'.got.path = host[d].path
        /\ resp'.got.from = host[d].offset /\ k \in Nat
      BY <2>2
  <2>6. FsTypeOK'
      BY <2>1, <2>4, <2>5 DEF TableInv, FsTypeOK
  <2>7. FreeListExact' /\ NoDescriptorLeaks'
      BY <2>1, <2>4 DEF TableInv, FreeListExact, engaged, NoDescriptorLeaks,
                        descriptors, elements
  <2> QED BY <2>1, <2>3, <2>4, <2>5, <2>6, <2>7 DEF TableInv, HostFile
<1> QED BY <1>1, <1>2, <1>3

LEMMA SeekKeeps ==
    ASSUME TableInv, NEW v, NEW k \in Nat, Seek(v, k)
    PROVE  TableInv'
<1>1. CASE unusable(v)
    BY <1>1, UnusableKeeps
<1>2. CASE ~unusable(v)
  <2> DEFINE d == file(v).fd
             alive == d \in DOMAIN host
             f == [file(v) EXCEPT !.err = IF alive THEN @ ELSE 1]
  <2>1. /\ engaged(v) /\ UNCHANGED <<capacity, freeVFDs, opened, outcome>>
        /\ host' = IF alive THEN [host EXCEPT ![d].offset = k] ELSE host
        /\ files' = [files EXCEPT ![v + 1][1].err = IF alive THEN @ ELSE 1]
        /\ respond(IF alive THEN k ELSE Minus1, IF alive THEN file(v).err ELSE 1)
      BY <1>2 DEF Seek
  <2>2. /\ Len(files) \in Nat /\ DOMAIN files = 1..Len(files) /\ files \in Seq(Slot)
        /\ v + 1 \in DOMAIN files /\ file(v) \in OpenFile
        /\ files[v + 1] = <<file(v)>>
      BY <2>1, SlotsHold DEF engaged, file, TableInv, FsTypeOK
  <2>3. f \in OpenFile /\ f.fd = file(v).fd /\ <<f>> \in Slot
      BY <2>2 DEF OpenFile, Slot
  <2>4. files' = [files EXCEPT ![v + 1] = <<f>>]
    <3>1. files' = [files EXCEPT ![v + 1] = [files[v + 1] EXCEPT ![1] = f]]
        BY <2>1 DEF file
    <3>2. [files[v + 1] EXCEPT ![1] = f] = <<f>>
        BY <2>2
    <3> QED BY <3>1, <3>2
  <2> HIDE DEF f
  <2>5. /\ files' \in Seq(Slot) /\ Len(files') = Len(files) /\ DOMAIN files' = DOMAIN files
        /\ files'[v + 1] = <<f>> /\ \A u \in DOMAIN files \ {v + 1} : files'[u] = files[u]
      BY <2>2, <2>3, <2>4
  <2>6. host' \in [DOMAIN host -> HostFile] /\ DOMAIN host' = DOMAIN host
      BY <2>1 DEF TableInv, FsTypeOK, HostFile
  <2>7. resp'.res \in Nat \cup {Minus1} /\ resp'.err \in {0, 1}
      BY <2>1, <2>2 DEF respond, OpenFile
  <2>8. \A u \in DOMAIN files : files'[u] # <<>> <=> files[u] # <<>>
    <3>1. <<f>> # <<>> /\ <<file(v)>> # <<>>
        OBVIOUS
    <3> QED BY <2>2, <2>5, <3>1
  <2>9. FsTypeOK'
      BY <2>1, <2>5, <2>6, <2>7 DEF TableInv, FsTypeOK
  <2>10. FreeListExact'
    <3>1. \A u \in 0..(Len(files) - 1) : u + 1 \in DOMAIN files
        BY <2>2
    <3>2. {u \in 0..(Len(files) - 1) : files'[u + 1] = <<>>}
             = {u \in 0..(Len(files) - 1) : files[u + 1] = <<>>}
        BY <2>8, <3>1
    <3> QED BY <2>1, <2>5, <3>2 DEF TableInv, FreeListExact, engaged
  <2>11. NoDescriptorLeaks'
    <3>1. \A u \in DOMAIN files : files[u] # <<>> => files'[u][1].fd = files[u][1].fd
        BY <2>2, <2>3, <2>5
    <3>2. descriptors \subseteq descriptors'
        BY <2>5, <2>8, <3>1 DEF descriptors, elements
    <3> QED BY <2>1, <2>6, <3>2 DEF TableInv, NoDescriptorLeaks
  <2> QED BY <2>1, <2>6, <2>9, <2>10, <2>11 DEF TableInv
<1> QED BY <1>1, <1>2

LEMMA CloseKeeps ==
    ASSUME TableInv, NEW v, Close(v)
    PROVE  TableInv'
<1>1. CASE ~engaged(v) /\ respond(0, 0)
           /\ UNCHANGED <<files, capacity, freeVFDs, host, opened, outcome>>
  <2>1. resp'.res = 0 /\ resp'.err = 0
      BY <1>1 DEF respond
  <2> QED BY <1>1, <2>1 DEF TableInv, FsTypeOK, FreeListExact, engaged,
                            NoDescriptorLeaks, descriptors, elements
<1>2. CASE dies("abort") /\ UNCHANGED opened
  <2>1. opened' = opened /\ Len(opened) <= MaxOpens
      BY <1>2 DEF TableInv, FsTypeOK
  <2> QED BY <1>2, <2>1, DeathKeeps
<1>3. CASE /\ engaged(v) /\ file(v).fd \in DOMAIN host /\ outcome = "running"
           /\ files' = [files EXCEPT ![v + 1] = <<>>]
           /\ freeVFDs' = freed(v)
           /\ host' = Closing(host, closedBy(v))
           /\ respond(0, 0)
           /\ UNCHANGED <<capacity, opened, outcome>>
  <2>1. /\ Len(files) \in Nat /\ DOMAIN files = 1..Len(files) /\ files \in Seq(Slot)
        /\ v + 1 \in DOMAIN files /\ v \in 0..(Len(files) - 1) /\ <<>> \in Slot
      BY <1>3, SlotsHold DEF engaged, TableInv, FsTypeOK, Slot
  <2>2. /\ files' \in Seq(Slot) /\ Len(files') = Len(files) /\ DOMAIN files' = DOMAIN files
        /\ files'[v + 1] = <<>> /\ \A u \in DOMAIN files \ {v + 1} : files'[u] = files[u]
      BY <1>3, <2>1
  <2>3. /\ Range(freeVFDs) = {u \in 0..(Len(files) - 1) : ~engaged(u)}
        /\ IsInjective(freeVFDs) /\ freeVFDs \in Seq(0..(Len(files) - 1))
      BY <1>3 DEF TableInv, FreeListExact, FsTypeOK
  <2>4. v \notin Range(freeVFDs)
      BY <1>3, <2>3
  <2>5. /\ freeVFDs' \in Seq(0..(Len(files) - 1)) /\ Range(freeVFDs') = Range(freeVFDs) \cup {v}
        /\ IsInjective(freeVFDs')
      BY <1>3, <2>1, <2>3, <2>4, Pushed DEF freed
  <2>6. /\ DOMAIN host' = DOMAIN host \ {file(v).fd}
        /\ host' \in [DOMAIN host' -> HostFile]
        /\ Cardinality(DOMAIN host') <= Len(opened)
    <3>1. /\ host \in [DOMAIN host -> HostFile] /\ IsFiniteSet(DOMAIN host)
          /\ Cardinality(DOMAIN host) <= Len(opened) /\ Len(opened) \in Nat
        BY HostFinite DEF TableInv, FsTypeOK
    <3> QED BY <1>3, <3>1, HostClosed DEF closedBy
  <2>7. FsTypeOK'
    <3>1. resp'.res = 0 /\ resp'.err = 0
        BY <1>3 DEF respond
    <3> QED BY <1>3, <2>2, <2>5, <2>6, <3>1 DEF TableInv, FsTypeOK
  <2>8. FreeListExact'
    <3>1. \A u \in 0..(Len(files) - 1) :
              files'[u + 1] = <<>> <=> files[u + 1] = <<>> \/ u = v
      <4> TAKE u \in 0..(Len(files) - 1)
      <4>1. u + 1 \in DOMAIN files /\ (u + 1 = v + 1 <=> u = v)
          BY <2>1
      <4> QED BY <2>2, <4>1
    <3> QED BY <2>1, <2>2, <2>3, <2>5, <3>1 DEF FreeListExact, engaged
  <2>9. NoDescriptorLeaks'
    <3>1. descriptors \ {file(v).fd} \subseteq descriptors'
        BY <2>1, <2>2 DEF descriptors, elements, file
    <3> QED BY <1>3, <2>6, <3>1 DEF TableInv, NoDescriptorLeaks
  <2> QED BY <1>3, <2>6, <2>7, <2>8, <2>9 DEF TableInv
<1> QED BY <1>1, <1>2, <1>3 DEF Close
-----------------------------------------------------------------------------
(* Objects and their calls over the table.                                 *)
KInv == KfTypeOK /\ TableInv

LEMMA KInitially == Init => KInv
<1> SUFFICES ASSUME Init PROVE KInv
    OBVIOUS
<1>1. /\ files = <<>> /\ capacity = 0 /\ freeVFDs = <<>> /\ host = <<>> /\ opened = <<>>
      /\ resp.res = 0 /\ resp.err = 0 /\ outcome = "running" /\ call = Idle
      /\ life = [f \in Object |-> "unborn"] /\ fd = [f \in Object |-> 0]
      /\ bad = [f \in Object |-> FALSE]
    BY DEF Init, FsInit
<1>2. DOMAIN host = {} /\ Cardinality(DOMAIN host) = 0
    BY <1>1, FS_EmptySet
<1>3. FsTypeOK
    BY <1>1, <1>2, FileAssumption DEF FsTypeOK
<1>4. FreeListExact
    BY <1>1 DEF FreeListExact, Range, IsInjective
<1>5. NoDescriptorLeaks
    BY <1>2 DEF NoDescriptorLeaks
<1>6. KfTypeOK
    BY <1>1, <1>3, ObjectAssumption DEF KfTypeOK, Idle
<1> QED BY <1>1, <1>2, <1>3, <1>4, <1>5, <1>6 DEF KInv, TableInv

LEMMA ConstructKeeps ==
    ASSUME KInv, NEW f \in Object, NEW p \in Path, Construct(f, p)
    PROVE  KInv'
<1>1. TableInv' /\ (outcome' = "running" => resp'.res \in Nat)
    BY OpenKeeps DEF KInv, Construct
<1>2. life' \in [Object -> {"unborn", "alive", "dead"}] /\ fd' \in [Object -> Nat]
      /\ bad' \in [Object -> BOOLEAN]
    BY <1>1 DEF KInv, KfTypeOK, Construct, answered
<1>3. call' = call /\ call.done
    BY DEF Construct, idle
<1> QED BY <1>1, <1>2, <1>3 DEF KInv, KfTypeOK, TableInv

LEMMA DestroyKeeps ==
    ASSUME KInv, NEW f \in Object, Destroy(f)
    PROVE  KInv'
<1>1. TableInv'
    BY CloseKeeps DEF KInv, Destroy
<1>2. life' \in [Object -> {"unborn", "alive", "dead"}]
    BY DEF KInv, KfTypeOK, Destroy
<1>3. call' = call /\ call.done /\ UNCHANGED <<fd, bad>>
    BY DEF Destroy, ready, idle
<1> QED BY <1>1, <1>2, <1>3 DEF KInv, KfTypeOK, TableInv

LEMMA SeekToKeeps ==
    ASSUME KInv, NEW f \in Object, NEW k \in Offsets, SeekTo(f, k)
    PROVE  KInv'
<1>1. TableInv'
    BY SeekKeeps, ObjectAssumption DEF KInv, SeekTo
<1>2. bad' \in [Object -> BOOLEAN]
    BY DEF KInv, KfTypeOK, SeekTo
<1>3. UNCHANGED <<life, fd, call>>
    BY DEF SeekTo
<1> QED BY <1>1, <1>2, <1>3 DEF KInv, KfTypeOK, TableInv

LEMMA BeginReadKeeps ==
    ASSUME KInv, NEW f \in Object, NEW n \in 0..MaxRead, BeginRead(f, n)
    PROVE  KInv'
<1>1. /\ call' = [of |-> {f}, asked |-> n, left |-> n, out |-> <<>>, done |-> n = 0]
      /\ UNCHANGED fsVars /\ UNCHANGED <<life, fd, bad>> /\ life[f] = "alive"
    BY DEF BeginRead, ready
<1>2. FsTypeOK' /\ TableInv'
    BY <1>1 DEF KInv, TableInv, FsTypeOK, FreeListExact, engaged, NoDescriptorLeaks,
                descriptors, elements, fsVars
<1>3. <<>> \in Seq((DOMAIN Size) \X Nat) /\ Len(<<>>) = n - n
    OBVIOUS
<1>4. KfTypeOK'
    BY <1>1, <1>2, <1>3 DEF KInv, KfTypeOK
<1> QED BY <1>2, <1>4 DEF KInv

(* Two sequences over a set make one over it.                              *)
LEMMA Joined ==
    ASSUME NEW S, NEW s \in Seq(S), NEW t \in Seq(S)
    PROVE  /\ s \o t \in Seq(S) /\ Len(s \o t) = Len(s) + Len(t)
           /\ \A i \in 1..Len(s) : (s \o t)[i] = s[i]
           /\ \A i \in 1..Len(t) : (s \o t)[Len(s) + i] = t[i]
OBVIOUS

(* The bytes of a chunk, and a call that has got them.                     *)
LEMMA ChunkBytes ==
    ASSUME KInv, NEW f \in Object, ReadChunk(f), outcome' = "running"
    PROVE  /\ chunk \in Nat /\ chunk <= call.left /\ call.left \in 0..MaxRead
           /\ resp'.res \in 0..chunk /\ engaged(fd[f]) /\ file(fd[f]).fd \in DOMAIN host
           /\ bytesOf(resp') \in Seq((DOMAIN Size) \X Nat)
           /\ Len(bytesOf(resp')) = resp'.res
           /\ \A i \in 1..resp'.res :
                 bytesOf(resp')[i] = <<resp'.got.path, resp'.got.from + i - 1>>
           /\ call' = [call EXCEPT !.left = @ - resp'.res,
                                   !.out = @ \o bytesOf(resp'), !.done = ends(resp')]
<1>1. call.left \in 0..MaxRead /\ MaxRead \in Nat /\ Chunk \in Nat
    BY ObjectAssumption DEF KInv, KfTypeOK
<1>2. chunk \in Nat /\ chunk <= call.left
    BY <1>1 DEF chunk
<1>3. Read(fd[f], chunk)
    BY DEF ReadChunk
<1>4. /\ engaged(fd[f]) /\ file(fd[f]).fd \in DOMAIN host /\ resp'.res \in 0..chunk
      /\ resp'.got.path \in DOMAIN Size /\ resp'.got.from \in Nat
    BY <1>2, <1>3, ReadKeeps DEF KInv
<1>5. \A i \in 1..resp'.res : <<resp'.got.path, resp'.got.from + i - 1>> \in (DOMAIN Size) \X Nat
    BY <1>4
<1>6. /\ bytesOf(resp') \in Seq((DOMAIN Size) \X Nat) /\ Len(bytesOf(resp')) = resp'.res
      /\ \A i \in 1..resp'.res :
            bytesOf(resp')[i] = <<resp'.got.path, resp'.got.from + i - 1>>
  <2>1. bytesOf(resp') = [i \in 1..resp'.res |-> <<resp'.got.path, resp'.got.from + i - 1>>]
      BY DEF bytesOf
  <2>2. resp'.res \in Nat
      BY <1>4
  <2> QED BY <1>5, <2>1, <2>2
<1>7. call' = [call EXCEPT !.left = @ - resp'.res,
                          !.out = @ \o bytesOf(resp'), !.done = ends(resp')]
    BY DEF ReadChunk, answered
<1> QED BY <1>1, <1>2, <1>4, <1>6, <1>7

LEMMA ReadChunkKeeps ==
    ASSUME KInv, NEW f \in Object, ReadChunk(f)
    PROVE  KInv'
<1>1. call.left \in 0..MaxRead /\ MaxRead \in Nat /\ Chunk \in Nat
    BY ObjectAssumption DEF KInv, KfTypeOK
<1>2. chunk \in Nat
    BY <1>1 DEF chunk
<1>3. TableInv'
    BY <1>2, ReadKeeps DEF KInv, ReadChunk
<1>4. UNCHANGED <<life, fd, bad>> /\ ~call.done
    BY DEF ReadChunk, idle
<1>5. CASE outcome' # "running"
  <2>1. call' = call
      BY <1>5 DEF ReadChunk, answered
  <2> QED BY <1>3, <1>4, <2>1 DEF KInv, KfTypeOK, TableInv
<1>6. CASE outcome' = "running"
  <2> DEFINE b == bytesOf(resp')
  <2>1. /\ chunk \in Nat /\ chunk <= call.left /\ resp'.res \in 0..chunk
        /\ b \in Seq((DOMAIN Size) \X Nat) /\ Len(b) = resp'.res
        /\ call' = [call EXCEPT !.left = @ - resp'.res, !.out = @ \o b, !.done = ends(resp')]
      BY <1>6, ChunkBytes
  <2> HIDE DEF b
  <2>2. /\ call \in [of : SUBSET Object, asked : 0..MaxRead, left : 0..MaxRead,
                      out : Seq((DOMAIN Size) \X Nat), done : BOOLEAN]
        /\ Len(call.out) = call.asked - call.left
      BY DEF KInv, KfTypeOK
  <2>3. /\ call.out \o b \in Seq((DOMAIN Size) \X Nat)
        /\ Len(call.out \o b) = Len(call.out) + resp'.res
    <3>1. call.out \in Seq((DOMAIN Size) \X Nat)
        BY <2>2
    <3>2. Len(call.out \o b) = Len(call.out) + Len(b)
        BY <2>1, <3>1, Joined
    <3>3. call.out \o b \in Seq((DOMAIN Size) \X Nat)
        BY <2>1, <3>1, Joined
    <3> QED BY <2>1, <3>2, <3>3
  <2>4. ends(resp') \in BOOLEAN
      BY DEF ends
  <2>5. /\ call'.of = call.of /\ call'.asked = call.asked /\ call'.left = call.left - resp'.res
        /\ call'.out = call.out \o b /\ call'.done = ends(resp')
        /\ call' \in [of : SUBSET Object, asked : 0..MaxRead, left : 0..MaxRead,
                      out : Seq((DOMAIN Size) \X Nat), done : BOOLEAN]
    <3>1. call.left - resp'.res \in 0..MaxRead
        BY <1>1, <2>1
    <3> QED BY <2>1, <2>2, <2>3, <2>4, <3>1
  <2>6. Len(call'.out) = call'.asked - call'.left
      BY <1>1, <2>1, <2>2, <2>3, <2>5
  <2> QED BY <1>3, <1>4, <2>5, <2>6 DEF KInv, KfTypeOK, TableInv
<1> QED BY <1>5, <1>6

LEMMA KInvHolds == Spec => []KInv
<1>1. Init => KInv
    BY KInitially
<1>2. KInv /\ [Next]_kfVars => KInv'
  <2> SUFFICES ASSUME KInv, [Next]_kfVars PROVE KInv'
      OBVIOUS
  <2>1. CASE Next
      BY <2>1, ConstructKeeps, DestroyKeeps, SeekToKeeps, BeginReadKeeps, ReadChunkKeeps
         DEF Next
  <2>2. CASE UNCHANGED kfVars
    <3>1. FsTypeOK' /\ TableInv'
        BY <2>2 DEF KInv, TableInv, FsTypeOK, FreeListExact, engaged, NoDescriptorLeaks,
                    descriptors, elements, kfVars
    <3> QED BY <2>2, <3>1 DEF KInv, KfTypeOK, kfVars
  <2> QED BY <2>1, <2>2
<1> QED BY <1>1, <1>2, PTL DEF Spec

(* Every variable of the table and of the objects keeps its type, and      *)
(* read() has always collected as much as it no longer asks for.           *)
THEOREM FilesTypeCorrect == Spec => []KfTypeOK
BY KInvHolds, PTL DEF KInv

(* The free list names exactly the empty slots, each once.                 *)
THEOREM FreeListIsExact == Spec => []FreeListExact
<1>1. KInv => FreeListExact
    BY DEF KInv, TableInv
<1> QED BY <1>1, KInvHolds, PTL

(* No descriptor of the host is open that no slot of the table holds.      *)
THEOREM DescriptorsAreHeld == Spec => []NoDescriptorLeaks
<1>1. KInv => NoDescriptorLeaks
    BY DEF KInv, TableInv
<1> QED BY <1>1, KInvHolds, PTL

-----------------------------------------------------------------------------
(* One File over an existing file in the machine's life.  Until it is      *)
(* constructed nothing has happened; then the table has one slot, which    *)
(* holds a descriptor open on the file for as long as the object lives,    *)
(* and the bytes collected are the ones just before its offset.            *)
Untouched ==
    opened = <<>> =>
        /\ outcome = "running" /\ files = <<>> /\ capacity = 0 /\ freeVFDs = <<>>
        /\ host = <<>> /\ \A f \in Object : life[f] = "unborn"
        /\ call = Idle

oneFile == Len(opened) = 1 /\ Range(opened) \subseteq DOMAIN Size

SlotServes ==
    /\ files[1] # <<>> /\ files[1][1].fd \in DOMAIN host
    /\ host[files[1][1].fd].path = opened[1]

TheOnlyOne ==
    oneFile =>
        /\ outcome = "running" /\ Len(files) = 1
        /\ \A f, g \in Object : life[f] # "unborn" /\ life[g] # "unborn" => f = g
        /\ \A f \in Object : life[f] = "alive" => fd[f] = 0 /\ SlotServes

offsetNow == host[files[1][1].fd].offset

BytesInOrder ==
    oneFile =>
        /\ \A i \in DOMAIN call.out :
              call.out[i][1] = opened[1] /\ call.out[i][2] < Size[opened[1]]
        /\ \A i \in 2..Len(call.out) : call.out[i][2] = call.out[i - 1][2] + 1
        /\ ~call.done => /\ call.left > 0 /\ \E f \in Object : call.of = {f}
                         /\ call.out # <<>> => Last(call.out)[2] + 1 = offsetNow
        /\ call.done /\ call.left > 0 /\ call.out # <<>> =>
              Last(call.out)[2] = Size[opened[1]] - 1

OneInv == Untouched /\ TheOnlyOne /\ BytesInOrder

LEMMA Serves ==
    ASSUME KInv, OneInv, oneFile, NEW f \in Object, life[f] = "alive"
    PROVE  /\ outcome = "running" /\ fd[f] = 0 /\ engaged(0) /\ ~unusable(fd[f])
           /\ file(0) = files[1][1] /\ file(0).fd \in DOMAIN host
           /\ host[file(0).fd] \in HostFile /\ host[file(0).fd].path = opened[1]
<1>1. outcome = "running" /\ Len(files) = 1 /\ fd[f] = 0 /\ SlotServes
    BY DEF OneInv, TheOnlyOne
<1>2. engaged(0) /\ file(0) = files[1][1]
    BY <1>1 DEF engaged, file, SlotServes
<1>3. ~unusable(fd[f])
    BY <1>1, <1>2 DEF unusable
<1>4. file(0).fd \in DOMAIN host /\ host[file(0).fd].path = opened[1]
    BY <1>1, <1>2 DEF SlotServes
<1>5. host[file(0).fd] \in HostFile
    BY <1>4 DEF KInv, TableInv, FsTypeOK
<1> QED BY <1>1, <1>2, <1>3, <1>4, <1>5

LEMMA OneInitially == Init => OneInv
BY DEF Init, FsInit, OneInv, Untouched, TheOnlyOne, BytesInOrder, oneFile

LEMMA OneConstruct ==
    ASSUME KInv, OneInv, NEW f \in Object, NEW p \in Path, Construct(f, p)
    PROVE  OneInv'
<1>1. opened \in Seq(Path) /\ opened' = Append(opened, p)
    BY DEF KInv, TableInv, FsTypeOK, Construct, Open
<1>2. Untouched'
  <2>1. opened' # <<>>
      BY <1>1
  <2> QED BY <2>1 DEF Untouched
<1>3. SUFFICES ASSUME oneFile' PROVE TheOnlyOne' /\ BytesInOrder'
    BY <1>2 DEF OneInv, TheOnlyOne, BytesInOrder
<1>4. opened = <<>> /\ opened' = <<p>> /\ p \in DOMAIN Size
  <2>1. Len(opened') = 1 /\ Range(opened') \subseteq DOMAIN Size
      BY <1>3 DEF oneFile
  <2>2. opened = <<>>
      BY <1>1, <2>1
  <2>3. opened' = <<p>> /\ p \in Range(opened')
      BY <1>1, <2>2 DEF Range
  <2> QED BY <2>1, <2>2, <2>3
<1>5. /\ outcome = "running" /\ files = <<>> /\ capacity = 0 /\ freeVFDs = <<>>
      /\ host = <<>> /\ (\A g \in Object : life[g] = "unborn") /\ call = Idle
    BY <1>4 DEF OneInv, Untouched
<1>6. lowest \in HostFd
    BY <1>1, <1>4, FileAssumption, DescriptorFree DEF KInv
<1>7. elements = {} /\ descriptors = {} /\ closesSucceed(hostAfterOpen(p))
  <2>1. elements = {} /\ descriptors = {}
      BY <1>5 DEF elements, descriptors
  <2> QED BY <2>1 DEF closesSucceed
<1>8. /\ outcome' = "running" /\ resp'.res = 0 /\ files' = <<<<constructed(p)>>>>
      /\ host' = Closing(hostAfterOpen(p), {})
  <2>1. OpenNew(p) \/ OpenReuse(p)
      BY DEF Construct, Open
  <2>2. OpenNew(p)
      BY <1>5, <2>1 DEF OpenReuse
  <2>3. /\ outcome' = "running" /\ resp'.res = Len(files)
        /\ files' = Append(files, <<constructed(p)>>)
        /\ host' = Closing(hostAfterOpen(p), destroyedByGrowth)
      BY <1>5, <1>7, <2>2 DEF OpenNew, respond
  <2> QED BY <1>5, <1>7, <2>3 DEF destroyedByGrowth
<1>9. SlotServes'
  <2>1. constructed(p).fd = lowest /\ files'[1] = <<constructed(p)>>
      BY <1>4, <1>8 DEF constructed
  <2>2. lowest \in DOMAIN host' /\ host'[lowest] = [path |-> p, offset |-> 0]
      BY <1>4, <1>8 DEF hostAfterOpen, Closing
  <2> QED BY <1>4, <2>1, <2>2 DEF SlotServes
<1>10. /\ life' = [life EXCEPT ![f] = "alive"] /\ fd' = [fd EXCEPT ![f] = 0]
       /\ call' = Idle
    BY <1>5, <1>8 DEF Construct, answered
<1>11. TheOnlyOne'
  <2>1. Len(files') = 1
      BY <1>8
  <2>2. /\ \A g \in Object : life'[g] # "unborn" => g = f
        /\ fd'[f] = 0
      BY <1>5, <1>10 DEF KInv, KfTypeOK
  <2>3. \A g \in Object : life'[g] = "alive" => fd'[g] = 0
      BY <2>2
  <2> QED BY <1>8, <1>9, <2>1, <2>2, <2>3 DEF TheOnlyOne
<1>12. BytesInOrder'
    BY <1>10 DEF BytesInOrder, Idle
<1> QED BY <1>11, <1>12

LEMMA OneDestroy ==
    ASSUME KInv, OneInv, NEW f \in Object, Destroy(f)
    PROVE  OneInv'
<1>1. life[f] = "alive" /\ call.done /\ call' = call /\ fd' = fd
    BY DEF Destroy, ready, idle
<1>2. opened' = opened
    BY DEF Destroy, Close
<1>3. opened # <<>>
    BY <1>1 DEF OneInv, Untouched
<1>4. Untouched'
    BY <1>2, <1>3 DEF Untouched
<1>5. SUFFICES ASSUME oneFile PROVE TheOnlyOne' /\ BytesInOrder'
    BY <1>2, <1>4 DEF OneInv, TheOnlyOne, BytesInOrder, oneFile
<1>6. /\ outcome = "running" /\ fd[f] = 0 /\ engaged(0) /\ file(0).fd \in DOMAIN host
    BY <1>1, <1>5, Serves
<1>7. outcome' = "running" /\ files' = [files EXCEPT ![1] = <<>>]
    BY <1>6 DEF Destroy, Close
<1>8. life' = [life EXCEPT ![f] = "dead"]
    BY <1>7 DEF Destroy, answered
<1>9. TheOnlyOne'
  <2>1. Len(files') = 1
      BY <1>5, <1>7 DEF OneInv, TheOnlyOne, KInv, TableInv, FsTypeOK
  <2>2. \A g \in Object : life[g] # "unborn" => g = f
      BY <1>1, <1>5 DEF OneInv, TheOnlyOne
  <2>3. \A g \in Object : life'[g] # "unborn" => g = f /\ life'[g] = "dead"
      BY <1>8, <2>2 DEF KInv, KfTypeOK
  <2> QED BY <1>7, <2>1, <2>3 DEF TheOnlyOne
<1>10. BytesInOrder'
    BY <1>1, <1>2, <1>5 DEF OneInv, BytesInOrder, oneFile
<1> QED BY <1>9, <1>10

LEMMA OneSeek ==
    ASSUME KInv, OneInv, NEW f \in Object, NEW k \in Offsets, SeekTo(f, k)
    PROVE  OneInv'
<1>1. life[f] = "alive" /\ call.done /\ UNCHANGED <<life, fd, call>>
    BY DEF SeekTo, ready, idle
<1>2. opened' = opened
    BY DEF SeekTo, Seek, unusable
<1>3. Untouched'
    BY <1>1, <1>2 DEF OneInv, Untouched
<1>4. SUFFICES ASSUME oneFile PROVE TheOnlyOne' /\ BytesInOrder'
    BY <1>2, <1>3 DEF OneInv, TheOnlyOne, BytesInOrder, oneFile
<1>5. /\ outcome = "running" /\ fd[f] = 0 /\ engaged(0) /\ ~unusable(fd[f])
      /\ file(0) = files[1][1] /\ file(0).fd \in DOMAIN host
      /\ host[file(0).fd] \in HostFile /\ host[file(0).fd].path = opened[1]
    BY <1>1, <1>4, Serves
<1>6. /\ outcome' = outcome /\ host' = [host EXCEPT ![file(0).fd].offset = k]
      /\ files' = [files EXCEPT ![1][1].err = @]
    BY <1>5 DEF SeekTo, Seek
<1>7. files' = files
  <2>1. /\ 1 \in DOMAIN files /\ files[1] = <<files[1][1]>> /\ files[1][1] \in OpenFile
        /\ files \in Seq(Slot)
      BY <1>5, SlotsHold DEF KInv, TableInv, FsTypeOK, engaged
  <2>2. files[1][1] = [files[1][1] EXCEPT !.err = @]
      BY <2>1 DEF OpenFile
  <2>3. files[1] = [files[1] EXCEPT ![1] = files[1][1]]
      BY <2>1
  <2>4. files = [files EXCEPT ![1] = files[1]]
      BY <2>1
  <2> QED BY <1>6, <2>2, <2>3, <2>4
<1>8. SlotServes'
  <2>1. files[1] # <<>> /\ file(0).fd = files[1][1].fd
      BY <1>5 DEF engaged
  <2>2. /\ DOMAIN host' = DOMAIN host
        /\ host'[file(0).fd] = [host[file(0).fd] EXCEPT !.offset = k]
      BY <1>5, <1>6
  <2>3. host'[file(0).fd].path = opened[1]
      BY <1>5, <2>2 DEF HostFile
  <2> QED BY <1>2, <1>5, <1>7, <2>1, <2>2, <2>3 DEF SlotServes
<1>9. TheOnlyOne'
    BY <1>1, <1>2, <1>4, <1>5, <1>6, <1>7, <1>8 DEF OneInv, TheOnlyOne, oneFile
<1>10. BytesInOrder'
    BY <1>1, <1>2, <1>4 DEF OneInv, BytesInOrder, oneFile
<1> QED BY <1>9, <1>10

LEMMA OneBegin ==
    ASSUME KInv, OneInv, NEW f \in Object, NEW n \in 0..MaxRead, BeginRead(f, n)
    PROVE  OneInv'
<1>1. /\ call' = [of |-> {f}, asked |-> n, left |-> n, out |-> <<>>, done |-> n = 0]
      /\ UNCHANGED fsVars /\ UNCHANGED <<life, fd, bad>> /\ life[f] = "alive"
    BY DEF BeginRead, ready
<1>2. opened # <<>> /\ opened' = opened
    BY <1>1 DEF OneInv, Untouched, fsVars
<1>3. Untouched'
    BY <1>2 DEF Untouched
<1>4. TheOnlyOne'
    BY <1>1 DEF OneInv, TheOnlyOne, oneFile, SlotServes, fsVars
<1>5. BytesInOrder'
  <2>1. /\ call'.of = {f} /\ call'.left = n /\ call'.out = <<>> /\ call'.done = (n = 0)
        /\ Len(call'.out) = 0 /\ DOMAIN call'.out = {} /\ n \in Nat
      BY <1>1, ObjectAssumption
  <2>2. \A i \in 2..Len(call'.out) : FALSE
      BY <2>1
  <2>3. ~call'.done => call'.left > 0
    <3>1. ~call'.done => n # 0
        BY <2>1, Zenon
    <3> QED BY <2>1, <3>1
  <2>4. \E g \in Object : call'.of = {g}
      BY <2>1, Zenon
  <2>5. ~(call'.out # <<>>)
      BY <2>1
  <2> QED BY <2>1, <2>2, <2>3, <2>4, <2>5, Zenon DEF BytesInOrder
<1> QED BY <1>3, <1>4, <1>5 DEF OneInv

LEMMA OneChunk ==
    ASSUME KInv, OneInv, NEW f \in Object, ReadChunk(f)
    PROVE  OneInv'
<1>1. ~call.done /\ f \in call.of /\ life[f] = "alive" /\ UNCHANGED <<life, fd, bad>>
    BY DEF ReadChunk, idle, KInv, KfTypeOK
<1>2. opened' = opened /\ opened # <<>>
    BY <1>1 DEF OneInv, Untouched, ReadChunk, Read, unusable
<1>3. Untouched'
    BY <1>2 DEF Untouched
<1>4. SUFFICES ASSUME oneFile PROVE TheOnlyOne' /\ BytesInOrder'
    BY <1>2, <1>3 DEF OneInv, TheOnlyOne, BytesInOrder, oneFile
<1> DEFINE d == files[1][1].fd
           b == bytesOf(resp')
<1>5. /\ outcome = "running" /\ fd[f] = 0 /\ engaged(0) /\ ~unusable(fd[f])
      /\ file(0).fd = d /\ d \in DOMAIN host
      /\ host[d] \in HostFile /\ host[d].path = opened[1]
    BY <1>1, <1>4, Serves
<1>6. PICK k \in 0..chunk :
          /\ k <= bytesLeft(host[d]) /\ (k = 0 => bytesLeft(host[d]) = 0 \/ chunk = 0)
          /\ host' = [host EXCEPT ![d].offset = @ + k]
          /\ resp' = [res |-> k, err |-> 0,
                      got |-> [path |-> host[d].path, from |-> host[d].offset]]
          /\ UNCHANGED <<files, opened, outcome>>
    BY <1>5 DEF ReadChunk, Read
<1>7. SlotServes'
    BY <1>2, <1>5, <1>6 DEF SlotServes, HostFile, engaged, file
<1>8. TheOnlyOne'
    BY <1>1, <1>2, <1>4, <1>5, <1>6, <1>7 DEF OneInv, TheOnlyOne, oneFile
<1> DEFINE old == call.out
           new == call'.out
           m   == Len(old)
           off == host[d].offset
           end == Size[opened[1]]
<1>9. /\ old \in Seq((DOMAIN Size) \X Nat) /\ m \in Nat /\ off \in Nat /\ end \in Nat
      /\ chunk \in Nat /\ chunk <= call.left /\ call.left \in Nat /\ call.left > 0
      /\ chunk > 0 /\ k \in Nat
  <2>1. call.left \in 0..MaxRead /\ old \in Seq((DOMAIN Size) \X Nat)
      BY DEF KInv, KfTypeOK
  <2>2. call.left > 0
      BY <1>1, <1>4 DEF OneInv, BytesInOrder
  <2>3. off \in Nat /\ end \in Nat
      BY <1>5, FileAssumption DEF HostFile
  <2>4. call.left \in Nat /\ Chunk \in Nat \ {0}
      BY <2>1, ObjectAssumption
  <2>5. chunk \in Nat /\ chunk <= call.left /\ chunk > 0
      BY <2>2, <2>4 DEF chunk
  <2>6. m \in Nat
      BY <2>1
  <2> QED BY <1>6, <2>1, <2>2, <2>3, <2>4, <2>5, <2>6
<1>10. /\ b \in Seq((DOMAIN Size) \X Nat) /\ Len(b) = k
       /\ \A i \in 1..k : b[i] = <<opened[1], off + i - 1>>
       /\ call' = [call EXCEPT !.left = @ - k, !.out = @ \o b, !.done = ends(resp')]
       /\ host'[d].offset = off + k
  <2>1. /\ resp'.res = k /\ resp'.got.path = opened[1] /\ resp'.got.from = off
        /\ outcome' = "running" /\ host'[d].offset = off + k
      BY <1>5, <1>6 DEF HostFile
  <2> QED BY <2>1, ChunkBytes
<1>11. /\ call'.of = call.of /\ call'.left = call.left - k /\ new = old \o b
       /\ call'.done <=> (call.left = k \/ k = 0)
  <2>1. call' = [call EXCEPT !.left = @ - k, !.out = @ \o b, !.done = ends(resp')]
      BY <1>10
  <2>2. ends(resp') <=> (call.left = k \/ k = 0)
      BY <1>6 DEF ends
  <2> HIDE DEF b
  <2> QED BY <2>1, <2>2 DEF KInv, KfTypeOK
<1> HIDE DEF b
<1>12. /\ Len(new) = m + k /\ DOMAIN new = 1..(m + k)
       /\ \A i \in 1..m : new[i] = old[i]
       /\ \A i \in 1..k : new[m + i] = <<opened[1], off + i - 1>>
  <2> HIDE DEF old, new
  <2>1. old \in Seq((DOMAIN Size) \X Nat) /\ b \in Seq((DOMAIN Size) \X Nat) /\ Len(b) = k
      BY <1>9, <1>10
  <2> HIDE DEF m, b
  <2> DEFINE S == (DOMAIN Size) \X Nat
  <2>2. old \in Seq(S) /\ b \in Seq(S)
      BY <2>1
  <2> HIDE DEF S
  <2>3. /\ old \o b \in Seq(S) /\ Len(old \o b) = Len(old) + Len(b)
        /\ \A i \in 1..Len(old) : (old \o b)[i] = old[i]
        /\ \A i \in 1..Len(b) : (old \o b)[Len(old) + i] = b[i]
      BY <2>2, Joined
  <2>4. DOMAIN (old \o b) = 1..Len(old \o b)
      BY <2>3
  <2> QED BY <1>10, <1>11, <2>1, <2>3, <2>4 DEF m
<1>13. /\ \A i \in 1..m : old[i][1] = opened[1] /\ old[i][2] < end
       /\ \A i \in 2..m : old[i][2] = old[i - 1][2] + 1
       /\ call.of = {f} /\ (m > 0 => old[m][2] + 1 = off)
  <2>1. DOMAIN old = 1..m /\ (m > 0 => old # <<>> /\ Last(old) = old[m])
      BY <1>9 DEF Last
  <2> QED BY <1>1, <1>4, <2>1 DEF OneInv, BytesInOrder, offsetNow
<1>14. \A i \in 1..k : off + i - 1 < end
    BY <1>5, <1>6, <1>9 DEF bytesLeft
<1>15. \A i \in 1..(m + k) :
           i \in 1..m \/ \E j \in 1..k : i = m + j
  <2> TAKE i \in 1..(m + k)
  <2>1. i \notin 1..m => i - m \in 1..k /\ i = m + (i - m)
      BY <1>9
  <2> QED BY <2>1
<1> HIDE DEF old, new, m, off, end
<1>16. \A i \in DOMAIN new : new[i][1] = opened[1] /\ new[i][2] < end
    BY <1>12, <1>13, <1>14, <1>15
<1>17. \A i \in 2..Len(new) : new[i][2] = new[i - 1][2] + 1
  <2> TAKE i \in 2..Len(new)
  <2>1. CASE i \in 1..m
    <3>1. i - 1 \in 1..m /\ i \in 2..m
        BY <1>9, <2>1
    <3> QED BY <1>12, <1>13, <2>1, <3>1
  <2>2. CASE i = m + 1
    <3>1. m \in 1..m /\ i - 1 = m /\ m > 0 /\ 1 \in 1..k
        BY <1>9, <1>12, <2>2
    <3> QED BY <1>9, <1>12, <1>13, <2>2, <3>1
  <2>3. CASE i \notin 1..m /\ i # m + 1
    <3>1. PICK j \in 1..k : i = m + j
        BY <1>9, <1>12, <1>15, <2>3
    <3>2. j - 1 \in 1..k /\ i - 1 = m + (j - 1)
        BY <1>9, <2>3, <3>1
    <3>3. new[i] = <<opened[1], off + j - 1>>
        BY <1>12, <3>1
    <3>4. new[i - 1] = <<opened[1], off + (j - 1) - 1>>
        BY <1>12, <3>2
    <3> QED BY <1>9, <3>1, <3>3, <3>4
  <2> QED BY <2>1, <2>2, <2>3
<1>18. new # <<>> => Len(new) > 0 /\ Last(new) = new[Len(new)]
    BY <1>9, <1>10, <1>11, Joined DEF Last
<1>19. ~call'.done => /\ call'.left > 0 /\ call'.of = {f}
                      /\ new # <<>> => Last(new)[2] + 1 = off + k
  <2> HAVE ~call'.done
  <2>1. k \in 1..k /\ call'.left > 0
      BY <1>6, <1>9, <1>11
  <2>2. new[m + k][2] = off + k - 1
      BY <1>12, <2>1
  <2>3. call'.of = {f}
      BY <1>11, <1>13
  <2>4. ASSUME new # <<>> PROVE Last(new)[2] + 1 = off + k
    <3>1. Last(new) = new[m + k]
        BY <1>12, <1>18, <2>4
    <3> QED BY <1>9, <2>2, <3>1
  <2> QED BY <2>1, <2>3, <2>4
<1>20. call'.done /\ call'.left > 0 /\ new # <<>> => Last(new)[2] = end - 1
  <2> HAVE call'.done /\ call'.left > 0 /\ new # <<>>
  <2>1. k = 0
      BY <1>9, <1>11
  <2>2. off >= end
      BY <1>5, <1>6, <1>9, <2>1 DEF bytesLeft, off, end
  <2>3. m > 0 /\ Last(new) = old[m] /\ m \in 1..m
      BY <1>9, <1>12, <1>18, <2>1
  <2>4. old[m][2] + 1 = off /\ old[m][2] < end
      BY <1>13, <2>3
  <2>5. old[m][2] \in Nat
      BY <1>9, <2>3 DEF m
  <2> QED BY <1>9, <2>2, <2>3, <2>4, <2>5
<1>21. offsetNow' = off + k
    BY <1>6, <1>10 DEF offsetNow
<1>22. BytesInOrder'
  <2>1. /\ \A i \in DOMAIN call'.out :
              call'.out[i][1] = opened'[1] /\ call'.out[i][2] < Size[opened'[1]]
        /\ \A i \in 2..Len(call'.out) : call'.out[i][2] = call'.out[i - 1][2] + 1
      BY <1>2, <1>16, <1>17 DEF new, end
  <2>2. ~call'.done => /\ call'.left > 0 /\ \E g \in Object : call'.of = {g}
                       /\ call'.out # <<>> => Last(call'.out)[2] + 1 = offsetNow'
    <3>1. \E g \in Object : {f} = {g}
        OBVIOUS
    <3>2. ~call'.done => call'.of = {f} /\ call'.left > 0
        BY <1>19, Zenon
    <3>3. ~call'.done => (call'.out # <<>> => Last(call'.out)[2] + 1 = offsetNow')
        BY <1>19, <1>21, Zenon DEF new
    <3> QED BY <3>1, <3>2, <3>3, Zenon
  <2>3. call'.done /\ call'.left > 0 /\ call'.out # <<>> =>
            Last(call'.out)[2] = Size[opened'[1]] - 1
      BY <1>2, <1>20 DEF new, end
  <2> QED BY <2>1, <2>2, <2>3, Zenon DEF BytesInOrder
<1> QED BY <1>8, <1>22

LEMMA OneInvHolds == Spec => []OneInv
<1>1. Init => OneInv
    BY OneInitially
<1>2. KInv /\ OneInv /\ [Next]_kfVars => OneInv'
  <2> SUFFICES ASSUME KInv, OneInv, [Next]_kfVars PROVE OneInv'
      OBVIOUS
  <2>1. CASE Next
      BY <2>1, OneConstruct, OneDestroy, OneSeek, OneBegin, OneChunk DEF Next
  <2>2. CASE UNCHANGED kfVars
      BY <2>2 DEF OneInv, Untouched, TheOnlyOne, BytesInOrder, oneFile, SlotServes,
                  offsetNow, kfVars
  <2> QED BY <2>1, <2>2
<1> QED BY <1>1, <1>2, KInvHolds, PTL DEF Spec

(* As long as the machine constructs one File over an existing file, as    *)
(* the shipped kernel does, no request stops it.                           *)
THEOREM OneFileIsSafe == Spec => []OneFileNeverDies
<1>1. OneInv => OneFileNeverDies
    BY DEF OneInv, TheOnlyOne, OneFileNeverDies, oneFile
<1> QED BY <1>1, OneInvHolds, PTL

(* ... and read() brings the consecutive bytes of that file up to its end  *)
(* or to what was asked for.                                               *)
THEOREM OneFileReadsInOrder == Spec => []OneFileReadsWhole
<1>1. OneInv => OneFileReadsWhole
    BY DEF OneInv, BytesInOrder, OneFileReadsWhole, oneFile
<1> QED BY <1>1, OneInvHolds, PTL
===============================================================================
