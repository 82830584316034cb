-------------------------- MODULE TableCacheProofs --------------------------
(***************************************************************************)
(* Proofs about TableCache for any threads, files, blocks and capacities.  *)
(***************************************************************************)
EXTENDS TableCache, FiniteSetTheorems, SequenceTheorems, WellFoundedInduction, TLAPS

-----------------------------------------------------------------------------
(* The inductive invariant                                                 *)

Shards == 0 .. kNumShards - 1

(* A cache of handles from H: the shards share no handle and none occurs   *)
(* twice in a map.                                                         *)
IsCache(c, H) ==
  /\ c = [order |-> c.order, key |-> c.key, value |-> c.value, held |-> c.held, none |-> c.none]
  /\ c.order \in [Shards -> Seq(H)]
  /\ c.key = [h \in H |-> c.key[h]] /\ c.value = [h \in H |-> c.value[h]]
  /\ c.held \in [H -> Nat]
  /\ \A i \in Shards : \A m, n \in DOMAIN c.order[i] : c.order[i][m] = c.order[i][n] => m = n
  /\ \A i \in Shards : \A n \in DOMAIN c.order[i] : Shard(c.key[c.order[i][n]]) = i

Within(c, capacity) == \A i \in Shards : Len(c.order[i]) <= PerShard(capacity)

(* What a thread is about.                                                 *)
Opens(t) == thread[t].pc \in {"open", "opening", "opened", "insert"}
Draws(t) == thread[t].pc \in {"open", "opening", "opened"}
Reads(t) == thread[t].pc \in {"fill", "use"}
Holders(s) == {t \in Thread : Holds(t) /\ thread[t].slot = s}
Readers(h) == {t \in Thread : thread[t].block.handle = h}
Drawing == {t \in Thread : Draws(t)}

PC == {"idle", "open", "opening", "opened", "insert", "found", "read", "fill", "use", "release",
       "deleting"}
Block == [number : FileNumber \cup {0}, offset : Offset \cup {0},
          at : Slot \cup {"heap", "none"}, handle : BlockHandle \cup {"none"}]
ThreadState ==
  [pc : PC, fn : {"none", "Get", "NewIterator"}, number : FileNumber \cup {0}, names : 0 .. 2,
   slot : Slot \cup {NoSlot}, offset : Offset \cup {0}, block : Block,
   doomed : SUBSET Slot, locked : SUBSET Shards, then : {"idle", "found"}]

ATable(s) == tables[s] \in [number : FileNumber, cache_id : 1 .. last_id_]

Types ==
  /\ thread \in [Thread -> ThreadState]
  /\ tables \in [Slot -> [number : Nat, cache_id : Nat]]
  /\ \A s \in Slot : tables[s] = NoTable \/ ATable(s)
  /\ IsCache(cache_, Slot) /\ IsCache(block_cache, BlockHandle)
  /\ last_id_ \in Nat

Threads_ ==
  \A t \in Thread :
    LET th == thread[t]
    IN  /\ th.pc = "deleting" <=> th.doomed # {}
        /\ th.pc # "deleting" => th.then = "idle"
        /\ IF Opens(t) \/ Holds(t) THEN th.slot \in Slot /\ th.number \in FileNumber
                                   ELSE th.slot = NoSlot

(* A slot that is being opened is the call's own.                          *)
OpeningStage(t) ==
  LET s == thread[t].slot
  IN  CASE thread[t].pc = "open" -> stage[s] = "none" /\ tables[s] = NoTable
        [] thread[t].pc = "opening" ->
             /\ stage[s] \notin {"none", "unmapped", "closed"} \cup FileStage
             /\ tables[s] = NoTable
        [] thread[t].pc = "opened" -> stage[s] \in FileStage /\ tables[s] = NoTable
        [] thread[t].pc = "insert" ->
             stage[s] \in FileStage /\ ATable(s) /\ tables[s].number = thread[t].number

OwnsSlot(t) ==
  /\ OpeningStage(t)
  /\ thread[t].slot \notin Alive(cache_)
  /\ \A u \in Thread : /\ thread[t].slot \notin thread[u].doomed
                       /\ thread[u].slot = thread[t].slot => u = t

OpeningOwns == \A t \in Thread : Opens(t) => OwnsSlot(t)

(* A slot in the table cache is a table in an open file, under its number. *)
CacheOwns ==
  \A s \in Alive(cache_) :
    /\ stage[s] \in FileStage
    /\ ATable(s)
    /\ cache_.key[s] = TableKey(tables[s].number)

(* A slot whose deleter runs is in one call's hands.                       *)
OwnsDoomed(t, s) ==
  /\ s \notin Alive(cache_)
  /\ stage[s] \in FileStage \cup {"unmapped", "closed"}
  /\ tables[s] # NoTable => stage[s] \in FileStage
  /\ \A u \in Thread : s \in thread[u].doomed => u = t

DeleterOwns == \A t \in Thread : \A s \in thread[t].doomed : OwnsDoomed(t, s)

Owned(s) ==
  \/ \E t \in Thread : Opens(t) /\ thread[t].slot = s
  \/ \E t \in Thread : s \in thread[t].doomed
  \/ s \in Alive(cache_)

NothingLeft == \A s \in Slot : stage[s] # "none" \/ tables[s] # NoTable => Owned(s)

HeldCounted == \A s \in Slot : cache_.held[s] = Cardinality(Holders(s))
BlocksCounted == \A h \in BlockHandle : block_cache.held[h] = Cardinality(Readers(h))
IdsCounted == last_id_ + Cardinality(Drawing) <= MaxId

HoldersTable ==
  \A t \in Thread : Holds(t) => tables[thread[t].slot].number = thread[t].number

UniqueIds ==
  \A r, s \in Slot : tables[r] # NoTable /\ tables[s].cache_id = tables[r].cache_id => r = s

(* A block in the cache belongs to the table that drew the id of its key.  *)
CachedBlock(h) ==
  LET key == block_cache.key[h]
      block == block_cache.value[h]
  IN  /\ key = <<key[1], key[2]>> /\ key[1] \in 1 .. last_id_ /\ key[2] \in Offset
      /\ block \in Block /\ block.offset = key[2] /\ block.at = "heap" /\ block.handle = h
      /\ block.number \in FileNumber
      /\ \A s \in Slot : tables[s].cache_id = key[1] => tables[s].number = block.number

CachedBlocks == \A h \in Alive(block_cache) : CachedBlock(h)

ThreadBlock(t) ==
  LET th == thread[t]
      block == thread[t].block
  IN  /\ th.pc = "read" \/ Reads(t) => th.offset \in Offset
      /\ ~Reads(t) => block = NoBlock
      /\ th.pc = "fill" => block.handle = "none"
      /\ Reads(t) => /\ block.number = th.number /\ block.offset = th.offset
                     /\ \/ block.at = "heap"
                        \/ block.at = th.slot /\ stage[th.slot] = "mapped"
                     /\ block.handle # "none" => block_cache.value[block.handle] = block

ThreadBlocks == \A t \in Thread : ThreadBlock(t)

Permits ==
  /\ PermitsExact
  /\ Cardinality(HasMmapPermit) <= MaxMmaps
  /\ Cardinality(HasFdPermit) <= MaxOpenFiles

TablesInv ==
  /\ Threads_ /\ OpeningOwns /\ CacheOwns /\ DeleterOwns /\ NothingLeft
  /\ HeldCounted /\ IdsCounted /\ HoldersTable /\ UniqueIds
  /\ Within(cache_, entries)

BlocksInv == BlocksCounted /\ CachedBlocks /\ ThreadBlocks

Inv == Permits /\ Types /\ TablesInv /\ BlocksInv

-----------------------------------------------------------------------------
(* The Limiters                                                            *)

MmapStages == {"granted", "mapClose", "mapped", "mapFailed", "giveBack", "unmapped"}
FdStages == {"permanent", "closed"}

LEMMA InFinite ==
  ASSUME NEW X
  PROVE  IsFiniteSet(In(X)) /\ Cardinality(In(X)) \in Nat
<1>1. In(X) \in SUBSET Slot
  BY DEF In
<1> QED BY <1>1, LimitAssumption, FS_Subset, FS_CardinalityType

(* A slot that moves enters or leaves a set of stages, or does neither.    *)
LEMMA MoveCounts ==
  ASSUME stage \in [Slot -> Stage], NEW s \in Slot, NEW from, NEW to, Move(s, from, to),
         NEW X
  PROVE  /\ (from \in X <=> to \in X) => Cardinality(In(X))' = Cardinality(In(X))
         /\ from \in X /\ to \notin X => Cardinality(In(X))' = Cardinality(In(X)) - 1
         /\ from \notin X /\ to \in X => Cardinality(In(X))' = Cardinality(In(X)) + 1
<1>1. stage[s] = from /\ stage'[s] = to /\ \A r \in Slot : r # s => stage'[r] = stage[r]
  BY DEF Move
<1>2. CASE from \in X <=> to \in X
  <2>1. In(X)' = In(X)
    BY <1>1, <1>2 DEF In
  <2> QED BY <1>2, <2>1
<1>3. CASE from \in X /\ to \notin X
  <2>1. In(X)' = In(X) \ {s} /\ s \in In(X)
    BY <1>1, <1>3 DEF In
  <2>2. Cardinality(In(X) \ {s}) = Cardinality(In(X)) - 1
    BY <2>1, InFinite, FS_RemoveElement
  <2> QED BY <1>3, <2>1, <2>2
<1>4. CASE from \notin X /\ to \in X
  <2>1. In(X)' = In(X) \cup {s} /\ s \notin In(X)
    BY <1>1, <1>4 DEF In
  <2>2. Cardinality(In(X) \cup {s}) = Cardinality(In(X)) + 1
    BY <2>1, InFinite, FS_AddElement
  <2> QED BY <1>4, <2>1, <2>2
<1> QED BY <1>2, <1>3, <1>4

(* PermitsExact in terms of four counts.                                   *)
LEMMA PermitsAre ==
  Permits <=>
    /\ FilesTypeOK
    /\ mmap_limiter_ = MaxMmaps - Cardinality(In(MmapStages)) - Cardinality(In({"noMmap"}))
    /\ fd_limiter_ = MaxOpenFiles - Cardinality(In(FdStages)) - Cardinality(In({"noFd"}))
    /\ Cardinality(In(MmapStages)) <= MaxMmaps
    /\ Cardinality(In(FdStages)) <= MaxOpenFiles
<1>1. HasMmapPermit = In(MmapStages) /\ HasFdPermit = In(FdStages)
  BY DEF HasMmapPermit, HasFdPermit, MmapStages, FdStages
<1>2. Mapped \subseteq In(MmapStages) /\ KeptOpen \subseteq In(FdStages)
  BY DEF Mapped, KeptOpen, In, MmapStages, FdStages
<1>3. /\ Cardinality(Mapped) <= Cardinality(In(MmapStages)) /\ Cardinality(Mapped) \in Nat
      /\ Cardinality(KeptOpen) <= Cardinality(In(FdStages)) /\ Cardinality(KeptOpen) \in Nat
  BY <1>2, InFinite, FS_Subset DEF Mapped, KeptOpen
<1>4. Cardinality(In(MmapStages)) \in Nat /\ Cardinality(In(FdStages)) \in Nat
  BY InFinite
<1> QED BY <1>1, <1>3, <1>4, LimitAssumption DEF Permits, PermitsExact

FileStep(s) == Open(s) \/ FinishOpening(s) \/ DeleteFile(s)

LEMMA FileStepPermits ==
  ASSUME Permits, NEW s \in Slot, FileStep(s)
  PROVE  Permits'
<1> DEFINE M == Cardinality(In(MmapStages))
           N == Cardinality(In({"noMmap"}))
           F == Cardinality(In(FdStages))
           G == Cardinality(In({"noFd"}))
<1>1. /\ FilesTypeOK
      /\ mmap_limiter_ = MaxMmaps - M - N /\ fd_limiter_ = MaxOpenFiles - F - G
      /\ M <= MaxMmaps /\ F <= MaxOpenFiles
      /\ M \in Nat /\ N \in Nat /\ F \in Nat /\ G \in Nat
  BY PermitsAre, InFinite
<1>2. SUFFICES /\ stage' \in [Slot -> Stage]
               /\ mmap_limiter_' = MaxMmaps - M' - N' /\ fd_limiter_' = MaxOpenFiles - F' - G'
               /\ M' <= MaxMmaps /\ F' <= MaxOpenFiles
               /\ M' \in Nat /\ N' \in Nat /\ F' \in Nat /\ G' \in Nat
  <2>1. Permits' <=>
          (/\ FilesTypeOK
           /\ mmap_limiter_ = MaxMmaps - M - N /\ fd_limiter_ = MaxOpenFiles - F - G
           /\ M <= MaxMmaps /\ F <= MaxOpenFiles)'
    BY PermitsAre, PTL
  <2> HIDE DEF M, N, F, G
  <2>2. \A max, m, n \in Nat : max - m - n \in Int /\ max - m - n <= max
    OBVIOUS
  <2>3. mmap_limiter_' \in Int /\ mmap_limiter_' <= MaxMmaps
    BY <2>2, LimitAssumption
  <2>4. fd_limiter_' \in Int /\ fd_limiter_' <= MaxOpenFiles
    BY <2>2, LimitAssumption
  <2> QED BY <2>1, <2>3, <2>4 DEF FilesTypeOK
<1>3. \A from, to : Move(s, from, to) =>
        /\ stage[s] = from
        /\ to \in Stage => stage' \in [Slot -> Stage]
        /\ M' = M + (IF to \in MmapStages THEN 1 ELSE 0) - (IF from \in MmapStages THEN 1 ELSE 0)
        /\ N' = N + (IF to = "noMmap" THEN 1 ELSE 0) - (IF from = "noMmap" THEN 1 ELSE 0)
        /\ F' = F + (IF to \in FdStages THEN 1 ELSE 0) - (IF from \in FdStages THEN 1 ELSE 0)
        /\ G' = G + (IF to = "noFd" THEN 1 ELSE 0) - (IF from = "noFd" THEN 1 ELSE 0)
        /\ M' \in Nat /\ N' \in Nat /\ F' \in Nat /\ G' \in Nat
  <2> SUFFICES ASSUME NEW from, NEW to, Move(s, from, to)
               PROVE  /\ stage[s] = from
                      /\ to \in Stage => stage' \in [Slot -> Stage]
                      /\ M' = M + (IF to \in MmapStages THEN 1 ELSE 0)
                                - (IF from \in MmapStages THEN 1 ELSE 0)
                      /\ N' = N + (IF to = "noMmap" THEN 1 ELSE 0)
                                - (IF from = "noMmap" THEN 1 ELSE 0)
                      /\ F' = F + (IF to \in FdStages THEN 1 ELSE 0)
                                - (IF from \in FdStages THEN 1 ELSE 0)
                      /\ G' = G + (IF to = "noFd" THEN 1 ELSE 0)
                                - (IF from = "noFd" THEN 1 ELSE 0)
                      /\ M' \in Nat /\ N' \in Nat /\ F' \in Nat /\ G' \in Nat
    OBVIOUS
  <2>1. stage \in [Slot -> Stage]
    BY <1>1 DEF FilesTypeOK
  <2>2. stage[s] = from /\ (to \in Stage => stage' \in [Slot -> Stage])
    BY <2>1 DEF Move
  <2>3. M' = M + (IF to \in MmapStages THEN 1 ELSE 0) - (IF from \in MmapStages THEN 1 ELSE 0)
    BY <1>1, <2>1, MoveCounts
  <2>4. N' = N + (IF to \in {"noMmap"} THEN 1 ELSE 0) - (IF from \in {"noMmap"} THEN 1 ELSE 0)
    BY <1>1, <2>1, MoveCounts
  <2>5. F' = F + (IF to \in FdStages THEN 1 ELSE 0) - (IF from \in FdStages THEN 1 ELSE 0)
    BY <1>1, <2>1, MoveCounts
  <2>6. G' = G + (IF to \in {"noFd"} THEN 1 ELSE 0) - (IF from \in {"noFd"} THEN 1 ELSE 0)
    BY <1>1, <2>1, MoveCounts
  <2>7. M' \in Nat /\ N' \in Nat /\ F' \in Nat /\ G' \in Nat
    <3>1. \A X : In(X)' \in SUBSET Slot
      BY DEF In
    <3> QED BY <3>1, LimitAssumption, FS_Subset, FS_CardinalityType
  <2> HIDE DEF M, N, F, G
  <2> QED BY <2>2, <2>3, <2>4, <2>5, <2>6, <2>7
<1> HIDE DEF M, N, F, G
<1> USE LimitAssumption
<1>4. CASE FinishOpening(s)
  <2>1. CASE AcquireMmap(s)
    BY <1>1, <1>3, <2>1 DEF AcquireMmap, Acquired, Acquire, Stage, MmapStages, FdStages, FilesTypeOK
  <2>2. CASE ReturnMmap(s)
    BY <1>1, <1>3, <2>2 DEF ReturnMmap, Release, Stage, MmapStages, FdStages, FilesTypeOK
  <2>3. CASE AcquireFd(s)
    <3>1. CASE fd_limiter_ > 0
      <4>1. Move(s, "fallback", "permanent") /\ fd_limiter_' = fd_limiter_ - 1
            /\ mmap_limiter_' = mmap_limiter_
        BY <2>3, <3>1 DEF AcquireFd, Acquired, Acquire
      <4> QED BY <1>1, <1>3, <3>1, <4>1 DEF Stage, FileStage, MmapStages, FdStages
    <3>2. CASE ~(fd_limiter_ > 0)
      <4>1. Move(s, "fallback", "noFd") /\ fd_limiter_' = fd_limiter_ - 1
            /\ mmap_limiter_' = mmap_limiter_
        BY <2>3, <3>2 DEF AcquireFd, Acquired, Acquire
      <4> QED BY <1>1, <1>3, <4>1 DEF Stage, FileStage, MmapStages, FdStages
    <3> QED BY <3>1, <3>2
  <2>4. CASE ReturnFd(s)
    BY <1>1, <1>3, <2>4 DEF ReturnFd, Release, Stage, MmapStages, FdStages, FilesTypeOK
  <2>5. CASE CloseSurplus(s)
    BY <1>1, <1>3, <2>5 DEF CloseSurplus, Stage, FileStage, MmapStages, FdStages
  <2>6. CASE Map(s)
    BY <1>1, <1>3, <2>6 DEF Map, Stage, MmapStages, FdStages
  <2>7. CASE CloseMapped(s)
    BY <1>1, <1>3, <2>7 DEF CloseMapped, Stage, FileStage, MmapStages, FdStages
  <2>8. CASE ReleaseFailed(s)
    BY <1>1, <1>3, <2>8 DEF ReleaseFailed, Release, Stage, MmapStages, FdStages, FilesTypeOK
  <2> QED BY <1>4, <2>1, <2>2, <2>3, <2>4, <2>5, <2>6, <2>7, <2>8 DEF FinishOpening
<1>5. CASE DeleteFile(s)
  <2>1. CASE Unmap(s)
    BY <1>1, <1>3, <2>1 DEF Unmap, Stage, MmapStages, FdStages
  <2>2. CASE ReleaseMmap(s)
    BY <1>1, <1>3, <2>2 DEF ReleaseMmap, Release, Stage, MmapStages, FdStages, FilesTypeOK
  <2>3. CASE Close(s)
    <3>1. Move(s, "permanent", "closed") /\ UNCHANGED <<mmap_limiter_, fd_limiter_>>
      BY <2>3 DEF Close
    <3>2. M' = M + 0 - 0 /\ N' = N + 0 - 0 /\ F' = F + 1 - 1 /\ G' = G + 0 - 0
          /\ stage' \in [Slot -> Stage]
      BY <1>3, <3>1 DEF Stage, MmapStages, FdStages
    <3> QED BY <1>1, <3>1, <3>2
  <2>4. CASE ReleaseFd(s)
    BY <1>1, <1>3, <2>4 DEF ReleaseFd, Release, Stage, MmapStages, FdStages, FilesTypeOK
  <2>5. CASE Delete(s)
    BY <1>1, <1>3, <2>5 DEF Delete, Stage, MmapStages, FdStages
  <2> QED BY <1>5, <2>1, <2>2, <2>3, <2>4, <2>5 DEF DeleteFile
<1>6. CASE Open(s)
  BY <1>1, <1>3, <1>6 DEF Open, Stage, MmapStages, FdStages
<1> QED BY <1>4, <1>5, <1>6 DEF FileStep

-----------------------------------------------------------------------------
(* The order of a shard                                                    *)

LEMMA MinIs ==
  ASSUME NEW S \in SUBSET Nat, S # {}
  PROVE  Min(S) \in S /\ \A j \in S : Min(S) <= j
<1> DEFINE Lt == {ss \in Nat \X Nat : ss[1] < ss[2]}
<1>1. IsWellFoundedOn(Lt, Nat)
  BY NatLessThanWellFounded, Zenon DEF OpToRel
<1>2. \A j, k \in Nat : <<j, k>> \in Lt <=> j < k
  OBVIOUS
<1> HIDE DEF Lt
<1>3. PICK k \in S : \A j \in S : ~(<<j, k>> \in Lt)
  BY <1>1, WFMin
<1>4. \A j \in S : j \in Nat /\ k \in Nat /\ ~(j < k)
  BY <1>2, <1>3
<1>5. \A j \in S : k <= j
  BY <1>4
<1> QED BY <1>5 DEF Min

Distinct(q) == \A m, n \in 1 .. Len(q) : q[m] = q[n] => m = n

LEMMA RemoveAtIs ==
  ASSUME NEW H, NEW q \in Seq(H), NEW m \in 1 .. Len(q)
  PROVE  /\ RemoveAt(q, m) \in Seq(H)
         /\ Len(RemoveAt(q, m)) = Len(q) - 1
         /\ \A k \in 1 .. Len(q) - 1 : RemoveAt(q, m)[k] = IF k < m THEN q[k] ELSE q[k + 1]
<1>1. Len(q) \in Nat /\ m \in Nat /\ \A k \in 1 .. Len(q) : q[k] \in H
  BY ElementOfSeq, LenProperties
<1> DEFINE a == SubSeq(q, 1, m - 1)
           b == SubSeq(q, m + 1, Len(q))
<1>2. a \in Seq(H) /\ Len(a) = m - 1 /\ \A k \in 1 .. m - 1 : a[k] = q[k]
  <2>1. m - 1 \in Int /\ 1 \in Int /\ \A k \in 1 .. m - 1 : q[k] \in H
    BY <1>1
  <2>2. /\ a \in Seq(H) /\ Len(a) = IF 1 <= m - 1 THEN m - 1 - 1 + 1 ELSE 0
        /\ \A k \in 1 .. m - 1 - 1 + 1 : a[k] = q[1 + k - 1]
    BY <2>1, SubSeqProperties
  <2> HIDE DEF a
  <2> QED BY <1>1, <2>2
<1>3. b \in Seq(H) /\ Len(b) = Len(q) - m /\ \A k \in 1 .. Len(q) - m : b[k] = q[m + k]
  <2>1. m + 1 \in Int /\ Len(q) \in Int /\ \A k \in m + 1 .. Len(q) : q[k] \in H
    BY <1>1
  <2>2. /\ b \in Seq(H) /\ Len(b) = IF m + 1 <= Len(q) THEN Len(q) - (m + 1) + 1 ELSE 0
        /\ \A k \in 1 .. Len(q) - (m + 1) + 1 : b[k] = q[m + 1 + k - 1]
    BY <2>1, SubSeqProperties
  <2> HIDE DEF b
  <2> QED BY <1>1, <2>2
<1>4. RemoveAt(q, m) = a \o b
  BY DEF RemoveAt
<1> HIDE DEF a, b
<1>5. /\ a \o b \in Seq(H) /\ Len(a \o b) = Len(a) + Len(b)
      /\ \A k \in 1 .. Len(a) + Len(b) : (a \o b)[k] = IF k <= Len(a) THEN a[k] ELSE b[k - Len(a)]
  BY <1>2, <1>3, ConcatProperties
<1>6. Len(a \o b) = Len(q) - 1
  BY <1>1, <1>2, <1>3, <1>5
<1>7. ASSUME NEW k \in 1 .. Len(q) - 1 PROVE (a \o b)[k] = IF k < m THEN q[k] ELSE q[k + 1]
  <2>1. CASE k < m
    BY <1>1, <1>2, <1>3, <1>5, <2>1
  <2>2. CASE ~(k < m)
    <3>1. (a \o b)[k] = b[k - (m - 1)] /\ k - (m - 1) \in 1 .. Len(q) - m
      BY <1>1, <1>2, <1>3, <1>5, <2>2
    <3> QED BY <1>1, <1>3, <2>2, <3>1
  <2> QED BY <2>1, <2>2
<1> QED BY <1>4, <1>5, <1>6, <1>7

Has(q, x) == \E n \in 1 .. Len(q) : q[n] = x

LEMMA WithoutIs ==
  ASSUME NEW H, NEW q \in Seq(H), Distinct(q), NEW hs
  PROVE  /\ Without(q, hs) \in Seq(H) /\ Distinct(Without(q, hs))
         /\ \A x : Has(Without(q, hs), x) => Has(q, x)
         /\ (\A n \in 1 .. Len(q) : q[n] \notin hs) => Without(q, hs) = q
         /\ (\E n \in 1 .. Len(q) : q[n] \in hs) =>
              /\ Len(Without(q, hs)) = Len(q) - 1
              /\ \E m \in 1 .. Len(q) :
                   /\ q[m] \in hs
                   /\ \A x : Has(Without(q, hs), x) <=> Has(q, x) /\ x # q[m]
<1> DEFINE at == {n \in DOMAIN q : q[n] \in hs}
<1>0. Len(q) \in Nat /\ DOMAIN q = 1 .. Len(q)
  BY LenProperties
<1>1. CASE at = {}
  <2>1. Without(q, hs) = q
    BY <1>1 DEF Without
  <2> QED BY <1>0, <1>1, <2>1
<1>2. CASE at # {}
  <2>1. at \in SUBSET Nat
    BY <1>0
  <2>2. PICK m \in 1 .. Len(q) : m = Min(at) /\ q[m] \in hs
    BY <1>0, <1>2, <2>1, MinIs
  <2> DEFINE w == RemoveAt(q, m)
  <2>3. Without(q, hs) = w
    BY <1>2, <2>2 DEF Without
  <2>4. /\ w \in Seq(H) /\ Len(w) = Len(q) - 1
        /\ \A k \in 1 .. Len(q) - 1 : w[k] = IF k < m THEN q[k] ELSE q[k + 1]
    BY RemoveAtIs
  <2> HIDE DEF w, at
  <2>5. Distinct(w)
    BY <1>0, <2>2, <2>4 DEF Distinct
  <2>6. \A k \in 1 .. Len(w) : \E j \in 1 .. Len(q) : j # m /\ w[k] = q[j]
    BY <1>0, <2>2, <2>4
  <2>7. \A j \in 1 .. Len(q) : j # m => \E k \in 1 .. Len(w) : w[k] = q[j]
    <3> SUFFICES ASSUME NEW j \in 1 .. Len(q), j # m PROVE \E k \in 1 .. Len(w) : w[k] = q[j]
      OBVIOUS
    <3>1. CASE j < m
      BY <1>0, <2>2, <2>4, <3>1
    <3>2. CASE j > m
      <4>1. j - 1 \in 1 .. Len(w) /\ w[j - 1] = q[j]
        BY <1>0, <2>2, <2>4, <3>2
      <4> QED BY <4>1
    <3> QED BY <1>0, <2>2, <3>1, <3>2
  <2>8. \A x : Has(w, x) <=> Has(q, x) /\ x # q[m]
    <3>1. \A j \in 1 .. Len(q) : q[j] = q[m] => j = m
      BY <2>2 DEF Distinct
    <3>2. ASSUME NEW x, Has(w, x) PROVE Has(q, x) /\ x # q[m]
      BY <2>6, <3>1, <3>2 DEF Has
    <3>3. ASSUME NEW x, Has(q, x), x # q[m] PROVE Has(w, x)
      BY <2>7, <3>3 DEF Has
    <3> QED BY <3>2, <3>3
  <2> QED BY <2>2, <2>3, <2>4, <2>5, <2>8
<1> QED BY <1>1, <1>2

LEMMA AppendIs ==
  ASSUME NEW H, NEW q \in Seq(H), Distinct(q), NEW h \in H, ~Has(q, h)
  PROVE  /\ Append(q, h) \in Seq(H) /\ Distinct(Append(q, h))
         /\ Len(Append(q, h)) = Len(q) + 1
         /\ \A x : Has(Append(q, h), x) <=> x = h \/ Has(q, x)
<1> DEFINE a == Append(q, h)
<1>1. /\ a \in Seq(H) /\ Len(a) = Len(q) + 1 /\ a[Len(q) + 1] = h
      /\ \A k \in 1 .. Len(q) : a[k] = q[k]
      /\ Len(q) \in Nat
  BY AppendProperties, LenProperties
<1> HIDE DEF a
<1>2. Distinct(a)
  BY <1>1 DEF Distinct, Has
<1>3. \A x : Has(a, x) <=> x = h \/ Has(q, x)
  <2>1. \A n \in 1 .. Len(q) + 1 : n = Len(q) + 1 \/ n \in 1 .. Len(q)
    BY <1>1
  <2>2. Len(q) + 1 \in 1 .. Len(q) + 1 /\ \A k \in 1 .. Len(q) : k \in 1 .. Len(q) + 1
    BY <1>1
  <2> QED BY <1>1, <2>1, <2>2 DEF Has
<1> QED BY <1>1, <1>2, <1>3 DEF a

-----------------------------------------------------------------------------
(* What a call does to a cache                                             *)

LEMMA CacheIs ==
  ASSUME NEW H, NEW c, IsCache(c, H)
  PROVE  /\ \A i \in Shards : /\ c.order[i] \in Seq(H) /\ Distinct(c.order[i])
                              /\ DOMAIN c.order[i] = 1 .. Len(c.order[i])
                              /\ Len(c.order[i]) \in Nat
         /\ \A h : h \in InMap(c) <=> \E i \in Shards : Has(c.order[i], h)
         /\ \A i \in Shards : \A h : Has(c.order[i], h) => h \in H /\ Shard(c.key[h]) = i
         /\ InMap(c) \subseteq Alive(c) /\ Alive(c) \subseteq H
         /\ \A h \in H : h \in Alive(c) <=> h \in InMap(c) \/ c.held[h] > 0
<1>1. \A i \in Shards : /\ c.order[i] \in Seq(H)
                        /\ DOMAIN c.order[i] = 1 .. Len(c.order[i]) /\ Len(c.order[i]) \in Nat
  BY LenProperties DEF IsCache
<1>2. \A i \in Shards : Distinct(c.order[i])
  BY <1>1 DEF IsCache, Distinct
<1>3. \A i \in Shards : \A h : h \in Range(c.order[i]) <=> Has(c.order[i], h)
  BY <1>1 DEF Range, Has
<1>4. \A h : h \in InMap(c) <=> \E i \in Shards : Has(c.order[i], h)
  <2>1. \A h : h \in InMap(c) <=> \E i \in Shards : h \in Range(c.order[i])
    BY DEF InMap, Shards
  <2> QED BY <1>3, <2>1
<1>5. \A i \in Shards : \A h : Has(c.order[i], h) => h \in H /\ Shard(c.key[h]) = i
  <2>1. \A i \in Shards : \A n \in 1 .. Len(c.order[i]) : c.order[i][n] \in H
    BY <1>1, ElementOfSeq
  <2> QED BY <1>1, <2>1 DEF IsCache, Has
<1>6. c.held \in [H -> Nat] /\ DOMAIN c.held = H
  BY DEF IsCache
<1>7. \A h \in H : h \in Alive(c) <=> h \in InMap(c) \/ c.held[h] > 0
  BY <1>6 DEF Alive
<1>8. InMap(c) \subseteq Alive(c) /\ Alive(c) \subseteq H
  BY <1>4, <1>5, <1>6 DEF Alive
<1> QED BY <1>1, <1>2, <1>4, <1>5, <1>7, <1>8

(* The other way round: from its parts to the cache.                       *)
LEMMA IsACache ==
  ASSUME NEW H, NEW c,
         c = [order |-> c.order, key |-> c.key, value |-> c.value, held |-> c.held,
              none |-> c.none],
         c.order \in [Shards -> Seq(H)], c.held \in [H -> Nat],
         c.key = [h \in H |-> c.key[h]], c.value = [h \in H |-> c.value[h]],
         \A i \in Shards : Distinct(c.order[i]),
         \A i \in Shards : \A h : Has(c.order[i], h) => Shard(c.key[h]) = i
  PROVE  IsCache(c, H)
<1>1. \A i \in Shards : DOMAIN c.order[i] = 1 .. Len(c.order[i])
  BY LenProperties
<1>2. \A i \in Shards : \A m \in DOMAIN c.order[i] : Shard(c.key[c.order[i][m]]) = i
  BY <1>1 DEF Has
<1>3. \A i \in Shards : \A l, m \in DOMAIN c.order[i] : c.order[i][l] = c.order[i][m] => l = m
  BY <1>1 DEF Distinct
<1> QED BY <1>2, <1>3 DEF IsCache

LEMMA NewCacheIs ==
  ASSUME NEW H, NEW none
  PROVE  LET c == NewLRUCache(H, none)
         IN  /\ IsCache(c, H) /\ Alive(c) = {} /\ InMap(c) = {}
             /\ c.held = [h \in H |-> 0] /\ \A i \in Shards : Len(c.order[i]) = 0
<1> DEFINE c == NewLRUCache(H, none)
<1>1. /\ c.order = [i \in Shards |-> <<>>] /\ c.key = [h \in H |-> NoKey]
      /\ c.value = [h \in H |-> none] /\ c.held = [h \in H |-> 0] /\ c.none = none
  BY DEF NewLRUCache, Shards
<1>2. <<>> \in Seq(H) /\ Len(<<>>) = 0 /\ DOMAIN <<>> = {}
  BY EmptySeq
<1>3. c.order \in [Shards -> Seq(H)] /\ \A i \in Shards : c.order[i] = <<>>
  BY <1>1, <1>2
<1>4. IsCache(c, H)
  <2>1. c = [order |-> c.order, key |-> c.key, value |-> c.value, held |-> c.held, none |-> c.none]
    BY DEF NewLRUCache
  <2> HIDE DEF c
  <2> QED BY <1>1, <1>2, <1>3, <2>1 DEF IsCache
<1> HIDE DEF c
<1>5. InMap(c) = {}
  BY <1>2, <1>3 DEF InMap, Shards, Range
<1>6. Alive(c) = {}
  BY <1>1, <1>5 DEF Alive
<1> QED BY <1>1, <1>2, <1>3, <1>4, <1>5, <1>6 DEF c

LEMMA LookupHitIs ==
  ASSUME NEW H, NEW c, IsCache(c, H), NEW h \in InMap(c)
  PROVE  LET d == LookupHit(c, h)
         IN  /\ IsCache(d, H) /\ InMap(d) = InMap(c) /\ Alive(d) = Alive(c)
             /\ d.held = [c.held EXCEPT ![h] = @ + 1] /\ d.key = c.key /\ d.value = c.value
             /\ \A i \in Shards : Len(d.order[i]) = Len(c.order[i])
<1> DEFINE d == LookupHit(c, h)
           i == Shard(c.key[h])
           q == Append(Without(c.order[i], {h}), h)
           o == [c.order EXCEPT ![i] = q]
           n == [c.held EXCEPT ![h] = @ + 1]
<1>1. h \in H /\ i \in Shards /\ Has(c.order[i], h) /\ h \in Alive(c)
  BY CacheIs
<1>2. d = [order |-> o, key |-> c.key, value |-> c.value, held |-> n, none |-> c.none]
  <2>1. c = [order |-> c.order, key |-> c.key, value |-> c.value, held |-> c.held, none |-> c.none]
    BY DEF IsCache
  <2>2. d = [c EXCEPT !.order = o, !.held = n]
    BY DEF LookupHit
  <2> HIDE DEF d, o, n
  <2> QED BY <2>1, <2>2
<1> HIDE DEF i
<1>3. /\ q \in Seq(H) /\ Distinct(q) /\ Len(q) = Len(c.order[i])
      /\ \A x : Has(q, x) <=> Has(c.order[i], x)
  <2> DEFINE p == c.order[i]
             w == Without(p, {h})
  <2>1. p \in Seq(H) /\ Distinct(p) /\ Len(p) \in Nat /\ Has(p, h)
    BY <1>1, CacheIs
  <2> HIDE DEF p
  <2>2. w \in Seq(H) /\ Distinct(w) /\ Len(w) = Len(p) - 1
    BY <2>1, WithoutIs DEF Has
  <2>3. \A x : Has(w, x) <=> Has(p, x) /\ x # h
    <3>1. \E k \in 1 .. Len(p) : p[k] \in {h}
      BY <2>1 DEF Has
    <3>2. PICK m \in 1 .. Len(p) :
            p[m] \in {h} /\ \A x : Has(w, x) <=> Has(p, x) /\ x # p[m]
      BY <2>1, <3>1, WithoutIs
    <3> QED BY <3>2
  <2> HIDE DEF w
  <2>4. ~Has(w, h)
    BY <2>3
  <2>5. /\ Append(w, h) \in Seq(H) /\ Distinct(Append(w, h)) /\ Len(Append(w, h)) = Len(w) + 1
        /\ \A x : Has(Append(w, h), x) <=> x = h \/ Has(w, x)
    BY <1>1, <2>2, <2>4, AppendIs
  <2>6. Len(Append(w, h)) = Len(p)
    BY <2>1, <2>2, <2>5
  <2>7. \A x : Has(Append(w, h), x) <=> Has(p, x)
    BY <2>1, <2>3, <2>5
  <2>8. q = Append(w, h)
    BY DEF p, w
  <2> QED BY <2>5, <2>6, <2>7, <2>8 DEF p
<1> HIDE DEF q
<1>4. /\ c.order \in [Shards -> Seq(H)] /\ c.held \in [H -> Nat]
      /\ c.key = [x \in H |-> c.key[x]] /\ c.value = [x \in H |-> c.value[x]]
  BY DEF IsCache
<1>5. /\ o \in [Shards -> Seq(H)] /\ n \in [H -> Nat]
      /\ o[i] = q /\ \A j \in Shards : j # i => o[j] = c.order[j]
      /\ n[h] = c.held[h] + 1 /\ \A x \in H : x # h => n[x] = c.held[x]
  BY <1>1, <1>3, <1>4
<1> HIDE DEF o, n
<1>6. \A j \in Shards : /\ Distinct(o[j]) /\ Len(o[j]) = Len(c.order[j])
                        /\ \A x : Has(o[j], x) <=> Has(c.order[j], x)
  BY <1>3, <1>5, CacheIs
<1>7. d.order = o /\ d.held = n /\ d.key = c.key /\ d.value = c.value /\ d.none = c.none
  BY <1>2
<1>8. IsCache(d, H)
  <2>1. \A j \in Shards : \A x : Has(o[j], x) => Shard(c.key[x]) = j
    BY <1>6, CacheIs
  <2> HIDE DEF d
  <2> QED BY <1>2, <1>4, <1>5, <1>6, <1>7, <2>1, IsACache
<1> HIDE DEF d
<1>9. InMap(d) = InMap(c)
  <2>1. \A x : x \in InMap(d) <=> x \in InMap(c)
    <3>1. \A x : x \in InMap(d) <=> \E j \in Shards : Has(o[j], x)
      BY <1>7, <1>8, CacheIs
    <3>2. \A x : x \in InMap(c) <=> \E j \in Shards : Has(c.order[j], x)
      BY CacheIs
    <3> QED BY <1>6, <3>1, <3>2
  <2> QED BY <2>1
<1>10. Alive(d) = Alive(c)
  <2>1. Alive(d) \subseteq H /\ \A x \in H : x \in Alive(d) <=> x \in InMap(d) \/ n[x] > 0
    BY <1>7, <1>8, CacheIs
  <2>2. Alive(c) \subseteq H /\ \A x \in H : x \in Alive(c) <=> x \in InMap(c) \/ c.held[x] > 0
    BY CacheIs
  <2>3. \A x \in H : x \in Alive(d) <=> x \in Alive(c)
    BY <1>1, <1>5, <1>9, <2>1, <2>2
  <2> QED BY <2>1, <2>2, <2>3
<1> QED BY <1>6, <1>7, <1>8, <1>9, <1>10 DEF d, n

(* Freeing what is dead changes nothing for those alive.                   *)
LEMMA FreeDeadIs ==
  ASSUME NEW H, NEW c, IsCache(c, H)
  PROVE  LET d == FreeDead(c)
         IN  /\ IsCache(d, H) /\ InMap(d) = InMap(c) /\ Alive(d) = Alive(c)
             /\ d.order = c.order /\ d.held = c.held
             /\ \A x \in Alive(c) : d.key[x] = c.key[x] /\ d.value[x] = c.value[x]
<1> DEFINE d == FreeDead(c)
           k == [x \in H |-> IF x \in Alive(c) THEN c.key[x] ELSE NoKey]
           v == [x \in H |-> IF x \in Alive(c) THEN c.value[x] ELSE c.none]
<1>1. d = [order |-> c.order, key |-> k, value |-> v, held |-> c.held, none |-> c.none]
  <2>1. /\ c = [order |-> c.order, key |-> c.key, value |-> c.value, held |-> c.held,
                none |-> c.none]
        /\ DOMAIN c.key = H /\ DOMAIN c.value = H
    BY DEF IsCache
  <2>2. d = [c EXCEPT !.key = k, !.value = v]
    BY <2>1 DEF FreeDead
  <2> HIDE DEF d, k, v
  <2> QED BY <2>1, <2>2
<1>2. \A x \in Alive(c) : x \in H /\ k[x] = c.key[x] /\ v[x] = c.value[x]
  BY CacheIs
<1>3. k = [x \in H |-> k[x]] /\ v = [x \in H |-> v[x]]
  OBVIOUS
<1>4. d.order = c.order /\ d.held = c.held /\ d.key = k /\ d.value = v /\ d.none = c.none
  BY <1>1
<1> HIDE DEF d, k, v
<1>5. \A i \in Shards : \A x : Has(c.order[i], x) => Shard(k[x]) = i
  <2>1. \A i \in Shards : \A x : Has(c.order[i], x) => x \in Alive(c) /\ Shard(c.key[x]) = i
    BY CacheIs
  <2> QED BY <1>2, <2>1
<1>6. IsCache(d, H)
  <2>1. c.order \in [Shards -> Seq(H)] /\ c.held \in [H -> Nat]
    BY DEF IsCache
  <2>2. \A i \in Shards : Distinct(c.order[i])
    BY CacheIs
  <2> QED BY <1>1, <1>3, <1>4, <1>5, <2>1, <2>2, IsACache
<1>7. InMap(d) = InMap(c) /\ Alive(d) = Alive(c)
  BY <1>4 DEF InMap, Alive
<1> QED BY <1>2, <1>4, <1>6, <1>7 DEF d

LEMMA ReleaseHandleIs ==
  ASSUME NEW H, NEW c, IsCache(c, H), NEW h \in H, c.held[h] > 0
  PROVE  LET d == ReleaseHandle(c, h)
         IN  /\ IsCache(d, H) /\ InMap(d) = InMap(c) /\ d.order = c.order
             /\ d.held = [c.held EXCEPT ![h] = @ - 1]
             /\ Alive(d) \subseteq Alive(c) /\ Alive(c) \subseteq Alive(d) \cup {h}
             /\ \A x \in Alive(d) : d.key[x] = c.key[x] /\ d.value[x] = c.value[x]
<1> DEFINE n == [c.held EXCEPT ![h] = @ - 1]
           e == [order |-> c.order, key |-> c.key, value |-> c.value, held |-> n, none |-> c.none]
<1>1. [c EXCEPT !.held[h] = @ - 1] = e
  <2>1. c = [order |-> c.order, key |-> c.key, value |-> c.value, held |-> c.held, none |-> c.none]
    BY DEF IsCache
  <2>2. [c EXCEPT !.held[h] = @ - 1] = [c EXCEPT !.held = n]
    OBVIOUS
  <2> HIDE DEF n
  <2> QED BY <2>1, <2>2
<1>2. /\ c.order \in [Shards -> Seq(H)] /\ c.held \in [H -> Nat]
      /\ c.key = [x \in H |-> c.key[x]] /\ c.value = [x \in H |-> c.value[x]]
  BY DEF IsCache
<1>3. n \in [H -> Nat] /\ \A x \in H : x # h => n[x] = c.held[x]
  BY <1>2
<1>4. e.order = c.order /\ e.key = c.key /\ e.value = c.value /\ e.held = n /\ e.none = c.none
      /\ e = [order |-> e.order, key |-> e.key, value |-> e.value, held |-> e.held, none |-> e.none]
  OBVIOUS
<1>a. ReleaseHandle(c, h) = FreeDead(e)
  BY <1>1 DEF ReleaseHandle
<1> HIDE DEF e, n
<1>5. IsCache(e, H)
  <2>1. \A i \in Shards : Distinct(e.order[i])
    BY <1>4, CacheIs
  <2>2. \A i \in Shards : \A x : Has(e.order[i], x) => Shard(e.key[x]) = i
    BY <1>4, CacheIs
  <2>3. /\ e.order \in [Shards -> Seq(H)] /\ e.held \in [H -> Nat]
        /\ e.key = [x \in H |-> e.key[x]] /\ e.value = [x \in H |-> e.value[x]]
    BY <1>2, <1>3, <1>4
  <2> QED BY <1>4, <2>1, <2>2, <2>3, IsACache
<1>6. InMap(e) = InMap(c)
  BY <1>4 DEF InMap
<1>7. Alive(e) \subseteq Alive(c) /\ Alive(c) \subseteq Alive(e) \cup {h}
  <2>1. Alive(e) \subseteq H /\ \A x \in H : x \in Alive(e) <=> x \in InMap(e) \/ n[x] > 0
    BY <1>4, <1>5, CacheIs
  <2>2. Alive(c) \subseteq H /\ \A x \in H : x \in Alive(c) <=> x \in InMap(c) \/ c.held[x] > 0
    BY CacheIs
  <2>3. \A x \in H : x \in Alive(e) => x \in Alive(c)
    BY <1>3, <1>6, <2>1, <2>2
  <2>4. \A x \in H : x # h /\ x \in Alive(c) => x \in Alive(e)
    BY <1>3, <1>6, <2>1, <2>2
  <2> QED BY <2>1, <2>2, <2>3, <2>4
<1>8. /\ IsCache(FreeDead(e), H) /\ InMap(FreeDead(e)) = InMap(e)
      /\ Alive(FreeDead(e)) = Alive(e)
      /\ FreeDead(e).order = e.order /\ FreeDead(e).held = e.held
      /\ \A x \in Alive(e) : FreeDead(e).key[x] = e.key[x] /\ FreeDead(e).value[x] = e.value[x]
  BY <1>5, FreeDeadIs
<1> QED BY <1>a, <1>4, <1>6, <1>7, <1>8 DEF n

LEMMA PerShardIs == \A capacity \in Nat : PerShard(capacity) \in Nat
<1>1. kNumShards \in Nat /\ kNumShards > 0
  BY ShardAssumption
<1>2. \A a \in Nat : a \div kNumShards \in Nat
  BY <1>1
<1>3. \A capacity \in Nat : capacity + (kNumShards - 1) \in Nat
  BY <1>1
<1> QED BY <1>2, <1>3 DEF PerShard

(* A shard is no longer than the number of its handles that are alive.     *)
LEMMA LenBound ==
  ASSUME NEW H, IsFiniteSet(H), NEW c, IsCache(c, H), NEW i \in Shards
  PROVE  LET used == {h \in Alive(c) : Shard(c.key[h]) = i}
         IN  Len(c.order[i]) <= Cardinality(used) /\ Cardinality(used) \in Nat
<1> DEFINE used == {h \in Alive(c) : Shard(c.key[h]) = i}
           q == c.order[i]
<1>1. IsFiniteSet(used) /\ Cardinality(used) \in Nat
  <2>1. used \in SUBSET H
    BY CacheIs
  <2> QED BY <2>1, FS_Subset, FS_CardinalityType
<1>2. q \in Seq(H) /\ Distinct(q) /\ DOMAIN q = 1 .. Len(q) /\ Len(q) \in Nat
  BY CacheIs
<1>3. \A n \in 1 .. Len(q) : q[n] \in used
  <2>1. \A n \in 1 .. Len(q) : Has(q, q[n])
    BY DEF Has
  <2>2. \A x : Has(q, x) => x \in Alive(c) /\ Shard(c.key[x]) = i
    BY CacheIs
  <2> QED BY <2>1, <2>2
<1> HIDE DEF used, q
<1>4. q \in [1 .. Len(q) -> used]
  <2>1. q = [n \in 1 .. Len(q) |-> q[n]]
    BY <1>2, LenProperties
  <2> QED BY <1>3, <2>1
<1>5. q \in Injection(1 .. Len(q), used)
  BY <1>2, <1>4 DEF Injection, Distinct, IsInjective
<1>6. Cardinality(1 .. Len(q)) <= Cardinality(used)
  BY <1>1, <1>5, FS_Injection
<1>7. Cardinality(1 .. Len(q)) = Len(q)
  BY <1>2, FS_Interval
<1> QED BY <1>1, <1>6, <1>7 DEF used, q

(* Replacing the order of one shard by a part of it.                       *)
LEMMA SuffixIs ==
  ASSUME NEW H, NEW q \in Seq(H), Distinct(q), NEW n \in 0 .. Len(q)
  PROVE  /\ SubSeq(q, n + 1, Len(q)) \in Seq(H) /\ Distinct(SubSeq(q, n + 1, Len(q)))
         /\ Len(SubSeq(q, n + 1, Len(q))) = Len(q) - n
         /\ \A x : Has(SubSeq(q, n + 1, Len(q)), x) => Has(q, x)
<1> DEFINE p == SubSeq(q, n + 1, Len(q))
<1>1. Len(q) \in Nat /\ n \in Nat /\ n <= Len(q) /\ \A k \in 1 .. Len(q) : q[k] \in H
  BY ElementOfSeq, LenProperties
<1>2. n + 1 \in Int /\ Len(q) \in Int /\ \A k \in n + 1 .. Len(q) : q[k] \in H
  BY <1>1
<1>3. /\ p \in Seq(H) /\ Len(p) = IF n + 1 <= Len(q) THEN Len(q) - (n + 1) + 1 ELSE 0
      /\ \A k \in 1 .. Len(q) - (n + 1) + 1 : p[k] = q[n + 1 + k - 1]
  BY <1>2, SubSeqProperties
<1> HIDE DEF p
<1>4. Len(p) = Len(q) - n
  BY <1>1, <1>3
<1>5. \A k \in 1 .. Len(p) : n + k \in 1 .. Len(q) /\ p[k] = q[n + k]
  BY <1>1, <1>3, <1>4
<1>6. Distinct(p)
  <2> SUFFICES ASSUME NEW k \in 1 .. Len(p), NEW l \in 1 .. Len(p), p[k] = p[l] PROVE k = l
    BY DEF Distinct
  <2>1. n + k = n + l
    BY <1>5 DEF Distinct
  <2> QED BY <1>1, <1>4, <2>1
<1>7. \A x : Has(p, x) => Has(q, x)
  BY <1>5 DEF Has
<1> QED BY <1>3, <1>4, <1>6, <1>7 DEF p

LEMMA TrimIs ==
  ASSUME NEW H, IsFiniteSet(H), NEW c, IsCache(c, H), NEW i \in Shards, NEW capacity \in Nat
  PROVE  LET d == Trim(c, i, capacity)
         IN  /\ IsCache(d, H) /\ d.key = c.key /\ d.value = c.value /\ d.held = c.held
             /\ \A j \in Shards \ {i} : d.order[j] = c.order[j]
             /\ \A x : Has(d.order[i], x) => Has(c.order[i], x)
             /\ Len(d.order[i]) <= PerShard(capacity)
<1> DEFINE q == c.order[i]
           First(n) == [c EXCEPT !.order[i] = SubSeq(@, n + 1, Len(@))]
           Used(d) == Cardinality({h \in Alive(d) : Shard(d.key[h]) = i})
           S == {n \in 0 .. Len(q) : n = Len(q) \/ Used(First(n)) <= PerShard(capacity)}
           n == Min(S)
           d == First(n)
<1>1. q \in Seq(H) /\ Distinct(q) /\ Len(q) \in Nat
  BY CacheIs
<1>2. n \in 0 .. Len(q) /\ (n = Len(q) \/ Used(d) <= PerShard(capacity))
  <2>1. S \in SUBSET Nat /\ Len(q) \in S
    BY <1>1
  <2>2. n \in S
    <3> HIDE DEF S
    <3> QED BY <2>1, MinIs
  <2> QED BY <2>2
<1>3. Trim(c, i, capacity) = d
  BY DEF Trim
<1> HIDE DEF n
<1> DEFINE p == SubSeq(q, n + 1, Len(q))
           o == [c.order EXCEPT ![i] = p]
<1>4. d = [order |-> o, key |-> c.key, value |-> c.value, held |-> c.held, none |-> c.none]
  <2>1. c = [order |-> c.order, key |-> c.key, value |-> c.value, held |-> c.held, none |-> c.none]
    BY DEF IsCache
  <2>2. d = [c EXCEPT !.order = o]
    OBVIOUS
  <2> HIDE DEF d, o
  <2> QED BY <2>1, <2>2
<1>5. /\ p \in Seq(H) /\ Distinct(p) /\ Len(p) = Len(q) - n
      /\ \A x : Has(p, x) => Has(q, x)
  BY <1>1, <1>2, SuffixIs
<1> HIDE DEF p
<1>6. /\ d.order = o /\ d.key = c.key /\ d.value = c.value /\ d.held = c.held /\ d.none = c.none
      /\ d = [order |-> d.order, key |-> d.key, value |-> d.value, held |-> d.held, none |-> d.none]
  BY <1>4
<1> HIDE DEF d
<1>7. /\ c.order \in [Shards -> Seq(H)] /\ c.held \in [H -> Nat]
      /\ c.key = [x \in H |-> c.key[x]] /\ c.value = [x \in H |-> c.value[x]]
  BY DEF IsCache
<1>8. o \in [Shards -> Seq(H)] /\ o[i] = p /\ \A j \in Shards \ {i} : o[j] = c.order[j]
  BY <1>5, <1>7
<1> HIDE DEF o
<1>9. IsCache(d, H)
  <2>1. \A j \in Shards : Distinct(d.order[j])
    BY <1>5, <1>6, <1>8, CacheIs
  <2>2. \A j \in Shards : \A x : Has(d.order[j], x) => Has(c.order[j], x)
    BY <1>5, <1>6, <1>8
  <2>3. \A j \in Shards : \A x : Has(d.order[j], x) => Shard(d.key[x]) = j
    <3>1. \A j \in Shards : \A x : Has(c.order[j], x) => Shard(c.key[x]) = j
      BY CacheIs
    <3> QED BY <1>6, <2>2, <3>1
  <2>4. /\ d.order \in [Shards -> Seq(H)] /\ d.held \in [H -> Nat]
        /\ d.key = [x \in H |-> d.key[x]] /\ d.value = [x \in H |-> d.value[x]]
    BY <1>6, <1>7, <1>8
  <2> QED BY <1>6, <2>1, <2>3, <2>4, IsACache
<1>10. Len(d.order[i]) <= PerShard(capacity)
  <2>1. CASE n = Len(q)
    <3>1. Len(d.order[i]) = 0
      BY <1>1, <1>5, <1>6, <1>8, <2>1
    <3> QED BY <3>1, PerShardIs
  <2>2. CASE Used(d) <= PerShard(capacity)
    <3>1. Len(d.order[i]) <= Used(d) /\ Used(d) \in Nat
      BY <1>9, LenBound
    <3>2. PerShard(capacity) \in Nat /\ Len(d.order[i]) \in Nat
      BY <1>1, <1>2, <1>5, <1>6, <1>8, PerShardIs
    <3> HIDE DEF Used
    <3> QED BY <2>2, <3>1, <3>2
  <2> QED BY <1>2, <2>1, <2>2
<1> QED BY <1>3, <1>5, <1>6, <1>8, <1>9, <1>10

(* Insert() takes in the new handle and may let go of others.              *)
LEMMA InsertIs ==
  ASSUME NEW H, IsFiniteSet(H), NEW c, IsCache(c, H), NEW h \in H, h \notin Alive(c),
         NEW key, Shard(key) \in Shards, NEW value, NEW capacity \in Nat
  PROVE  LET d == Insert(c, h, key, value, capacity)
         IN  /\ IsCache(d, H)
             /\ d.held = [c.held EXCEPT ![h] = 1]
             /\ h \in Alive(d) /\ Alive(d) \subseteq Alive(c) \cup {h}
             /\ d.key[h] = key /\ d.value[h] = value
             /\ \A x \in Alive(d) \ {h} : d.key[x] = c.key[x] /\ d.value[x] = c.value[x]
             /\ Within(c, capacity) => Within(d, capacity)
<1> DEFINE i == Shard(key)
           w == Without(c.order[i], WithKey(c, key))
           q == Append(w, h)
           o == [c.order EXCEPT ![i] = q]
           k == [c.key EXCEPT ![h] = key]
           v == [c.value EXCEPT ![h] = value]
           n == [c.held EXCEPT ![h] = 1]
           e == [order |-> o, key |-> k, value |-> v, held |-> n, none |-> c.none]
           f == Trim(e, i, capacity)
           d == FreeDead(f)
<1>1. Insert(c, h, key, value, capacity) = d
  <2>1. c = [order |-> c.order, key |-> c.key, value |-> c.value, held |-> c.held, none |-> c.none]
    BY DEF IsCache
  <2>2. [c EXCEPT !.order = o, !.key = k, !.value = v, !.held = n] = e
    <3> HIDE DEF o, k, v, n
    <3> DEFINE r == [c EXCEPT !.order = o, !.key = k, !.value = v, !.held = n]
    <3>1. r = [c EXCEPT !.order = o, !.key = k, !.value = v, !.held = n]
      OBVIOUS
    <3> HIDE DEF r
    <3>2. r.order = o /\ r.key = k /\ r.value = v /\ r.held = n /\ r.none = c.none
      BY <2>1, <3>1
    <3>3. r = [order |-> r.order, key |-> r.key, value |-> r.value, held |-> r.held,
               none |-> r.none]
      BY <2>1, <3>1
    <3> QED BY <3>1, <3>2, <3>3
  <2>3. [c EXCEPT !.order[i] = Append(Without(@, WithKey(c, key)), h),
                  !.key[h] = key, !.value[h] = value, !.held[h] = 1]
        = [c EXCEPT !.order = o, !.key = k, !.value = v, !.held = n]
    OBVIOUS
  <2> HIDE DEF e
  <2> QED BY <2>2, <2>3 DEF Insert
<1>2. /\ c.order \in [Shards -> Seq(H)] /\ c.held \in [H -> Nat]
      /\ c.key = [x \in H |-> c.key[x]] /\ c.value = [x \in H |-> c.value[x]]
  BY DEF IsCache
<1>3. /\ q \in Seq(H) /\ Distinct(q)
      /\ \A x : Has(q, x) => x = h \/ Has(c.order[i], x)
  <2>1. c.order[i] \in Seq(H) /\ Distinct(c.order[i]) /\ ~Has(c.order[i], h)
    BY CacheIs
  <2>2. w \in Seq(H) /\ Distinct(w) /\ \A x : Has(w, x) => Has(c.order[i], x)
    BY <2>1, WithoutIs
  <2> HIDE DEF w, i
  <2>3. ~Has(w, h)
    BY <2>1, <2>2
  <2>4. Append(w, h) \in Seq(H) /\ Distinct(Append(w, h))
        /\ \A x : Has(Append(w, h), x) <=> x = h \/ Has(w, x)
    BY <2>2, <2>3, AppendIs
  <2> QED BY <2>2, <2>4
<1> HIDE DEF q
<1>4. /\ o \in [Shards -> Seq(H)] /\ o[i] = q /\ \A j \in Shards \ {i} : o[j] = c.order[j]
      /\ k = [x \in H |-> k[x]] /\ v = [x \in H |-> v[x]] /\ n \in [H -> Nat]
      /\ k[h] = key /\ v[h] = value /\ n[h] = 1
      /\ \A x \in H : x # h => k[x] = c.key[x] /\ v[x] = c.value[x] /\ n[x] = c.held[x]
  BY <1>2, <1>3
<1>5. /\ e.order = o /\ e.key = k /\ e.value = v /\ e.held = n /\ e.none = c.none
      /\ e = [order |-> e.order, key |-> e.key, value |-> e.value, held |-> e.held, none |-> e.none]
  OBVIOUS
<1> HIDE DEF o, k, v, n, e
<1>6. \A j \in Shards : \A x : Has(o[j], x) => (x = h /\ j = i) \/ (Has(c.order[j], x) /\ x # h)
  <2>1. \A j \in Shards : ~Has(c.order[j], h)
    BY CacheIs
  <2> HIDE DEF i
  <2> QED BY <1>3, <1>4, <2>1
<1>7. IsCache(e, H)
  <2>1. \A j \in Shards : Distinct(e.order[j])
    <3> HIDE DEF i
    <3> QED BY <1>3, <1>4, <1>5, CacheIs
  <2>2. \A j \in Shards : \A x : Has(c.order[j], x) => x \in H /\ Shard(c.key[x]) = j
    BY CacheIs
  <2>3. \A j \in Shards : \A x : Has(e.order[j], x) => Shard(e.key[x]) = j
    <3>1. \A j \in Shards : \A x : Has(o[j], x) => Shard(k[x]) = j
      <4> SUFFICES ASSUME NEW j \in Shards, NEW x, Has(o[j], x) PROVE Shard(k[x]) = j
        OBVIOUS
      <4>1. CASE x = h /\ j = i
        BY <1>4, <4>1
      <4>2. CASE Has(c.order[j], x) /\ x # h
        BY <1>4, <2>2, <4>2
      <4> QED BY <1>6, <4>1, <4>2
    <3> QED BY <1>5, <3>1
  <2>4. /\ e.order \in [Shards -> Seq(H)] /\ e.held \in [H -> Nat]
        /\ e.key = [x \in H |-> e.key[x]] /\ e.value = [x \in H |-> e.value[x]]
    BY <1>4, <1>5
  <2> QED BY <1>5, <2>1, <2>3, <2>4, IsACache
<1> HIDE DEF i
<1>8. i \in Shards
  BY DEF i
<1>9. /\ IsCache(f, H) /\ f.key = e.key /\ f.value = e.value /\ f.held = e.held
      /\ \A j \in Shards \ {i} : f.order[j] = e.order[j]
      /\ \A x : Has(f.order[i], x) => Has(e.order[i], x)
      /\ Len(f.order[i]) <= PerShard(capacity)
  BY <1>7, <1>8, TrimIs
<1> HIDE DEF f
<1>10. /\ IsCache(d, H) /\ Alive(d) = Alive(f) /\ d.order = f.order /\ d.held = f.held
       /\ \A x \in Alive(f) : d.key[x] = f.key[x] /\ d.value[x] = f.value[x]
  BY <1>9, FreeDeadIs
<1> HIDE DEF d
<1>11. \A x \in H : x \in Alive(f) <=> x \in InMap(f) \/ n[x] > 0
  BY <1>5, <1>9, CacheIs
<1>12. h \in Alive(f)
  BY <1>4, <1>11
<1>13. \A x \in InMap(f) : x = h \/ x \in InMap(c)
  <2>1. \A x : x \in InMap(f) <=> \E j \in Shards : Has(f.order[j], x)
    BY <1>9, CacheIs
  <2>2. \A x : x \in InMap(c) <=> \E j \in Shards : Has(c.order[j], x)
    BY CacheIs
  <2>3. \A j \in Shards : \A x : Has(f.order[j], x) => Has(o[j], x)
    BY <1>5, <1>9
  <2> QED BY <1>6, <2>1, <2>2, <2>3
<1>14. Alive(f) \subseteq Alive(c) \cup {h}
  <2>1. Alive(f) \subseteq H
    BY <1>9, CacheIs
  <2>2. \A x \in H : x \in Alive(c) <=> x \in InMap(c) \/ c.held[x] > 0
    BY CacheIs
  <2> QED BY <1>4, <1>11, <1>13, <2>1, <2>2
<1>15. /\ d.key[h] = key /\ d.value[h] = value
       /\ \A x \in Alive(d) \ {h} : d.key[x] = c.key[x] /\ d.value[x] = c.value[x]
  <2>1. Alive(f) \subseteq H
    BY <1>9, CacheIs
  <2>2. \A x \in Alive(f) : d.key[x] = k[x] /\ d.value[x] = v[x]
    BY <1>5, <1>9, <1>10
  <2> QED BY <1>4, <1>10, <1>12, <2>1, <2>2
<1>16. Within(c, capacity) => Within(d, capacity)
  BY <1>4, <1>5, <1>8, <1>9, <1>10 DEF Within
<1> QED BY <1>1, <1>5, <1>9, <1>10, <1>12, <1>14, <1>15, <1>16 DEF n

-----------------------------------------------------------------------------
(* Threads                                                                 *)

LEMMA IdleIs ==
  /\ Idle \in ThreadState
  /\ Idle.pc = "idle" /\ Idle.slot = NoSlot /\ Idle.block = NoBlock
  /\ Idle.doomed = {} /\ Idle.then = "idle"
BY DEF Idle, ThreadState, PC, Block, NoBlock, NoSlot

LEMMA StateKept ==
  ASSUME NEW th \in ThreadState, NEW next, NEW pc \in PC
  PROVE  /\ next = [th EXCEPT !.pc = pc] =>
              /\ next \in ThreadState /\ next.pc = pc /\ next.number = th.number
              /\ next.slot = th.slot /\ next.offset = th.offset /\ next.block = th.block
              /\ next.doomed = th.doomed /\ next.then = th.then
BY DEF ThreadState

LEMMA ThreadTyped ==
  ASSUME Types, NEW t \in Thread
  PROVE  /\ thread[t] \in ThreadState
         /\ thread[t].pc \in PC /\ thread[t].slot \in Slot \cup {NoSlot}
         /\ thread[t].doomed \subseteq Slot /\ thread[t].block \in Block
         /\ thread[t].then \in {"idle", "found"}
         /\ thread[t].number \in FileNumber \cup {0} /\ thread[t].offset \in Offset \cup {0}
BY DEF Types, ThreadState

LEMMA GotoIs ==
  ASSUME Types, NEW t \in Thread, NEW next \in ThreadState, Goto(t, next)
  PROVE  /\ thread' \in [Thread -> ThreadState]
         /\ thread'[t] = next
         /\ \A u \in Thread \ {t} : thread'[u] = thread[u]
BY DEF Goto, Types

-----------------------------------------------------------------------------
(* Counting threads                                                        *)

LEMMA ThreadsFinite ==
  ASSUME NEW A \in SUBSET Thread
  PROVE  IsFiniteSet(A) /\ Cardinality(A) \in Nat
BY TableCacheAssumption, FS_Subset, FS_CardinalityType

LEMMA OneThread ==
  ASSUME NEW A \in SUBSET Thread, NEW B \in SUBSET Thread, NEW t \in Thread,
         \A u \in Thread \ {t} : u \in A <=> u \in B
  PROVE  /\ (t \in A <=> t \in B) => A = B
         /\ t \notin A /\ t \in B => Cardinality(B) = Cardinality(A) + 1
         /\ t \in A /\ t \notin B => Cardinality(B) = Cardinality(A) - 1
<1>1. (t \in A <=> t \in B) => A = B
  OBVIOUS
<1>2. ASSUME t \notin A, t \in B PROVE Cardinality(B) = Cardinality(A) + 1
  <2>1. B = A \cup {t}
    BY <1>2
  <2> QED BY <1>2, <2>1, ThreadsFinite, FS_AddElement
<1>3. ASSUME t \in A, t \notin B PROVE Cardinality(B) = Cardinality(A) - 1
  <2>1. B = A \ {t}
    BY <1>3
  <2> QED BY <1>3, <2>1, ThreadsFinite, FS_RemoveElement
<1> QED BY <1>1, <1>2, <1>3

(* The sets that are counted change only by the thread that steps.         *)
Other(t) == \A u \in Thread \ {t} : thread'[u] = thread[u]

LEMMA HoldersChange ==
  ASSUME NEW t \in Thread, Other(t), NEW s
  PROVE  LET was == Holds(t) /\ thread[t].slot = s
             is == Holds(t)' /\ thread'[t].slot = s
         IN  /\ (was <=> is) => Cardinality(Holders(s))' = Cardinality(Holders(s))
             /\ ~was /\ is => Cardinality(Holders(s))' = Cardinality(Holders(s)) + 1
             /\ was /\ ~is => Cardinality(Holders(s))' = Cardinality(Holders(s)) - 1
<1>1. Holders(s) \in SUBSET Thread /\ Holders(s)' \in SUBSET Thread
  BY DEF Holders
<1>2. \A u \in Thread \ {t} : u \in Holders(s) <=> u \in Holders(s)'
  BY DEF Holders, Holds, Other
<1>3. /\ t \in Holders(s) <=> Holds(t) /\ thread[t].slot = s
      /\ t \in Holders(s)' <=> Holds(t)' /\ thread'[t].slot = s
  BY DEF Holders
<1> QED BY <1>1, <1>2, <1>3, OneThread

LEMMA ReadersChange ==
  ASSUME NEW t \in Thread, Other(t), NEW h
  PROVE  LET was == thread[t].block.handle = h
             is == thread'[t].block.handle = h
         IN  /\ (was <=> is) => Cardinality(Readers(h))' = Cardinality(Readers(h))
             /\ ~was /\ is => Cardinality(Readers(h))' = Cardinality(Readers(h)) + 1
             /\ was /\ ~is => Cardinality(Readers(h))' = Cardinality(Readers(h)) - 1
<1>1. Readers(h) \in SUBSET Thread /\ Readers(h)' \in SUBSET Thread
  BY DEF Readers
<1>2. \A u \in Thread \ {t} : u \in Readers(h) <=> u \in Readers(h)'
  BY DEF Readers, Other
<1>3. /\ t \in Readers(h) <=> thread[t].block.handle = h
      /\ t \in Readers(h)' <=> thread'[t].block.handle = h
  BY DEF Readers
<1> QED BY <1>1, <1>2, <1>3, OneThread

LEMMA DrawingChange ==
  ASSUME NEW t \in Thread, Other(t)
  PROVE  /\ (Draws(t) <=> Draws(t)') => Cardinality(Drawing)' = Cardinality(Drawing)
         /\ ~Draws(t) /\ Draws(t)' => Cardinality(Drawing)' = Cardinality(Drawing) + 1
         /\ Draws(t) /\ ~Draws(t)' => Cardinality(Drawing)' = Cardinality(Drawing) - 1
<1>1. Drawing \in SUBSET Thread /\ Drawing' \in SUBSET Thread
  BY DEF Drawing
<1>2. \A u \in Thread \ {t} : u \in Drawing <=> u \in Drawing'
  BY DEF Drawing, Draws, Other
<1>3. (t \in Drawing <=> Draws(t)) /\ (t \in Drawing' <=> Draws(t)')
  BY DEF Drawing
<1> QED BY <1>1, <1>2, <1>3, OneThread

-----------------------------------------------------------------------------
(* What the invariant says of a slot and of a thread                       *)

LEMMA HolderIs ==
  ASSUME Inv, NEW t \in Thread, Holds(t)
  PROVE  /\ thread[t].slot \in Slot /\ cache_.held[thread[t].slot] > 0
         /\ thread[t].slot \in Alive(cache_) /\ thread[t].number \in FileNumber
         /\ stage[thread[t].slot] \in FileStage /\ ATable(thread[t].slot)
         /\ tables[thread[t].slot].number = thread[t].number
         /\ ~Opens(t)
<1> DEFINE s == thread[t].slot
<1>1. s \in Slot /\ thread[t].number \in FileNumber
  BY DEF Inv, TablesInv, Threads_
<1>2. cache_.held[s] > 0
  <2>1. Holders(s) \in SUBSET Thread /\ Holders(s) # {}
    BY DEF Holders
  <2>2. Cardinality(Holders(s)) \in Nat /\ Cardinality(Holders(s)) # 0
    BY <2>1, ThreadsFinite, FS_EmptySet
  <2> QED BY <1>1, <2>2 DEF Inv, TablesInv, HeldCounted
<1>3. s \in Alive(cache_)
  BY <1>1, <1>2, CacheIs DEF Inv, Types
<1>4. ~Opens(t)
  BY <1>3 DEF Inv, TablesInv, OpeningOwns, OwnsSlot
<1> QED BY <1>1, <1>2, <1>3, <1>4 DEF Inv, TablesInv, CacheOwns, HoldersTable

LEMMA FreeIs ==
  ASSUME Inv, NEW s \in Slot, FreeSlot(s)
  PROVE  /\ s \notin Alive(cache_) /\ stage[s] = "none" /\ tables[s] = NoTable
         /\ \A u \in Thread : s \notin thread[u].doomed /\ thread[u].slot # s
<1>1. stage[s] = "none" /\ \A u \in Thread : thread[u].slot # s
  BY DEF FreeSlot
<1>2. s \notin Alive(cache_)
  BY <1>1 DEF Inv, TablesInv, CacheOwns, FileStage
<1>3. \A u \in Thread : s \notin thread[u].doomed
  BY <1>1 DEF Inv, TablesInv, DeleterOwns, OwnsDoomed, FileStage
<1>4. tables[s] = NoTable
  BY <1>1, <1>2, <1>3 DEF Inv, TablesInv, NothingLeft, Owned
<1> QED BY <1>1, <1>2, <1>3, <1>4

-----------------------------------------------------------------------------
(* Steps that leave the block cache alone: those of a thread that reads no *)
(* block                                                                   *)

NoReader(th) == th.block = NoBlock /\ th.pc \notin {"read", "fill", "use"}

LEMMA BlocksFrame ==
  ASSUME Inv, NEW t \in Thread, Other(t), NoReader(thread[t]), NoReader(thread'[t]),
         block_cache' = block_cache,
         \A s \in Alive(cache_) : stage'[s] = stage[s]
  PROVE  BlocksCounted' /\ ThreadBlocks'
<1>1. BlocksCounted'
  <2> SUFFICES ASSUME NEW h \in BlockHandle
               PROVE  block_cache.held[h] = Cardinality(Readers(h))'
    BY DEF BlocksCounted
  <2>1. Cardinality(Readers(h))' = Cardinality(Readers(h))
    BY ReadersChange DEF NoReader
  <2> QED BY <2>1 DEF Inv, BlocksInv, BlocksCounted
<1>2. ThreadBlocks'
  <2> SUFFICES ASSUME NEW u \in Thread PROVE ThreadBlock(u)'
    BY DEF ThreadBlocks
  <2>1. CASE u = t
    BY <2>1 DEF NoReader, Reads, ThreadBlock
  <2>2. CASE u # t
    <3>1. thread'[u] = thread[u] /\ (Reads(u)' <=> Reads(u))
      BY <2>2 DEF Other, Reads
    <3>2. Reads(u) => stage'[thread[u].slot] = stage[thread[u].slot]
      <4>1. Reads(u) => Holds(u)
        BY DEF Reads, Holds
      <4> QED BY <4>1, HolderIs
    <3> QED BY <3>1, <3>2 DEF Inv, BlocksInv, ThreadBlocks, ThreadBlock
  <2> QED BY <2>1, <2>2
<1> QED BY <1>1, <1>2

LEMMA CachedBlocksFrame ==
  ASSUME Inv, block_cache' = block_cache, tables' = tables, last_id_' = last_id_
  PROVE  CachedBlocks' /\ UniqueIds'
BY DEF Inv, TablesInv, BlocksInv, CachedBlocks, CachedBlock, UniqueIds

(* A call that opens a table is not disturbed by the others.               *)
LEMMA OpeningFrame ==
  ASSUME Inv, NEW t \in Thread, Other(t), NEW u \in Thread \ {t}, Opens(u)',
         stage'[thread[u].slot] = stage[thread[u].slot],
         tables'[thread[u].slot] = tables[thread[u].slot],
         last_id_' \in Nat, last_id_ <= last_id_',
         thread[u].slot \notin Alive(cache_'),
         thread[u].slot \notin thread'[t].doomed, thread'[t].slot # thread[u].slot
  PROVE  OwnsSlot(u)'
<1>1. thread'[u] = thread[u] /\ Opens(u) /\ OwnsSlot(u)
  BY DEF Other, Opens, Inv, TablesInv, OpeningOwns
<1>2. 1 .. last_id_ \subseteq 1 .. last_id_'
  BY DEF Inv, Types
<1>3. OpeningStage(u)'
  <2>1. ATable(thread[u].slot) => ATable(thread[u].slot)'
    BY <1>1, <1>2 DEF ATable
  <2> QED BY <1>1, <2>1 DEF OwnsSlot, OpeningStage, Opens
<1> QED BY <1>1, <1>3 DEF OwnsSlot, Other

LEMMA DeleterFrame ==
  ASSUME Inv, NEW t \in Thread, Other(t), NEW u \in Thread \ {t}, NEW s \in thread'[u].doomed,
         stage'[s] = stage[s], tables'[s] = tables[s],
         s \notin Alive(cache_'), s \notin thread'[t].doomed
  PROVE  OwnsDoomed(u, s)'
<1>1. thread'[u] = thread[u] /\ OwnsDoomed(u, s)
  BY DEF Other, Inv, TablesInv, DeleterOwns
<1> QED BY <1>1 DEF OwnsDoomed, Other

LEMMA FilesFrame == Permits /\ UNCHANGED fileVars => Permits'
BY DEF Permits, PermitsExact, FilesTypeOK, HasMmapPermit, HasFdPermit, Mapped, KeptOpen, In, fileVars

LEMMA TypesFrame ==
  ASSUME Inv, thread' \in [Thread -> ThreadState], IsCache(cache_', Slot),
         UNCHANGED <<block_cache, last_id_, tables>>
  PROVE  Types'
BY DEF Inv, Types, ATable

LEMMA HeldFrame ==
  ASSUME Inv, NEW t \in Thread, Other(t), cache_'.held = cache_.held, Holds(t)' <=> Holds(t),
         Holds(t) => thread'[t].slot = thread[t].slot
  PROVE  HeldCounted'
<1> SUFFICES ASSUME NEW s \in Slot PROVE cache_'.held[s] = Cardinality(Holders(s))'
  BY DEF HeldCounted
<1>1. Cardinality(Holders(s))' = Cardinality(Holders(s))
  BY HoldersChange
<1> QED BY <1>1 DEF Inv, TablesInv, HeldCounted

LEMMA IdsFrame ==
  ASSUME Inv, NEW t \in Thread, Other(t), last_id_' = last_id_, Draws(t)' => Draws(t)
  PROVE  IdsCounted'
<1>1. Drawing \in SUBSET Thread
  BY DEF Drawing
<1>2. Cardinality(Drawing) \in Nat
  BY <1>1, ThreadsFinite
<1>3. /\ last_id_ \in Nat /\ MaxId \in Nat /\ last_id_ + Cardinality(Drawing) <= MaxId
  BY TableCacheAssumption DEF Inv, Types, TablesInv, IdsCounted
<1>4. Cardinality(Drawing)' \in {Cardinality(Drawing), Cardinality(Drawing) - 1}
  BY DrawingChange
<1> QED BY <1>2, <1>3, <1>4 DEF IdsCounted

LEMMA HoldersFrame ==
  ASSUME Inv, NEW t \in Thread, Other(t),
         \A s \in Alive(cache_) : tables'[s] = tables[s],
         Holds(t)' => tables'[thread'[t].slot].number = thread'[t].number
  PROVE  HoldersTable'
<1> SUFFICES ASSUME NEW u \in Thread, Holds(u)'
             PROVE  tables'[thread'[u].slot].number = thread'[u].number
  BY DEF HoldersTable
<1>1. CASE u # t
  <2>1. thread'[u] = thread[u] /\ Holds(u)
    BY <1>1 DEF Other, Holds
  <2> QED BY <2>1, HolderIs
<1> QED BY <1>1

(* An idle thread finds the table in the cache.                            *)
LEMMA FindHitStep ==
  ASSUME Inv, NEW t \in Thread, At(t, "idle"), NEW fn \in {"Get", "NewIterator"},
         NEW n \in FileNumber, FindHit(t, fn, n),
         UNCHANGED <<fileVars, block_cache, last_id_, tables>>
  PROVE  Inv'
<1>1. PICK s \in WithKey(cache_, TableKey(n)) :
        /\ cache_' = LookupHit(cache_, s)
        /\ Goto(t, [Idle EXCEPT !.pc = "found", !.fn = fn, !.number = n, !.slot = s])
  BY DEF FindHit
<1>2. IsCache(cache_, Slot)
  BY DEF Inv, Types
<1>3. s \in InMap(cache_) /\ s \in Slot /\ s \in Alive(cache_) /\ cache_.key[s] = TableKey(n)
  <2>1. Shard(TableKey(n)) \in Shards
    BY TableCacheAssumption DEF TableKey, Shards
  <2>2. s \in InMap(cache_)
    BY <2>1 DEF WithKey, InMap, Shards
  <2> QED BY <1>2, <2>2, CacheIs DEF WithKey
<1>4. /\ IsCache(cache_', Slot) /\ Alive(cache_') = Alive(cache_) /\ cache_'.key = cache_.key
      /\ cache_'.held = [cache_.held EXCEPT ![s] = @ + 1]
      /\ \A i \in Shards : Len(cache_'.order[i]) = Len(cache_.order[i])
  BY <1>1, <1>2, <1>3, LookupHitIs
<1> DEFINE next == [Idle EXCEPT !.pc = "found", !.fn = fn, !.number = n, !.slot = s]
<1>5. /\ next \in ThreadState /\ next.pc = "found" /\ next.number = n /\ next.slot = s
      /\ next.block = NoBlock /\ next.doomed = {} /\ next.then = "idle"
  <2>1. next = [Idle EXCEPT !.pc = "found", !.fn = fn, !.number = n, !.slot = s]
    OBVIOUS
  <2> HIDE DEF next
  <2> QED BY <1>3, <2>1, IdleIs DEF ThreadState, PC
<1>6. thread' \in [Thread -> ThreadState] /\ thread'[t] = next /\ Other(t)
  BY <1>1, <1>5, GotoIs DEF Inv, Other
<1> HIDE DEF next
<1>7. /\ thread[t].pc = "idle" /\ thread[t].doomed = {} /\ thread[t].then = "idle"
      /\ thread[t].slot = NoSlot /\ thread[t].block = NoBlock
  BY DEF At, Inv, TablesInv, BlocksInv, Threads_, ThreadBlocks, ThreadBlock, Opens, Holds, Reads
<1>8. /\ Holds(t)' /\ ~Opens(t)' /\ ~Holds(t) /\ ~Opens(t)
      /\ \A u \in Thread \ {t} : (Opens(u)' <=> Opens(u)) /\ (Holds(u)' <=> Holds(u))
  BY <1>5, <1>6, <1>7 DEF Holds, Opens, Other
<1>a. Permits' /\ Types'
  BY <1>4, <1>6 DEF Inv, Types, Permits, PermitsExact, FilesTypeOK, HasMmapPermit, HasFdPermit,
                    Mapped, KeptOpen, In, fileVars, ATable
<1>b. BlocksInv' /\ UniqueIds'
  BY <1>5, <1>6, <1>7, BlocksFrame, CachedBlocksFrame DEF NoReader, BlocksInv, fileVars
<1>c. Threads_'
  BY <1>3, <1>5, <1>6, <1>8 DEF Threads_, Inv, TablesInv, Other
<1>d. OpeningOwns'
  <2> SUFFICES ASSUME NEW u \in Thread, Opens(u)' PROVE OwnsSlot(u)'
    BY DEF OpeningOwns
  <2>1. u # t /\ Opens(u) /\ thread[u].slot \notin Alive(cache_)
    BY <1>8 DEF Inv, TablesInv, OpeningOwns, OwnsSlot
  <2> QED BY <1>3, <1>4, <1>5, <1>6, <2>1, OpeningFrame DEF fileVars, Inv, Types
<1>e. CacheOwns'
  BY <1>4 DEF CacheOwns, Inv, TablesInv, fileVars, ATable
<1>f. DeleterOwns'
  BY <1>4, <1>5, <1>6 DEF DeleterOwns, OwnsDoomed, Inv, TablesInv, fileVars, Other
<1>g. NothingLeft'
  BY <1>4, <1>6, <1>7, <1>8 DEF NothingLeft, Owned, Inv, TablesInv, fileVars, Other
<1>h. HeldCounted'
  <2> SUFFICES ASSUME NEW r \in Slot PROVE cache_'.held[r] = Cardinality(Holders(r))'
    BY DEF HeldCounted
  <2>1. cache_.held \in [Slot -> Nat] /\ cache_.held[r] = Cardinality(Holders(r))
    BY <1>2 DEF IsCache, Inv, TablesInv, HeldCounted
  <2> QED BY <1>3, <1>4, <1>5, <1>6, <1>8, <2>1, HoldersChange
<1>i. IdsCounted'
  <2>1. ~Draws(t) /\ ~Draws(t)'
    BY <1>5, <1>6, <1>7 DEF Draws
  <2> QED BY <1>6, <2>1, DrawingChange DEF Inv, TablesInv, IdsCounted
<1>j. HoldersTable'
  <2>1. tables[s].number = n
    BY <1>3 DEF Inv, TablesInv, CacheOwns, TableKey
  <2> QED BY <1>5, <1>6, <1>8, <2>1 DEF HoldersTable, Inv, TablesInv, Other
<1>k. Within(cache_, entries)'
  BY <1>4 DEF Within, Inv, TablesInv
<1> QED BY <1>a, <1>b, <1>c, <1>d, <1>e, <1>f, <1>g, <1>h, <1>i, <1>j, <1>k DEF Inv, TablesInv

LEMMA IdleThread ==
  ASSUME Inv, NEW t \in Thread, At(t, "idle")
  PROVE  /\ thread[t].pc = "idle" /\ thread[t].doomed = {} /\ thread[t].then = "idle"
         /\ thread[t].slot = NoSlot /\ NoReader(thread[t])
         /\ ~Holds(t) /\ ~Opens(t) /\ ~Draws(t)
BY DEF At, Inv, TablesInv, BlocksInv, Threads_, ThreadBlocks, ThreadBlock, Opens, Draws, Holds, Reads,
       NoReader

(* Or not, and is given memory for a file object.                          *)
LEMMA FindMissStep ==
  ASSUME Inv, NEW t \in Thread, At(t, "idle"), NEW fn \in {"Get", "NewIterator"},
         NEW n \in FileNumber, FindMiss(t, fn, n),
         UNCHANGED <<fileVars, block_cache, last_id_, tables>>
  PROVE  Inv'
<1>1. PICK s \in Slot :
        /\ FreeSlot(s)
        /\ Goto(t, [Idle EXCEPT !.pc = "open", !.fn = fn, !.number = n, !.names = 2, !.slot = s])
  BY DEF FindMiss
<1>2. IdsLeft /\ cache_' = cache_
  BY DEF FindMiss
<1>3. /\ s \notin Alive(cache_) /\ stage[s] = "none" /\ tables[s] = NoTable
      /\ \A u \in Thread : s \notin thread[u].doomed /\ thread[u].slot # s
  BY <1>1, FreeIs
<1> DEFINE next == [Idle EXCEPT !.pc = "open", !.fn = fn, !.number = n, !.names = 2, !.slot = s]
<1>4. /\ next \in ThreadState /\ next.pc = "open" /\ next.number = n /\ next.slot = s
      /\ next.block = NoBlock /\ next.doomed = {} /\ next.then = "idle"
  <2> DEFINE first == [Idle EXCEPT !.pc = "open", !.fn = fn, !.names = 2]
  <2>1. first = [Idle EXCEPT !.pc = "open", !.fn = fn, !.names = 2]
    OBVIOUS
  <2>2. next = [first EXCEPT !.number = n, !.slot = s]
    BY DEF Idle
  <2> HIDE DEF first, next
  <2>3. /\ first \in ThreadState /\ first.pc = "open" /\ first.block = NoBlock
        /\ first.doomed = {} /\ first.then = "idle"
    <3>1. 2 \in 0 .. 2 /\ "open" \in PC /\ fn \in {"none", "Get", "NewIterator"}
      BY DEF PC
    <3> QED BY <2>1, <3>1, IdleIs DEF ThreadState
  <2> QED BY <2>2, <2>3 DEF ThreadState
<1>5. thread' \in [Thread -> ThreadState] /\ thread'[t] = next /\ Other(t)
  BY <1>1, <1>4, GotoIs DEF Inv, Other
<1> HIDE DEF next
<1>6. /\ thread[t].doomed = {} /\ NoReader(thread[t]) /\ NoReader(thread'[t])
      /\ ~Holds(t) /\ ~Opens(t) /\ ~Draws(t) /\ ~Holds(t)' /\ Opens(t)' /\ Draws(t)'
      /\ \A u \in Thread \ {t} : (Opens(u)' <=> Opens(u)) /\ (Holds(u)' <=> Holds(u))
  BY <1>4, <1>5, IdleThread DEF NoReader, Holds, Opens, Draws, Other
<1>a. Permits' /\ Types'
  BY <1>2, <1>5, FilesFrame, TypesFrame DEF Inv, Types
<1>b. BlocksInv' /\ UniqueIds'
  BY <1>5, <1>6, BlocksFrame, CachedBlocksFrame DEF BlocksInv, fileVars
<1>c. Threads_'
  BY <1>4, <1>5, <1>6 DEF Threads_, Inv, TablesInv, Other
<1>d. OpeningOwns'
  <2> SUFFICES ASSUME NEW u \in Thread, Opens(u)' PROVE OwnsSlot(u)'
    BY DEF OpeningOwns
  <2>1. CASE u = t
    <3>1. OpeningStage(t)'
      BY <1>3, <1>4, <1>5 DEF OpeningStage, fileVars
    <3>2. \A v \in Thread : /\ s \notin thread'[v].doomed
                            /\ thread'[v].slot = s => v = t
      BY <1>3, <1>4, <1>5 DEF Other
    <3> QED BY <1>2, <1>3, <1>4, <1>5, <2>1, <3>1, <3>2 DEF OwnsSlot
  <2>2. CASE u # t
    <3>1. Opens(u) /\ thread[u].slot \notin Alive(cache_) /\ thread[u].slot # s
      BY <1>3, <1>6, <2>2 DEF Inv, TablesInv, OpeningOwns, OwnsSlot
    <3> QED BY <1>2, <1>4, <1>5, <2>2, <3>1, OpeningFrame DEF fileVars, Inv, Types
  <2> QED BY <2>1, <2>2
<1>e. CacheOwns' /\ Within(cache_, entries)'
  BY <1>2 DEF CacheOwns, Within, Inv, TablesInv, fileVars, ATable
<1>f. DeleterOwns'
  BY <1>2, <1>4, <1>5 DEF DeleterOwns, OwnsDoomed, Inv, TablesInv, fileVars, Other
<1>g. NothingLeft'
  BY <1>2, <1>5, <1>6 DEF NothingLeft, Owned, Inv, TablesInv, fileVars, Other
<1>h. HeldCounted' /\ HoldersTable'
  BY <1>2, <1>5, <1>6, HeldFrame, HoldersFrame
<1>i. IdsCounted'
  <2>1. Cardinality(Drawing)' = Cardinality(Drawing) + 1
    BY <1>5, <1>6, DrawingChange
  <2>2. last_id_ + Cardinality(Drawing) < MaxId
    BY <1>2 DEF IdsLeft, Drawing, Draws
  <2>3. Cardinality(Drawing) \in Nat /\ last_id_ \in Nat /\ MaxId \in Nat
    BY ThreadsFinite, TableCacheAssumption DEF Drawing, Inv, Types
  <2> QED BY <2>1, <2>2, <2>3 DEF IdsCounted
<1> QED BY <1>a, <1>b, <1>c, <1>d, <1>e, <1>f, <1>g, <1>h, <1>i DEF Inv, TablesInv

(* A call goes on opening its file, or gives up.                           *)
LEMMA OpenerStep ==
  ASSUME Inv, NEW t \in Thread, Draws(t), NEW next \in ThreadState, Goto(t, next),
         NEW s, s = thread[t].slot, Permits',
         \A r \in Slot \ {s} : stage'[r] = stage[r],
         \/ /\ next.pc \in {"open", "opening", "opened"}
            /\ next.slot = s /\ next.number = thread[t].number
            /\ next.block = NoBlock /\ next.doomed = {} /\ next.then = "idle"
            /\ next.pc = "open" => stage'[s] = "none"
            /\ next.pc = "opening" =>
                 stage'[s] \notin {"none", "unmapped", "closed"} \cup FileStage
            /\ next.pc = "opened" => stage'[s] \in FileStage
         \/ next = Idle /\ stage'[s] = "none",
         UNCHANGED <<cache_, block_cache, last_id_, tables>>
  PROVE  Inv'
<1>1. thread' \in [Thread -> ThreadState] /\ thread'[t] = next /\ Other(t)
  BY GotoIs DEF Inv, Other
<1>2. /\ s \in Slot /\ thread[t].number \in FileNumber /\ thread[t].doomed = {}
      /\ Opens(t) /\ ~Holds(t) /\ s # NoSlot /\ NoReader(thread[t])
  BY TableCacheAssumption
     DEF Draws, Opens, Holds, NoReader, Reads, NoSlot, Inv, TablesInv, BlocksInv, Threads_,
         ThreadBlocks, ThreadBlock
<1>3. /\ s \notin Alive(cache_) /\ tables[s] = NoTable
      /\ \A u \in Thread : s \notin thread[u].doomed /\ (thread[u].slot = s => u = t)
  BY <1>2 DEF Draws, Inv, TablesInv, OpeningOwns, OwnsSlot, OpeningStage
<1>4. /\ ~Holds(t)' /\ NoReader(thread'[t]) /\ next.doomed = {}
      /\ Opens(t)' <=> next # Idle
      /\ \A u \in Thread \ {t} : (Opens(u)' <=> Opens(u)) /\ (Holds(u)' <=> Holds(u))
  BY <1>1, IdleIs DEF NoReader, Holds, Opens, Draws, Other
<1>a. Permits' /\ Types'
  BY <1>1, TypesFrame DEF Inv, Types
<1>b. BlocksInv' /\ UniqueIds'
  <2>1. \A r \in Alive(cache_) : stage'[r] = stage[r]
    BY <1>3, CacheIs DEF Inv, Types
  <2> QED BY <1>1, <1>2, <1>4, <2>1, BlocksFrame, CachedBlocksFrame DEF BlocksInv
<1>c. Threads_'
  BY <1>1, <1>2, <1>4, IdleIs DEF Threads_, Inv, TablesInv, Other, Opens
<1>d. OpeningOwns'
  <2> SUFFICES ASSUME NEW u \in Thread, Opens(u)' PROVE OwnsSlot(u)'
    BY DEF OpeningOwns
  <2>1. CASE u = t
    <3>0. next # Idle
      BY <1>4, <2>1
    <3>1. OpeningStage(t)'
      BY <1>1, <1>3, <3>0 DEF OpeningStage
    <3>2. \A v \in Thread : /\ s \notin thread'[v].doomed
                            /\ thread'[v].slot = s => v = t
      BY <1>1, <1>3, <1>4 DEF Other
    <3> QED BY <1>1, <1>3, <2>1, <3>0, <3>1, <3>2 DEF OwnsSlot
  <2>2. CASE u # t
    <3>1. Opens(u) /\ thread[u].slot \notin Alive(cache_) /\ thread[u].slot # s
          /\ thread[u].slot \in Slot
      BY <1>3, <1>4, <2>2 DEF Inv, TablesInv, Threads_, OpeningOwns, OwnsSlot
    <3>2. next.slot \in {s, NoSlot} /\ NoSlot \notin Slot
      BY IdleIs, TableCacheAssumption DEF NoSlot
    <3> QED BY <1>1, <1>4, <2>2, <3>1, <3>2, OpeningFrame DEF Inv, Types
  <2> QED BY <2>1, <2>2
<1>e. CacheOwns' /\ Within(cache_, entries)'
  <2>1. \A r \in Alive(cache_) : r \in Slot /\ r # s
    BY <1>3, CacheIs DEF Inv, Types
  <2> QED BY <2>1 DEF CacheOwns, Within, Inv, TablesInv, ATable
<1>f. DeleterOwns'
  <2> SUFFICES ASSUME NEW u \in Thread, NEW r \in thread'[u].doomed PROVE OwnsDoomed(u, r)'
    BY DEF DeleterOwns
  <2>1. u # t /\ r \in thread[u].doomed /\ r # s /\ r \in Slot
    BY <1>1, <1>3, <1>4, ThreadTyped DEF Other, Inv
  <2>2. r \notin Alive(cache_)
    BY <2>1 DEF Inv, TablesInv, DeleterOwns, OwnsDoomed
  <2> QED BY <1>1, <1>4, <2>1, <2>2, DeleterFrame
<1>g. NothingLeft'
  <2> SUFFICES ASSUME NEW r \in Slot, stage'[r] # "none" \/ tables'[r] # NoTable PROVE Owned(r)'
    BY DEF NothingLeft
  <2>1. CASE r = s
    <3>1. stage'[s] # "none"
      BY <1>3, <2>1
    <3>2. thread'[t].slot = s /\ thread'[t].pc \in {"open", "opening", "opened"}
      BY <1>1, <3>1
    <3> QED BY <2>1, <3>2 DEF Owned, Opens
  <2>2. CASE r # s
    <3>1. Owned(r)
      BY <2>2 DEF Inv, TablesInv, NothingLeft
    <3> QED BY <1>1, <1>2, <1>4, <2>2, <3>1 DEF Owned, Other
  <2> QED BY <2>1, <2>2
<1>h. HeldCounted' /\ HoldersTable' /\ IdsCounted'
  BY <1>1, <1>2, <1>4, HeldFrame, HoldersFrame, IdsFrame
<1> QED BY <1>a, <1>b, <1>c, <1>d, <1>e, <1>f, <1>g, <1>h DEF Inv, TablesInv

LEMMA NotOpenedIs ==
  ASSUME Inv, NEW t \in Thread, Draws(t)
  PROVE  LET next == NotOpened(thread[t])
         IN  /\ next \in ThreadState
             /\ \/ next = Idle
                \/ /\ next.pc = "open" /\ next.slot = thread[t].slot
                   /\ next.number = thread[t].number /\ next.block = thread[t].block
                   /\ next.doomed = thread[t].doomed /\ next.then = thread[t].then
<1> DEFINE next == [thread[t] EXCEPT !.pc = "open", !.names = 1]
<1>1. next = [thread[t] EXCEPT !.pc = "open", !.names = 1]
  OBVIOUS
<1> HIDE DEF next
<1>2. 1 \in 0 .. 2 /\ "open" \in PC /\ thread[t] \in ThreadState
  BY ThreadTyped DEF PC, Inv
<1>3. /\ next \in ThreadState
      /\ next.pc = "open" /\ next.slot = thread[t].slot
      /\ next.number = thread[t].number /\ next.block = thread[t].block
      /\ next.doomed = thread[t].doomed /\ next.then = thread[t].then
  BY <1>1, <1>2 DEF ThreadState
<1>4. NotOpened(thread[t]) \in {next, Idle}
  BY <1>1 DEF NotOpened
<1> QED BY <1>3, <1>4, IdleIs

LEMMA DrawingThread ==
  ASSUME Inv, NEW t \in Thread, Draws(t)
  PROVE  /\ thread[t].slot \in Slot /\ thread[t].block = NoBlock
         /\ thread[t].doomed = {} /\ thread[t].then = "idle" /\ OpeningStage(t)
         /\ thread[t] \in ThreadState
BY ThreadTyped DEF Draws, Opens, Reads, Inv, TablesInv, BlocksInv, Threads_, ThreadBlocks, ThreadBlock,
                   OpeningOwns, OwnsSlot

LEMMA OpenFileStep ==
  ASSUME Inv, NEW t \in Thread, OpenFile(t)
  PROVE  Inv'
<1> DEFINE s == thread[t].slot
<1>1. /\ thread[t].pc = "open" /\ Draws(t)
      /\ UNCHANGED <<cache_, block_cache, last_id_, tables>>
  BY DEF OpenFile, At, Draws
<1>2. /\ s \in Slot /\ thread[t].block = NoBlock /\ thread[t].doomed = {}
      /\ thread[t].then = "idle" /\ stage[s] = "none" /\ thread[t] \in ThreadState
      /\ stage \in [Slot -> Stage] /\ Permits
  BY <1>1, DrawingThread DEF OpeningStage, Inv, Permits, PermitsExact, FilesTypeOK
<1>3. CASE Open(s) /\ Goto(t, [thread[t] EXCEPT !.pc = "opening"])
  <2> DEFINE next == [thread[t] EXCEPT !.pc = "opening"]
  <2>1. next = [thread[t] EXCEPT !.pc = "opening"] /\ "opening" \in PC
    BY DEF PC
  <2> HIDE DEF next
  <2>2. /\ next \in ThreadState /\ next.pc = "opening" /\ next.slot = s
        /\ next.number = thread[t].number /\ next.block = NoBlock /\ next.doomed = {}
        /\ next.then = "idle"
    BY <1>2, <2>1, StateKept
  <2>3. stage'[s] = "opened" /\ \A r \in Slot \ {s} : stage'[r] = stage[r]
    BY <1>2, <1>3 DEF Open, Move
  <2>4. Permits'
    BY <1>2, <1>3, FileStepPermits DEF FileStep
  <2> QED BY <1>1, <1>3, <2>1, <2>2, <2>3, <2>4, OpenerStep DEF FileStage
<1>4. CASE UNCHANGED fileVars /\ Goto(t, NotOpened(thread[t]))
  <2> DEFINE next == NotOpened(thread[t])
  <2>1. /\ next \in ThreadState
        /\ \/ next = Idle
           \/ /\ next.pc = "open" /\ next.slot = s
              /\ next.number = thread[t].number /\ next.block = NoBlock
              /\ next.doomed = {} /\ next.then = "idle"
    BY <1>1, <1>2, NotOpenedIs
  <2>2. Goto(t, next)
    BY <1>4
  <2> HIDE DEF next
  <2>3. Permits' /\ stage' = stage
    BY <1>2, <1>4, FilesFrame DEF fileVars
  <2> QED BY <1>1, <1>2, <2>1, <2>2, <2>3, OpenerStep
<1> QED BY <1>3, <1>4 DEF OpenFile

(* A step of NewRandomAccessFile() after open().                           *)
LEMMA FinishOpeningMoves ==
  ASSUME stage \in [Slot -> Stage], NEW s \in Slot, FinishOpening(s)
  PROVE  /\ \A r \in Slot \ {s} : stage'[r] = stage[r]
         /\ stage'[s] \notin {"unmapped", "closed"}
BY DEF FinishOpening, AcquireMmap, ReturnMmap, AcquireFd, ReturnFd, CloseSurplus, Map, CloseMapped,
       ReleaseFailed, Move

LEMMA NewRandomAccessFileStep ==
  ASSUME Inv, NEW t \in Thread, NewRandomAccessFile(t)
  PROVE  Inv'
<1> DEFINE s == thread[t].slot
<1>1. /\ thread[t].pc = "opening" /\ Draws(t) /\ FinishOpening(s)
      /\ Goto(t, IF stage'[s] = "none" THEN NotOpened(thread[t])
                 ELSE IF stage'[s] \in FileStage THEN [thread[t] EXCEPT !.pc = "opened"]
                 ELSE thread[t])
      /\ UNCHANGED <<cache_, block_cache, last_id_, tables>>
  BY DEF NewRandomAccessFile, At, Draws
<1>2. /\ s \in Slot /\ thread[t].block = NoBlock /\ thread[t].doomed = {}
      /\ thread[t].then = "idle" /\ thread[t] \in ThreadState
      /\ stage \in [Slot -> Stage] /\ Permits
  BY <1>1, DrawingThread DEF Inv, Permits, PermitsExact, FilesTypeOK
<1>3. /\ Permits' /\ stage'[s] \notin {"unmapped", "closed"}
      /\ \A r \in Slot \ {s} : stage'[r] = stage[r]
  BY <1>1, <1>2, FileStepPermits, FinishOpeningMoves DEF FileStep
<1>4. CASE stage'[s] = "none"
  <2> DEFINE next == NotOpened(thread[t])
  <2>1. /\ next \in ThreadState
        /\ \/ next = Idle
           \/ /\ next.pc = "open" /\ next.slot = s
              /\ next.number = thread[t].number /\ next.block = NoBlock
              /\ next.doomed = {} /\ next.then = "idle"
    BY <1>1, <1>2, NotOpenedIs
  <2>2. Goto(t, next)
    BY <1>1, <1>4
  <2> HIDE DEF next
  <2> QED BY <1>1, <1>3, <1>4, <2>1, <2>2, OpenerStep
<1>5. CASE stage'[s] \in FileStage
  <2> DEFINE next == [thread[t] EXCEPT !.pc = "opened"]
  <2>1. next = [thread[t] EXCEPT !.pc = "opened"] /\ "opened" \in PC
    BY DEF PC
  <2>2. Goto(t, next)
    BY <1>1, <1>5 DEF FileStage
  <2> HIDE DEF next
  <2>3. /\ next \in ThreadState /\ next.pc = "opened" /\ next.slot = s
        /\ next.number = thread[t].number /\ next.block = NoBlock /\ next.doomed = {}
        /\ next.then = "idle"
    BY <1>2, <2>1, StateKept
  <2> QED BY <1>1, <1>3, <1>5, <2>2, <2>3, OpenerStep
<1>6. CASE stage'[s] # "none" /\ stage'[s] \notin FileStage
  <2>1. Goto(t, thread[t])
    BY <1>1, <1>6
  <2> QED BY <1>1, <1>2, <1>3, <1>6, <2>1, OpenerStep
<1> QED BY <1>4, <1>5, <1>6

(* The table is read: it draws the next id of the block cache.             *)
LEMMA OpenTableStep ==
  ASSUME Inv, NEW t \in Thread, OpenTable(t)
  PROVE  Inv'
<1> DEFINE s == thread[t].slot
           new == [number |-> thread[t].number, cache_id |-> last_id_ + 1]
           next == [thread[t] EXCEPT !.pc = "insert"]
<1>1. /\ thread[t].pc = "opened" /\ Draws(t) /\ Opens(t)
      /\ tables' = [tables EXCEPT ![s] = new] /\ last_id_' = last_id_ + 1
      /\ Goto(t, next) /\ UNCHANGED <<fileVars, cache_, block_cache>>
  BY DEF OpenTable, NewId, At, Draws, Opens, Holds
<1>2. /\ s \in Slot /\ thread[t].block = NoBlock /\ thread[t].doomed = {}
      /\ thread[t].then = "idle" /\ stage[s] \in FileStage /\ tables[s] = NoTable
      /\ thread[t] \in ThreadState
  BY <1>1, DrawingThread DEF OpeningStage
<1>3. /\ s \notin Alive(cache_) /\ thread[t].number \in FileNumber
      /\ \A u \in Thread : s \notin thread[u].doomed /\ (thread[u].slot = s => u = t)
  BY <1>1 DEF Inv, TablesInv, OpeningOwns, OwnsSlot, Threads_
<1>4. /\ next \in ThreadState /\ next.pc = "insert" /\ next.slot = s
      /\ next.number = thread[t].number /\ next.block = NoBlock /\ next.doomed = {}
      /\ next.then = "idle"
  <2>1. next = [thread[t] EXCEPT !.pc = "insert"] /\ "insert" \in PC
    BY DEF PC
  <2> HIDE DEF next
  <2> QED BY <1>2, <2>1, StateKept
<1>5. thread' \in [Thread -> ThreadState] /\ thread'[t] = next /\ Other(t)
  BY <1>1, <1>4, GotoIs DEF Inv, Other
<1> HIDE DEF next
<1>6. /\ NoReader(thread[t]) /\ NoReader(thread'[t]) /\ ~Holds(t) /\ ~Holds(t)' /\ Opens(t)'
      /\ Draws(t) /\ ~Draws(t)'
      /\ \A u \in Thread \ {t} : (Opens(u)' <=> Opens(u)) /\ (Holds(u)' <=> Holds(u))
  BY <1>1, <1>2, <1>4, <1>5 DEF NoReader, Holds, Opens, Draws, Other
<1>7. /\ last_id_ \in Nat /\ last_id_' \in Nat /\ last_id_ <= last_id_'
      /\ \A id \in 1 .. last_id_ : id \in 1 .. last_id_' /\ id # last_id_ + 1
      /\ last_id_ + 1 \in 1 .. last_id_' /\ last_id_ + 1 # 0
  BY <1>1 DEF Inv, Types
<1>8. /\ new.number = thread[t].number /\ new.cache_id = last_id_ + 1
      /\ new \in [number : Nat, cache_id : Nat]
      /\ new \in [number : FileNumber, cache_id : 1 .. last_id_'] /\ new # NoTable
  BY <1>3, <1>7, TableCacheAssumption DEF NoTable
<1>9. /\ tables \in [Slot -> [number : Nat, cache_id : Nat]]
      /\ tables'[s] = new /\ \A r \in Slot \ {s} : tables'[r] = tables[r]
  BY <1>1, <1>2 DEF Inv, Types
<1> HIDE DEF new
<1>10. \A r \in Slot \ {s} : ATable(r) => ATable(r)'
  BY <1>7, <1>9 DEF ATable
<1>11. \A r \in Alive(cache_) : r \in Slot /\ r # s
  BY <1>3, CacheIs DEF Inv, Types
<1>a. Permits' /\ Types'
  <2>1. \A r \in Slot : tables'[r] = NoTable \/ ATable(r)'
    BY <1>8, <1>9, <1>10 DEF Inv, Types, ATable
  <2>2. tables' \in [Slot -> [number : Nat, cache_id : Nat]]
    BY <1>1, <1>8, <1>9
  <2> QED BY <1>1, <1>5, <1>7, <2>1, <2>2, FilesFrame DEF Inv, Types
<1>b. BlocksCounted' /\ ThreadBlocks'
  BY <1>1, <1>5, <1>6, BlocksFrame DEF fileVars
<1>c. CachedBlocks'
  <2> SUFFICES ASSUME NEW h \in Alive(block_cache) PROVE CachedBlock(h)'
    BY <1>1 DEF CachedBlocks
  <2>1. block_cache.key[h][1] \in 1 .. last_id_
    BY DEF Inv, BlocksInv, CachedBlocks, CachedBlock
  <2> QED BY <1>1, <1>7, <1>8, <1>9, <2>1 DEF Inv, BlocksInv, CachedBlocks, CachedBlock
<1>d. UniqueIds'
  <2>1. \A r \in Slot \ {s} : tables'[r].cache_id # last_id_ + 1
    BY <1>7, <1>9 DEF Inv, Types, ATable, NoTable
  <2> QED BY <1>8, <1>9, <2>1 DEF Inv, TablesInv, UniqueIds
<1>e. Threads_'
  BY <1>2, <1>3, <1>4, <1>5, <1>6 DEF Threads_, Inv, TablesInv, Other
<1>f. OpeningOwns'
  <2> SUFFICES ASSUME NEW u \in Thread, Opens(u)' PROVE OwnsSlot(u)'
    BY DEF OpeningOwns
  <2>1. CASE u = t
    <3>1. OpeningStage(t)'
      BY <1>1, <1>2, <1>4, <1>5, <1>8, <1>9 DEF OpeningStage, ATable, fileVars
    <3>2. \A v \in Thread : s \notin thread'[v].doomed /\ (thread'[v].slot = s => v = t)
      BY <1>3, <1>4, <1>5 DEF Other
    <3> QED BY <1>1, <1>3, <1>4, <1>5, <2>1, <3>1, <3>2 DEF OwnsSlot
  <2>2. CASE u # t
    <3>1. /\ Opens(u) /\ thread[u].slot \notin Alive(cache_) /\ thread[u].slot # s
          /\ thread[u].slot \in Slot
      BY <1>3, <1>6, <2>2 DEF Inv, TablesInv, Threads_, OpeningOwns, OwnsSlot
    <3> QED BY <1>1, <1>4, <1>5, <1>7, <1>9, <2>2, <3>1, OpeningFrame DEF fileVars
  <2> QED BY <2>1, <2>2
<1>g. CacheOwns' /\ Within(cache_, entries)'
  BY <1>1, <1>9, <1>10, <1>11 DEF CacheOwns, Within, Inv, TablesInv, fileVars
<1>h. DeleterOwns'
  <2> SUFFICES ASSUME NEW u \in Thread, NEW r \in thread'[u].doomed PROVE OwnsDoomed(u, r)'
    BY DEF DeleterOwns
  <2>1. u # t /\ r \in thread[u].doomed /\ r # s /\ r \in Slot
    BY <1>3, <1>4, <1>5, ThreadTyped DEF Other, Inv
  <2>2. r \notin Alive(cache_)
    BY <2>1 DEF Inv, TablesInv, DeleterOwns, OwnsDoomed
  <2> QED BY <1>1, <1>4, <1>5, <1>9, <2>1, <2>2, DeleterFrame DEF fileVars
<1>i. NothingLeft'
  <2> SUFFICES ASSUME NEW r \in Slot, stage'[r] # "none" \/ tables'[r] # NoTable PROVE Owned(r)'
    BY DEF NothingLeft
  <2>1. CASE r = s
    BY <1>4, <1>5, <1>6, <2>1 DEF Owned
  <2>2. CASE r # s
    <3>1. Owned(r)
      BY <1>1, <1>9, <2>2 DEF Inv, TablesInv, NothingLeft, fileVars
    <3> QED BY <1>1, <1>2, <1>5, <1>6, <2>2, <3>1 DEF Owned, Other
  <2> QED BY <2>1, <2>2
<1>j. HeldCounted' /\ HoldersTable'
  BY <1>1, <1>5, <1>6, <1>9, <1>11, HeldFrame, HoldersFrame
<1>k. IdsCounted'
  <2>1. Cardinality(Drawing)' = Cardinality(Drawing) - 1
    BY <1>5, <1>6, DrawingChange
  <2>2. Cardinality(Drawing) \in Nat /\ MaxId \in Nat
    BY ThreadsFinite, TableCacheAssumption DEF Drawing
  <2> QED BY <1>1, <1>7, <2>1, <2>2 DEF IdsCounted, Inv, TablesInv
<1> QED BY <1>a, <1>b, <1>c, <1>d, <1>e, <1>f, <1>g, <1>h, <1>i, <1>j, <1>k DEF Inv, TablesInv, BlocksInv

-----------------------------------------------------------------------------
(* Steps that doom tables                                                  *)

LEMMA AfterDeletingIs ==
  ASSUME NEW th \in ThreadState, th.doomed = {}, th.pc \in {"idle", "found"}, th.then = "idle",
         NEW D \in SUBSET Slot, NEW L \in SUBSET Shards
  PROVE  LET next == AfterDeleting(th, D, L)
         IN  /\ next \in ThreadState /\ next.slot = th.slot /\ next.number = th.number
             /\ next.block = th.block /\ next.doomed = D
             /\ D = {} => next.pc = th.pc /\ next.then = "idle"
             /\ D # {} => next.pc = "deleting" /\ next.then = th.pc
<1>1. CASE D = {}
  BY <1>1 DEF AfterDeleting
<1>2. CASE D # {}
  <2> DEFINE first == [th EXCEPT !.pc = "deleting", !.then = th.pc]
             next == AfterDeleting(th, D, L)
  <2>1. first = [th EXCEPT !.pc = "deleting", !.then = th.pc] /\ "deleting" \in PC
    BY DEF PC
  <2>2. next = [th EXCEPT !.pc = "deleting", !.doomed = D, !.locked = L, !.then = th.pc]
    BY <1>2 DEF AfterDeleting
  <2>3. next = [first EXCEPT !.doomed = D, !.locked = L]
    <3> HIDE DEF next
    <3> QED BY <2>2 DEF ThreadState
  <2> HIDE DEF first, next
  <2>4. /\ first \in ThreadState /\ first.pc = "deleting" /\ first.then = th.pc
        /\ first.slot = th.slot /\ first.number = th.number /\ first.block = th.block
    BY <2>1 DEF ThreadState
  <2>5. /\ next \in ThreadState /\ next.pc = "deleting" /\ next.then = th.pc
        /\ next.slot = th.slot /\ next.number = th.number /\ next.block = th.block
        /\ next.doomed = D
    BY <2>3, <2>4 DEF ThreadState
  <2> QED BY <1>2, <2>5 DEF next
<1> QED BY <1>1, <1>2

(* The tables of the cache and the one that a call has opened are, after   *)
(* the step, in the cache or in the hands of the call's deleters.          *)
Handled(t) == Alive(cache_) \cup IF Opens(t) THEN {thread[t].slot} ELSE {}

LEMMA DoomStep ==
  ASSUME Inv, NEW t \in Thread, NEW th \in ThreadState, NEW D \in SUBSET Slot,
         NEW L \in SUBSET Shards, Goto(t, AfterDeleting(th, D, L)),
         thread[t].pc \notin {"open", "opening"}, thread[t].doomed = {}, NoReader(thread[t]),
         th.doomed = {}, th.then = "idle", th.block = NoBlock,
         \/ th.pc = "idle" /\ th.slot = NoSlot
         \/ /\ th.pc = "found" /\ th.slot \in Handled(t) /\ th.number \in FileNumber
            /\ tables[th.slot].number = th.number,
         Alive(cache_') \cup D = Handled(t), Alive(cache_') \cap D = {},
         \A s \in Alive(cache_') : ATable(s) /\ cache_'.key[s] = TableKey(tables[s].number),
         IsCache(cache_', Slot), Within(cache_', entries),
         (Holds(t)' <=> th.pc = "found") /\ thread'[t].slot = th.slot => HeldCounted',
         UNCHANGED <<fileVars, block_cache, last_id_, tables>>
  PROVE  Inv'
<1> DEFINE next == AfterDeleting(th, D, L)
<1>1. /\ next \in ThreadState /\ next.slot = th.slot /\ next.number = th.number
      /\ next.block = NoBlock /\ next.doomed = D
      /\ D = {} => next.pc = th.pc /\ next.then = "idle"
      /\ D # {} => next.pc = "deleting" /\ next.then = th.pc
  BY AfterDeletingIs
<1>2. thread' \in [Thread -> ThreadState] /\ thread'[t] = next /\ Other(t)
  BY <1>1, GotoIs DEF Inv, Other
<1> HIDE DEF next
<1>3. /\ NoReader(thread'[t]) /\ ~Opens(t)' /\ ~Draws(t)'
      /\ Holds(t)' <=> th.pc = "found"
      /\ \A u \in Thread \ {t} : (Opens(u)' <=> Opens(u)) /\ (Holds(u)' <=> Holds(u))
  BY <1>1, <1>2 DEF NoReader, Holds, Opens, Draws, Other
<1>4. Alive(cache_) \subseteq Slot /\ Alive(cache_') \subseteq Slot
  BY CacheIs DEF Inv, Types
<1>5. \A s \in Handled(t) : s \in Slot /\ stage[s] \in FileStage
  <2>1. \A s \in Alive(cache_) : stage[s] \in FileStage
    BY DEF Inv, TablesInv, CacheOwns
  <2>2. Opens(t) => thread[t].slot \in Slot /\ stage[thread[t].slot] \in FileStage
    BY DEF Opens, Inv, TablesInv, Threads_, OpeningOwns, OwnsSlot, OpeningStage
  <2> QED BY <1>4, <2>1, <2>2 DEF Handled
<1>6. \A u \in Thread \ {t} :
        \A s \in Handled(t) : s \notin thread[u].doomed /\ (Opens(u) => thread[u].slot # s)
  BY DEF Handled, Inv, TablesInv, OpeningOwns, OwnsSlot, DeleterOwns, OwnsDoomed
<1>a. Permits' /\ Types'
  BY <1>2, FilesFrame, TypesFrame DEF Inv
<1>b. BlocksInv' /\ UniqueIds'
  BY <1>2, <1>3, BlocksFrame, CachedBlocksFrame DEF BlocksInv, fileVars
<1>c. Threads_'
  <2> SUFFICES ASSUME NEW u \in Thread
               PROVE  /\ thread'[u].pc = "deleting" <=> thread'[u].doomed # {}
                      /\ thread'[u].pc # "deleting" => thread'[u].then = "idle"
                      /\ IF Opens(u)' \/ Holds(u)'
                           THEN thread'[u].slot \in Slot /\ thread'[u].number \in FileNumber
                           ELSE thread'[u].slot = NoSlot
    BY DEF Threads_
  <2>1. CASE u = t
    BY <1>1, <1>2, <1>3, <1>5, <2>1
  <2>2. CASE u # t
    BY <1>2, <1>3, <2>2 DEF Other, Inv, TablesInv, Threads_
  <2> QED BY <2>1, <2>2
<1>d. OpeningOwns'
  <2> SUFFICES ASSUME NEW u \in Thread, Opens(u)' PROVE OwnsSlot(u)'
    BY DEF OpeningOwns
  <2>1. u # t /\ Opens(u) /\ thread[u].slot \in Slot /\ thread[u].slot \notin Handled(t)
    BY <1>3, <1>6 DEF Inv, TablesInv, Threads_
  <2>2. next.slot # thread[u].slot
    BY <1>1, <2>1, TableCacheAssumption DEF NoSlot
  <2> QED BY <1>1, <1>2, <2>1, <2>2, OpeningFrame DEF fileVars, Inv, Types
<1>e. CacheOwns'
  BY <1>5 DEF CacheOwns, fileVars, ATable
<1>f. DeleterOwns'
  <2> SUFFICES ASSUME NEW u \in Thread, NEW r \in thread'[u].doomed PROVE OwnsDoomed(u, r)'
    BY DEF DeleterOwns
  <2>1. CASE u = t
    <3>1. r \in D /\ r \in Handled(t) /\ r \notin Alive(cache_')
      BY <1>1, <1>2, <2>1
    <3>2. \A v \in Thread : r \in thread'[v].doomed => v = t
      BY <1>2, <1>6, <3>1 DEF Other
    <3> QED BY <1>5, <2>1, <3>1, <3>2 DEF OwnsDoomed, fileVars
  <2>2. CASE u # t
    <3>1. r \in thread[u].doomed /\ r \notin Handled(t)
      BY <1>2, <1>6, <2>2 DEF Other
    <3> QED BY <1>1, <1>2, <2>2, <3>1, DeleterFrame DEF fileVars
  <2> QED BY <2>1, <2>2
<1>g. NothingLeft'
  <2> SUFFICES ASSUME NEW r \in Slot, stage'[r] # "none" \/ tables'[r] # NoTable PROVE Owned(r)'
    BY DEF NothingLeft
  <2>1. Owned(r)
    BY DEF Inv, TablesInv, NothingLeft, fileVars
  <2>2. CASE r \in Handled(t)
    BY <1>1, <1>2, <2>2 DEF Owned
  <2>3. CASE r \notin Handled(t)
    BY <1>2, <1>3, <2>1, <2>3 DEF Owned, Other, Handled
  <2> QED BY <2>2, <2>3
<1>h. HeldCounted'
  BY <1>1, <1>2, <1>3
<1>i. IdsCounted'
  BY <1>2, <1>3, IdsFrame
<1>j. HoldersTable'
  BY <1>1, <1>2, <1>3, HoldersFrame
<1> QED BY <1>a, <1>b, <1>c, <1>d, <1>e, <1>f, <1>g, <1>h, <1>i, <1>j DEF Inv, TablesInv

LEMMA IdleState ==
  /\ Idle \in ThreadState /\ Idle.doomed = {} /\ Idle.then = "idle" /\ Idle.block = NoBlock
  /\ Idle.pc = "idle" /\ Idle.slot = NoSlot /\ {} \in SUBSET Shards
BY IdleIs

LEMMA OpenTableFailsStep ==
  ASSUME Inv, NEW t \in Thread, OpenTableFails(t)
  PROVE  Inv'
<1> DEFINE s == thread[t].slot
<1>1. /\ thread[t].pc = "opened" /\ Draws(t) /\ Opens(t) /\ ~Holds(t)
      /\ Goto(t, AfterDeleting(Idle, {s}, {}))
      /\ UNCHANGED <<fileVars, cache_, block_cache, last_id_, tables>>
  <2>1. /\ thread[t].pc = "opened" /\ Draws(t) /\ Opens(t)
        /\ Goto(t, AfterDeleting(Idle, {s}, {}))
        /\ UNCHANGED <<fileVars, cache_, block_cache, last_id_, tables>>
    BY DEF OpenTableFails, At, Draws, Opens
  <2> QED BY <2>1, HolderIs
<1>2. s \in Slot /\ thread[t].doomed = {} /\ NoReader(thread[t])
  BY <1>1, DrawingThread DEF NoReader
<1>3. s \notin Alive(cache_) /\ Handled(t) = Alive(cache_) \cup {s}
  BY <1>1 DEF Handled, Inv, TablesInv, OpeningOwns, OwnsSlot
<1>4. (Holds(t)' <=> Idle.pc = "found") /\ thread'[t].slot = Idle.slot => HeldCounted'
  <2>1. Other(t)
    <3>1. AfterDeleting(Idle, {s}, {}) \in ThreadState
      BY <1>2, IdleState, AfterDeletingIs
    <3> QED BY <1>1, <3>1, GotoIs DEF Inv, Other
  <2> QED BY <1>1, <2>1, IdleState, HeldFrame
<1>5. \A r \in Alive(cache_) : ATable(r) /\ cache_.key[r] = TableKey(tables[r].number)
  BY DEF Inv, TablesInv, CacheOwns
<1>6. IsCache(cache_, Slot) /\ Within(cache_, entries)
  BY DEF Inv, Types, TablesInv
<1> QED BY <1>1, <1>2, <1>3, <1>4, <1>5, <1>6, IdleState, DoomStep

LEMMA InsertTableStep ==
  ASSUME Inv, NEW t \in Thread, InsertTable(t)
  PROVE  Inv'
<1> DEFINE s == thread[t].slot
           key == TableKey(thread[t].number)
           th == [thread[t] EXCEPT !.pc = "found"]
           D == Alive(cache_) \ Alive(cache_')
           L == {Shard(key)}
<1>1. /\ thread[t].pc = "insert" /\ Opens(t)
      /\ cache_' = Insert(cache_, s, key, s, entries)
      /\ Goto(t, AfterDeleting(th, D, L))
      /\ UNCHANGED <<fileVars, block_cache, last_id_, tables>>
  BY DEF InsertTable, At, Opens
<1>2. /\ s \in Slot /\ thread[t].number \in FileNumber /\ thread[t].doomed = {}
      /\ thread[t].then = "idle" /\ NoReader(thread[t]) /\ thread[t] \in ThreadState
      /\ thread[t].block = NoBlock
  BY <1>1, ThreadTyped DEF Inv, TablesInv, BlocksInv, Threads_, ThreadBlocks, ThreadBlock, Reads, NoReader
<1>3. /\ s \notin Alive(cache_) /\ ATable(s) /\ tables[s].number = thread[t].number
      /\ Handled(t) = Alive(cache_) \cup {s} /\ ~Holds(t)
  BY <1>1, HolderIs DEF Handled, Inv, TablesInv, OpeningOwns, OwnsSlot, OpeningStage
<1>4. IsCache(cache_, Slot) /\ Within(cache_, entries) /\ IsFiniteSet(Slot) /\ entries \in Nat
  BY LimitAssumption, TableCacheAssumption DEF Inv, Types, TablesInv
<1>5. Shard(key) \in Shards /\ L \in SUBSET Shards
  BY <1>2, TableCacheAssumption DEF TableKey, Shards
<1> HIDE DEF key
<1>6. /\ IsCache(cache_', Slot) /\ Within(cache_', entries)
      /\ cache_'.held = [cache_.held EXCEPT ![s] = 1]
      /\ s \in Alive(cache_') /\ Alive(cache_') \subseteq Alive(cache_) \cup {s}
      /\ cache_'.key[s] = key
      /\ \A x \in Alive(cache_') \ {s} : cache_'.key[x] = cache_.key[x]
  BY <1>1, <1>2, <1>3, <1>4, <1>5, InsertIs
<1>7. /\ th \in ThreadState /\ th.pc = "found" /\ th.slot = s /\ th.number = thread[t].number
      /\ th.block = NoBlock /\ th.doomed = {} /\ th.then = "idle"
  <2>1. th = [thread[t] EXCEPT !.pc = "found"] /\ "found" \in PC
    BY DEF PC
  <2> HIDE DEF th
  <2> QED BY <1>2, <2>1, StateKept
<1> HIDE DEF th, L
<1>8. D \in SUBSET Slot /\ Alive(cache_') \cup D = Handled(t) /\ Alive(cache_') \cap D = {}
  <2>1. Alive(cache_) \subseteq Slot
    BY <1>4, CacheIs
  <2> QED BY <1>3, <1>6, <2>1
<1>9. \A r \in Alive(cache_') : ATable(r) /\ cache_'.key[r] = TableKey(tables[r].number)
  <2>1. \A r \in Alive(cache_) : ATable(r) /\ cache_.key[r] = TableKey(tables[r].number)
    BY DEF Inv, TablesInv, CacheOwns
  <2> QED BY <1>3, <1>6, <2>1 DEF key
<1>10. (Holds(t)' <=> th.pc = "found") /\ thread'[t].slot = th.slot => HeldCounted'
  <2> SUFFICES ASSUME Holds(t)', thread'[t].slot = s, NEW r \in Slot
               PROVE  cache_'.held[r] = Cardinality(Holders(r))'
    BY <1>7 DEF HeldCounted
  <2>1. Other(t)
    <3>1. AfterDeleting(th, D, L) \in ThreadState
      BY <1>5, <1>7, <1>8, AfterDeletingIs
    <3> QED BY <1>1, <3>1, GotoIs DEF Inv, Other
  <2>2. /\ cache_.held \in [Slot -> Nat] /\ cache_.held[r] = Cardinality(Holders(r))
        /\ cache_.held[s] = 0
    <3>1. cache_.held \in [Slot -> Nat] /\ ~(cache_.held[s] > 0)
      <4>1. cache_.held \in [Slot -> Nat]
        BY <1>4 DEF IsCache
      <4>2. s \in Alive(cache_) <=> s \in InMap(cache_) \/ cache_.held[s] > 0
        BY <1>2, <1>4, CacheIs
      <4> QED BY <1>3, <4>1, <4>2
    <3> QED BY <1>2, <3>1 DEF Inv, TablesInv, HeldCounted
  <2>3. r = s => Cardinality(Holders(r))' = Cardinality(Holders(r)) + 1
    BY <1>3, <2>1, HoldersChange
  <2>4. r # s => Cardinality(Holders(r))' = Cardinality(Holders(r))
    BY <1>3, <2>1, HoldersChange
  <2> QED BY <1>2, <1>6, <2>2, <2>3, <2>4
<1>11. Goto(t, AfterDeleting(th, D, L)) /\ L \in SUBSET Shards
  BY <1>1, <1>5
<1>12. th.slot \in Handled(t) /\ th.number \in FileNumber /\ tables[th.slot].number = th.number
  BY <1>2, <1>3, <1>7
<1>13. thread[t].pc \notin {"open", "opening"}
  BY <1>1
<1> HIDE DEF D
<1> QED BY <1>1, <1>2, <1>6, <1>7, <1>8, <1>9, <1>10, <1>11, <1>12, <1>13, DoomStep

LEMMA ReleaseTableStep ==
  ASSUME Inv, NEW t \in Thread, ReleaseTable(t)
  PROVE  Inv'
<1> DEFINE s == thread[t].slot
           D == {s} \ Alive(cache_')
           L == {Shard(TableKey(thread[t].number))}
<1>1. /\ thread[t].pc = "release" /\ Holds(t)
      /\ cache_' = ReleaseHandle(cache_, s)
      /\ Goto(t, AfterDeleting(Idle, D, L))
      /\ UNCHANGED <<fileVars, block_cache, last_id_, tables>>
  BY DEF ReleaseTable, At, Holds
<1>2. /\ s \in Slot /\ s \in Alive(cache_) /\ thread[t].number \in FileNumber
      /\ cache_.held[s] > 0 /\ ~Opens(t) /\ Handled(t) = Alive(cache_)
  BY <1>1, HolderIs DEF Handled
<1>3. thread[t].doomed = {} /\ NoReader(thread[t])
  BY <1>1 DEF Inv, TablesInv, BlocksInv, Threads_, ThreadBlocks, ThreadBlock, Reads, NoReader
<1>4. IsCache(cache_, Slot) /\ Within(cache_, entries)
  BY DEF Inv, Types, TablesInv
<1>5. /\ IsCache(cache_', Slot) /\ cache_'.order = cache_.order
      /\ cache_'.held = [cache_.held EXCEPT ![s] = @ - 1]
      /\ Alive(cache_') \subseteq Alive(cache_) /\ Alive(cache_) \subseteq Alive(cache_') \cup {s}
      /\ \A x \in Alive(cache_') : cache_'.key[x] = cache_.key[x]
  BY <1>1, <1>2, <1>4, ReleaseHandleIs
<1>6. L \in SUBSET Shards
  BY <1>2, TableCacheAssumption DEF TableKey, Shards
<1>7. D \in SUBSET Slot /\ Alive(cache_') \cup D = Handled(t) /\ Alive(cache_') \cap D = {}
  BY <1>2, <1>5
<1>8. Goto(t, AfterDeleting(Idle, D, L))
  BY <1>1
<1> HIDE DEF D, L
<1>9. \A r \in Alive(cache_') : ATable(r) /\ cache_'.key[r] = TableKey(tables[r].number)
  BY <1>5 DEF Inv, TablesInv, CacheOwns
<1>10. (Holds(t)' <=> Idle.pc = "found") /\ thread'[t].slot = Idle.slot => HeldCounted'
  <2> SUFFICES ASSUME ~Holds(t)', NEW r \in Slot
               PROVE  cache_'.held[r] = Cardinality(Holders(r))'
    BY IdleState DEF HeldCounted
  <2>1. Other(t)
    <3>1. AfterDeleting(Idle, D, L) \in ThreadState
      BY <1>6, <1>7, IdleState, AfterDeletingIs
    <3> QED BY <1>8, <3>1, GotoIs DEF Inv, Other
  <2>2. cache_.held \in [Slot -> Nat] /\ cache_.held[r] = Cardinality(Holders(r))
    BY <1>4 DEF IsCache, Inv, TablesInv, HeldCounted
  <2>3. r = s => Cardinality(Holders(r))' = Cardinality(Holders(r)) - 1
    BY <1>1, <2>1, HoldersChange
  <2>4. r # s => Cardinality(Holders(r))' = Cardinality(Holders(r))
    BY <1>1, <2>1, HoldersChange
  <2> QED BY <1>2, <1>5, <2>2, <2>3, <2>4
<1>11. Within(cache_', entries)
  BY <1>4, <1>5 DEF Within
<1> QED BY <1>1, <1>3, <1>5, <1>6, <1>7, <1>8, <1>9, <1>10, <1>11, IdleState, DoomStep

(* When no call is under way, no table is held.                            *)
LEMMA NoneHeld ==
  ASSUME Inv, AllIdle
  PROVE  Alive(cache_) = InMap(cache_)
<1>1. \A t \in Thread : ~Holds(t)
  BY IdleThread DEF AllIdle
<1>2. \A s \in Slot : cache_.held[s] = 0
  <2> SUFFICES ASSUME NEW s \in Slot PROVE cache_.held[s] = 0
    OBVIOUS
  <2>1. Holders(s) = {}
    BY <1>1 DEF Holders
  <2> QED BY <2>1, FS_EmptySet DEF Inv, TablesInv, HeldCounted
<1>3. /\ InMap(cache_) \subseteq Alive(cache_) /\ Alive(cache_) \subseteq Slot
      /\ \A s \in Slot : s \in Alive(cache_) <=> s \in InMap(cache_) \/ cache_.held[s] > 0
  BY CacheIs DEF Inv, Types
<1> QED BY <1>2, <1>3

LEMMA DeleteTableCacheStep ==
  ASSUME Inv, NEW t \in Thread, DeleteTableCache(t)
  PROVE  Inv'
<1> DEFINE D == InMap(cache_)
<1>1. /\ AllIdle /\ cache_' = NewLRUCache(Slot, NoSlot)
      /\ Goto(t, AfterDeleting(Idle, D, Shards))
      /\ UNCHANGED <<fileVars, block_cache, last_id_, tables>>
  BY DEF DeleteTableCache, Shards
<1>2. /\ IsCache(cache_', Slot) /\ Alive(cache_') = {}
      /\ cache_'.held = [h \in Slot |-> 0] /\ \A i \in Shards : Len(cache_'.order[i]) = 0
  BY <1>1, NewCacheIs
<1>3. /\ thread[t].pc = "idle" /\ thread[t].doomed = {} /\ NoReader(thread[t])
      /\ ~Holds(t) /\ ~Opens(t)
  BY <1>1, IdleThread DEF AllIdle
<1>4. D \in SUBSET Slot /\ Handled(t) = D
  BY <1>1, <1>3, NoneHeld, CacheIs DEF Handled, Inv, Types
<1>5. (Holds(t)' <=> Idle.pc = "found") /\ thread'[t].slot = Idle.slot => HeldCounted'
  <2> SUFFICES ASSUME ~Holds(t)', NEW r \in Slot
               PROVE  cache_'.held[r] = Cardinality(Holders(r))'
    BY IdleState DEF HeldCounted
  <2>1. Other(t)
    <3>1. AfterDeleting(Idle, D, Shards) \in ThreadState
      BY <1>4, IdleState, AfterDeletingIs
    <3> QED BY <1>1, <3>1, GotoIs DEF Inv, Other
  <2>2. Holders(r)' = {}
    <3>1. \A u \in Thread : ~Holds(u)
      BY <1>1, IdleThread DEF AllIdle
    <3> QED BY <2>1, <3>1 DEF Holders, Holds, Other
  <2> QED BY <1>2, <2>2, FS_EmptySet
<1>6. Within(cache_', entries)
  <2>1. entries \in Nat
    BY TableCacheAssumption
  <2>2. PerShard(entries) \in Nat
    BY <2>1, PerShardIs
  <2>3. 0 <= PerShard(entries)
    BY <2>2
  <2> QED BY <1>2, <2>3 DEF Within
<1>7. Goto(t, AfterDeleting(Idle, D, Shards))
  BY <1>1
<1>8. Alive(cache_') \cup D = Handled(t) /\ Alive(cache_') \cap D = {}
  BY <1>2, <1>4
<1>9. \A s \in Alive(cache_') : ATable(s) /\ cache_'.key[s] = TableKey(tables[s].number)
  BY <1>2
<1> HIDE DEF D
<1> QED BY <1>1, <1>2, <1>3, <1>4, <1>5, <1>6, <1>7, <1>8, <1>9, IdleState, DoomStep

-----------------------------------------------------------------------------
(* The deleters                                                            *)

LEMMA DoomedIs ==
  ASSUME Inv, NEW t \in Thread, NEW s \in thread[t].doomed
  PROVE  /\ s \in Slot /\ thread[t].pc = "deleting" /\ NoReader(thread[t]) /\ ~Opens(t) /\ ~Draws(t)
         /\ \A r \in Alive(cache_) : r \in Slot /\ r # s
         /\ \A u \in Thread : (Opens(u) => thread[u].slot \in Slot /\ thread[u].slot # s)
                              /\ (s \in thread[u].doomed => u = t)
<1>1. s \in Slot /\ thread[t].pc = "deleting"
  BY ThreadTyped DEF Inv, TablesInv, Threads_
<1>2. NoReader(thread[t]) /\ ~Opens(t) /\ ~Draws(t)
  BY <1>1 DEF NoReader, Reads, Opens, Draws, Inv, BlocksInv, ThreadBlocks, ThreadBlock
<1>3. \A r \in Alive(cache_) : r \in Slot /\ r # s
  BY CacheIs DEF Inv, Types, TablesInv, DeleterOwns, OwnsDoomed
<1>4. \A u \in Thread : (Opens(u) => thread[u].slot \in Slot /\ thread[u].slot # s)
                        /\ (s \in thread[u].doomed => u = t)
  BY DEF Inv, TablesInv, Threads_, OpeningOwns, OwnsSlot, DeleterOwns, OwnsDoomed
<1> QED BY <1>1, <1>2, <1>3, <1>4

LEMMA DeleteTableStep ==
  ASSUME Inv, NEW t \in Thread, DeleteTable(t)
  PROVE  Inv'
<1>1. PICK s \in thread[t].doomed : tables' = [tables EXCEPT ![s] = NoTable]
  BY DEF DeleteTable
<1>2. UNCHANGED <<fileVars, cache_, block_cache, last_id_, thread>>
  BY DEF DeleteTable
<1>3. /\ s \in Slot /\ NoReader(thread[t])
      /\ \A r \in Alive(cache_) : r \in Slot /\ r # s
      /\ \A u \in Thread : (Opens(u) => thread[u].slot \in Slot /\ thread[u].slot # s)
                           /\ (s \in thread[u].doomed => u = t)
  BY DoomedIs
<1>4. /\ tables \in [Slot -> [number : Nat, cache_id : Nat]]
      /\ tables'[s] = NoTable /\ \A r \in Slot \ {s} : tables'[r] = tables[r]
  BY <1>1, <1>3 DEF Inv, Types
<1>5. NoTable \in [number : Nat, cache_id : Nat] /\ NoTable.cache_id = 0
  BY DEF NoTable
<1>6. /\ Other(t) /\ (Holds(t)' <=> Holds(t)) /\ (Draws(t)' <=> Draws(t))
      /\ \A u \in Thread : (Opens(u)' <=> Opens(u)) /\ thread'[u] = thread[u]
  BY <1>2 DEF Other, Holds, Draws, Opens
<1>7. last_id_ \in Nat /\ last_id_' = last_id_ /\ \A id \in 1 .. last_id_ : id # 0
  BY <1>2 DEF Inv, Types
<1>8. \A r \in Slot : tables'[r] = NoTable \/ (ATable(r)' /\ tables'[r] = tables[r])
  BY <1>2, <1>4 DEF ATable, Inv, Types
<1>a. Permits' /\ Types'
  <2>1. tables' \in [Slot -> [number : Nat, cache_id : Nat]]
    BY <1>1, <1>4, <1>5
  <2> QED BY <1>2, <1>8, <2>1, FilesFrame DEF Inv, Types
<1>b. BlocksCounted' /\ ThreadBlocks'
  BY <1>2, <1>3, <1>6, BlocksFrame DEF fileVars
<1>c. CachedBlocks'
  <2> SUFFICES ASSUME NEW h \in Alive(block_cache) PROVE CachedBlock(h)'
    BY <1>2 DEF CachedBlocks
  <2>1. block_cache.key[h][1] \in 1 .. last_id_
    BY DEF Inv, BlocksInv, CachedBlocks, CachedBlock
  <2> QED BY <1>2, <1>4, <1>5, <1>7, <2>1 DEF Inv, BlocksInv, CachedBlocks, CachedBlock
<1>d. UniqueIds'
  <2>1. \A r \in Slot : tables'[r] # NoTable => r # s /\ tables'[r].cache_id # 0
    BY <1>4, <1>7, <1>8 DEF ATable
  <2> QED BY <1>4, <1>5, <2>1 DEF Inv, TablesInv, UniqueIds
<1>e. Threads_'
  BY <1>2 DEF Threads_, Opens, Holds, Inv, TablesInv
<1>f. OpeningOwns'
  <2> SUFFICES ASSUME NEW u \in Thread, Opens(u)' PROVE OwnsSlot(u)'
    BY DEF OpeningOwns
  <2>1. /\ Opens(u) /\ OwnsSlot(u) /\ tables'[thread[u].slot] = tables[thread[u].slot]
    BY <1>3, <1>4, <1>6 DEF Inv, TablesInv, OpeningOwns
  <2>2. OpeningStage(u)'
    BY <1>2, <2>1 DEF OwnsSlot, OpeningStage, ATable, fileVars
  <2> QED BY <1>2, <2>1, <2>2 DEF OwnsSlot
<1>g. CacheOwns' /\ Within(cache_, entries)'
  BY <1>2, <1>3, <1>4 DEF CacheOwns, Within, Inv, TablesInv, fileVars, ATable
<1>h. DeleterOwns'
  <2> SUFFICES ASSUME NEW u \in Thread, NEW r \in thread[u].doomed PROVE OwnsDoomed(u, r)'
    BY <1>2 DEF DeleterOwns
  <2>1. OwnsDoomed(u, r) /\ r \in Slot
    BY ThreadTyped DEF Inv, TablesInv, DeleterOwns
  <2> QED BY <1>2, <1>4, <2>1 DEF OwnsDoomed, fileVars
<1>i. NothingLeft'
  BY <1>2, <1>4 DEF Inv, TablesInv, NothingLeft, Owned, Opens, fileVars
<1>j. HeldCounted' /\ IdsCounted'
  BY <1>2, <1>6, HeldFrame, IdsFrame
<1>k. HoldersTable'
  <2> SUFFICES ASSUME NEW u \in Thread, Holds(u)
               PROVE  tables'[thread[u].slot].number = thread[u].number
    BY <1>2 DEF HoldersTable, Holds
  <2> QED BY <1>3, <1>4, HolderIs
<1> QED BY <1>a, <1>b, <1>c, <1>d, <1>e, <1>f, <1>g, <1>h, <1>i, <1>j, <1>k DEF Inv, TablesInv, BlocksInv

(* A step of a file's destructor.                                          *)
LEMMA DeleteFileMoves ==
  ASSUME stage \in [Slot -> Stage], NEW s \in Slot, DeleteFile(s)
  PROVE  /\ \A r \in Slot \ {s} : stage'[r] = stage[r]
         /\ stage'[s] \in {"none", "unmapped", "closed"}
BY DEF DeleteFile, Unmap, ReleaseMmap, Close, ReleaseFd, Delete, Move

(* What t goes on as after a step of the destructor of s.                  *)
AfterDeleteFile(th, s) ==
  IF stage'[s] # "none" THEN th
  ELSE IF th.doomed # {s} THEN [th EXCEPT !.doomed = @ \ {s}]
  ELSE IF th.then = "idle" THEN Idle
  ELSE [th EXCEPT !.pc = th.then, !.doomed = {}, !.locked = {}, !.then = "idle"]

LEMMA AfterDeleteFileIs ==
  ASSUME Inv, NEW t \in Thread, NEW s \in thread[t].doomed
  PROVE  LET next == AfterDeleteFile(thread[t], s)
             th == thread[t]
         IN  /\ next \in ThreadState /\ next.slot = th.slot /\ NoReader(next)
             /\ next.doomed = IF stage'[s] = "none" THEN th.doomed \ {s} ELSE th.doomed
             /\ next.pc = "deleting" <=> next.doomed # {}
             /\ next.pc # "deleting" => next.then = "idle"
             /\ next.pc \in {"deleting", "idle", "found"}
             /\ (next.pc = "found" \/ next.then = "found") <=> th.then = "found"
             /\ th.then = "found" => next.number = th.number
<1> DEFINE th == thread[t]
           next == AfterDeleteFile(th, s)
<1>1. /\ th \in ThreadState /\ th.pc = "deleting" /\ th.then \in {"idle", "found"}
      /\ th.doomed \subseteq Slot /\ th.block = NoBlock /\ NoReader(th)
  BY ThreadTyped, DoomedIs DEF Inv, NoReader
<1>2. th.then = "idle" => th.slot = NoSlot
  BY <1>1 DEF Inv, TablesInv, Threads_, Opens, Holds
<1>3. CASE stage'[s] # "none"
  <2>1. next = th
    BY <1>3 DEF AfterDeleteFile
  <2> QED BY <1>1, <1>3, <2>1
<1>4. CASE stage'[s] = "none" /\ th.doomed # {s}
  <2>1. next = [th EXCEPT !.doomed = th.doomed \ {s}]
    BY <1>4 DEF AfterDeleteFile
  <2>2. th.doomed \ {s} # {} /\ th.doomed \ {s} \in SUBSET Slot
    BY <1>1, <1>4
  <2> HIDE DEF th, next
  <2>3. /\ next \in ThreadState /\ next.slot = th.slot /\ next.doomed = th.doomed \ {s}
        /\ next.pc = th.pc /\ next.then = th.then /\ next.number = th.number
        /\ next.block = th.block
    BY <1>1, <2>1, <2>2 DEF ThreadState
  <2> QED BY <1>1, <1>4, <2>2, <2>3 DEF NoReader, th, next
<1>5. CASE stage'[s] = "none" /\ th.doomed = {s} /\ th.then = "idle"
  <2>1. next = Idle
    BY <1>5 DEF AfterDeleteFile
  <2> QED BY <1>1, <1>2, <1>5, <2>1, IdleIs DEF NoReader
<1>6. CASE stage'[s] = "none" /\ th.doomed = {s} /\ th.then = "found"
  <2> DEFINE first == [th EXCEPT !.pc = "found", !.doomed = {}]
  <2>1. first = [th EXCEPT !.pc = "found", !.doomed = {}] /\ "found" \in PC
    BY DEF PC
  <2>2. next = [th EXCEPT !.pc = "found", !.doomed = {}, !.locked = {}, !.then = "idle"]
    BY <1>6 DEF AfterDeleteFile
  <2> HIDE DEF th
  <2>3. next = [first EXCEPT !.locked = {}, !.then = "idle"]
    <3> HIDE DEF next
    <3> QED BY <1>1, <2>2 DEF ThreadState
  <2> HIDE DEF first, next
  <2>4. /\ first \in ThreadState /\ first.pc = "found" /\ first.doomed = {}
        /\ first.slot = th.slot /\ first.number = th.number /\ first.block = th.block
    BY <1>1, <2>1 DEF ThreadState
  <2>5. /\ next \in ThreadState /\ next.pc = "found" /\ next.doomed = {} /\ next.then = "idle"
        /\ next.slot = th.slot /\ next.number = th.number /\ next.block = th.block
    BY <2>3, <2>4 DEF ThreadState
  <2>6. th.doomed \ {s} = {}
    BY <1>6
  <2> QED BY <1>1, <1>6, <2>5, <2>6 DEF NoReader, th, next
<1> QED BY <1>1, <1>3, <1>4, <1>5, <1>6

LEMMA DeleteTableFileStep ==
  ASSUME Inv, NEW t \in Thread, DeleteTableFile(t)
  PROVE  Inv'
<1>1. PICK s \in thread[t].doomed :
        tables[s] = NoTable /\ DeleteFile(s) /\ Goto(t, AfterDeleteFile(thread[t], s))
  BY DEF DeleteTableFile, AfterDeleteFile
<1>2. UNCHANGED <<cache_, block_cache, last_id_, tables>>
  BY DEF DeleteTableFile
<1>3. /\ s \in Slot /\ thread[t].pc = "deleting" /\ NoReader(thread[t]) /\ ~Opens(t) /\ ~Draws(t)
      /\ \A r \in Alive(cache_) : r \in Slot /\ r # s
      /\ \A u \in Thread : (Opens(u) => thread[u].slot \in Slot /\ thread[u].slot # s)
                           /\ (s \in thread[u].doomed => u = t)
  BY DoomedIs
<1>4. /\ Permits' /\ stage'[s] \in {"none", "unmapped", "closed"}
      /\ \A r \in Slot \ {s} : stage'[r] = stage[r]
  <2>1. stage \in [Slot -> Stage] /\ Permits
    BY DEF Inv, Permits, PermitsExact, FilesTypeOK
  <2> QED BY <1>1, <1>3, <2>1, FileStepPermits, DeleteFileMoves DEF FileStep
<1> DEFINE next == AfterDeleteFile(thread[t], s)
<1>5. /\ next \in ThreadState /\ next.slot = thread[t].slot /\ NoReader(next)
      /\ next.doomed = IF stage'[s] = "none" THEN thread[t].doomed \ {s} ELSE thread[t].doomed
      /\ next.pc = "deleting" <=> next.doomed # {}
      /\ next.pc # "deleting" => next.then = "idle"
      /\ next.pc \in {"deleting", "idle", "found"}
      /\ (next.pc = "found" \/ next.then = "found") <=> thread[t].then = "found"
      /\ thread[t].then = "found" => next.number = thread[t].number
  BY AfterDeleteFileIs
<1>6. thread' \in [Thread -> ThreadState] /\ thread'[t] = next /\ Other(t)
  BY <1>1, <1>5, GotoIs DEF Inv, Other
<1> HIDE DEF next
<1>7. /\ NoReader(thread'[t]) /\ ~Opens(t)' /\ ~Draws(t)'
      /\ (Holds(t)' <=> Holds(t)) /\ (Holds(t) <=> thread[t].then = "found")
      /\ \A u \in Thread \ {t} : (Opens(u)' <=> Opens(u)) /\ (Holds(u)' <=> Holds(u))
  BY <1>3, <1>5, <1>6 DEF Holds, Opens, Draws, Other
<1>a. Permits' /\ Types'
  BY <1>2, <1>4, <1>6, TypesFrame DEF Inv, Types
<1>b. BlocksInv' /\ UniqueIds'
  BY <1>2, <1>3, <1>4, <1>6, <1>7, BlocksFrame, CachedBlocksFrame DEF BlocksInv
<1>c. Threads_'
  <2> SUFFICES ASSUME NEW u \in Thread
               PROVE  /\ thread'[u].pc = "deleting" <=> thread'[u].doomed # {}
                      /\ thread'[u].pc # "deleting" => thread'[u].then = "idle"
                      /\ IF Opens(u)' \/ Holds(u)'
                           THEN thread'[u].slot \in Slot /\ thread'[u].number \in FileNumber
                           ELSE thread'[u].slot = NoSlot
    BY DEF Threads_
  <2>1. CASE u = t
    <3>1. IF Holds(t) THEN thread[t].slot \in Slot /\ thread[t].number \in FileNumber
                      ELSE thread[t].slot = NoSlot
      BY <1>3 DEF Inv, TablesInv, Threads_
    <3> QED BY <1>5, <1>6, <1>7, <2>1, <3>1
  <2>2. CASE u # t
    BY <1>6, <1>7, <2>2 DEF Other, Inv, TablesInv, Threads_
  <2> QED BY <2>1, <2>2
<1>d. OpeningOwns'
  <2> SUFFICES ASSUME NEW u \in Thread, Opens(u)' PROVE OwnsSlot(u)'
    BY DEF OpeningOwns
  <2>1. u # t /\ Opens(u) /\ thread[u].slot \in Slot /\ thread[u].slot # s /\ OwnsSlot(u)
    BY <1>3, <1>7 DEF Inv, TablesInv, OpeningOwns
  <2>2. /\ thread[u].slot \notin Alive(cache_) /\ thread[u].slot \notin thread[t].doomed
        /\ thread[u].slot # thread[t].slot
    BY <2>1 DEF OwnsSlot
  <2> QED BY <1>2, <1>4, <1>5, <1>6, <2>1, <2>2, OpeningFrame DEF Inv, Types
<1>e. CacheOwns' /\ Within(cache_, entries)'
  BY <1>2, <1>3, <1>4 DEF CacheOwns, Within, Inv, TablesInv, ATable
<1>f. DeleterOwns'
  <2> SUFFICES ASSUME NEW u \in Thread, NEW r \in thread'[u].doomed PROVE OwnsDoomed(u, r)'
    BY DEF DeleterOwns
  <2>1. CASE u = t
    <3>1. r \in thread[t].doomed /\ OwnsDoomed(t, r) /\ r \in Slot
      BY <1>5, <1>6, <2>1, ThreadTyped DEF Inv, TablesInv, DeleterOwns
    <3>2. r = s => stage'[r] \in {"unmapped", "closed"} /\ tables[r] = NoTable
      BY <1>1, <1>4, <1>5, <1>6, <2>1
    <3>3. r # s => stage'[r] = stage[r]
      BY <1>4, <3>1
    <3>4. \A v \in Thread : r \in thread'[v].doomed => v = t
      BY <1>6, <3>1 DEF Other, OwnsDoomed
    <3>5. /\ r \notin Alive(cache_')
          /\ stage'[r] \in FileStage \cup {"unmapped", "closed"}
          /\ tables'[r] # NoTable => stage'[r] \in FileStage
      BY <1>2, <3>1, <3>2, <3>3 DEF OwnsDoomed
    <3> QED BY <2>1, <3>4, <3>5 DEF OwnsDoomed
  <2>2. CASE u # t
    <3>1. r \in thread[u].doomed /\ r \in Slot /\ r # s
      BY <1>3, <1>6, <2>2, ThreadTyped DEF Other, Inv
    <3>2. r \notin Alive(cache_) /\ r \notin thread[t].doomed
      BY <2>2, <3>1 DEF Inv, TablesInv, DeleterOwns, OwnsDoomed
    <3> QED BY <1>2, <1>4, <1>5, <1>6, <2>2, <3>1, <3>2, DeleterFrame
  <2> QED BY <2>1, <2>2
<1>g. NothingLeft'
  <2> SUFFICES ASSUME NEW r \in Slot, stage'[r] # "none" \/ tables'[r] # NoTable PROVE Owned(r)'
    BY DEF NothingLeft
  <2>1. CASE r = s
    <3>1. stage'[s] # "none"
      BY <1>1, <1>2, <2>1
    <3> QED BY <1>5, <1>6, <2>1, <3>1 DEF Owned
  <2>2. CASE r # s
    <3>1. Owned(r)
      BY <1>2, <1>4, <2>2 DEF Inv, TablesInv, NothingLeft
    <3>2. \A u \in Thread : r \in thread[u].doomed => r \in thread'[u].doomed
      BY <1>5, <1>6, <2>2 DEF Other
    <3> QED BY <1>2, <1>3, <1>6, <1>7, <3>1, <3>2 DEF Owned, Other
  <2> QED BY <2>1, <2>2
<1>h. HeldCounted' /\ IdsCounted'
  BY <1>2, <1>5, <1>6, <1>7, HeldFrame, IdsFrame
<1>i. HoldersTable'
  <2>1. Holds(t)' => tables'[thread'[t].slot].number = thread'[t].number
    BY <1>2, <1>5, <1>6, <1>7, HolderIs
  <2> QED BY <1>2, <1>6, <2>1, HoldersFrame
<1> QED BY <1>a, <1>b, <1>c, <1>d, <1>e, <1>f, <1>g, <1>h, <1>i DEF Inv, TablesInv

-----------------------------------------------------------------------------
(* Steps of a call that holds a table and reads blocks                     *)

Using == {"found", "read", "fill", "use", "release"}

LEMMA UserStep ==
  ASSUME Inv, NEW t \in Thread, thread[t].pc \in Using, NEW next \in ThreadState, Goto(t, next),
         next.pc \in Using, next.slot = thread[t].slot, next.number = thread[t].number,
         next.doomed = thread[t].doomed, next.then = thread[t].then,
         UNCHANGED <<fileVars, cache_, last_id_, tables>>, IsCache(block_cache', BlockHandle),
         BlocksInv'
  PROVE  Inv'
<1>1. thread' \in [Thread -> ThreadState] /\ thread'[t] = next /\ Other(t)
  BY GotoIs DEF Inv, Other
<1>2. /\ Holds(t) /\ Holds(t)' /\ ~Opens(t) /\ ~Opens(t)' /\ ~Draws(t)'
      /\ \A u \in Thread \ {t} : (Opens(u)' <=> Opens(u)) /\ (Holds(u)' <=> Holds(u))
  BY <1>1 DEF Using, Holds, Opens, Draws, Other
<1>3. /\ \A u \in Thread : /\ thread'[u].slot = thread[u].slot
                           /\ thread'[u].number = thread[u].number
                           /\ thread'[u].doomed = thread[u].doomed
                           /\ thread'[u].then = thread[u].then
                           /\ thread'[u].pc = "deleting" <=> thread[u].pc = "deleting"
                           /\ (Opens(u)' <=> Opens(u)) /\ (Holds(u)' <=> Holds(u))
                           /\ Opens(u) => thread'[u] = thread[u]
  BY <1>1, <1>2 DEF Other, Using
<1>a. Permits' /\ Types'
  BY <1>1, FilesFrame DEF Inv, Types, ATable
<1>b. Threads_'
  BY <1>3 DEF Threads_, Inv, TablesInv
<1>c. OpeningOwns'
  <2> SUFFICES ASSUME NEW u \in Thread, Opens(u)' PROVE OwnsSlot(u)'
    BY DEF OpeningOwns
  <2>1. OwnsSlot(u) /\ thread'[u] = thread[u]
    BY <1>3 DEF Inv, TablesInv, OpeningOwns
  <2>2. OpeningStage(u)'
    BY <2>1 DEF OwnsSlot, OpeningStage, ATable, fileVars
  <2> QED BY <1>3, <2>1, <2>2 DEF OwnsSlot
<1>d. CacheOwns' /\ Within(cache_, entries)' /\ UniqueIds'
  BY DEF CacheOwns, Within, UniqueIds, Inv, TablesInv, fileVars, ATable
<1>e. DeleterOwns'
  BY <1>3 DEF DeleterOwns, OwnsDoomed, Inv, TablesInv, fileVars
<1>f. NothingLeft'
  BY <1>3 DEF NothingLeft, Owned, Inv, TablesInv, fileVars
<1>g. HeldCounted' /\ IdsCounted'
  BY <1>1, <1>2, HeldFrame, IdsFrame
<1>h. HoldersTable'
  BY <1>3 DEF HoldersTable, Inv, TablesInv
<1> QED BY <1>a, <1>b, <1>c, <1>d, <1>e, <1>f, <1>g, <1>h DEF Inv, TablesInv

LEMMA ReaderIs ==
  ASSUME Inv, NEW u \in Thread, thread[u].block.handle # "none"
  PROVE  /\ thread[u].block.handle \in BlockHandle /\ Reads(u)
         /\ block_cache.held[thread[u].block.handle] > 0
         /\ thread[u].block.handle \in Alive(block_cache)
         /\ block_cache.value[thread[u].block.handle] = thread[u].block
<1> DEFINE h == thread[u].block.handle
<1>1. h \in BlockHandle
  BY ThreadTyped DEF Inv, Block
<1>2. Reads(u) /\ block_cache.value[h] = thread[u].block
  BY DEF Inv, BlocksInv, ThreadBlocks, ThreadBlock, NoBlock
<1>3. block_cache.held[h] > 0
  <2>1. Readers(h) \in SUBSET Thread /\ Readers(h) # {}
    BY DEF Readers
  <2>2. Cardinality(Readers(h)) \in Nat /\ Cardinality(Readers(h)) # 0
    BY <2>1, ThreadsFinite, FS_EmptySet
  <2> QED BY <1>1, <2>2 DEF Inv, BlocksInv, BlocksCounted
<1>4. h \in Alive(block_cache)
  BY <1>1, <1>3, CacheIs DEF Inv, Types
<1> QED BY <1>1, <1>2, <1>3, <1>4

LEMMA BlockStep ==
  ASSUME Inv, NEW t \in Thread, thread[t].pc \in Using, NEW next \in ThreadState, Goto(t, next),
         next.pc \in Using, next.slot = thread[t].slot, next.number = thread[t].number,
         next.doomed = thread[t].doomed, next.then = thread[t].then,
         UNCHANGED <<fileVars, cache_, last_id_, tables>>,
         IsCache(block_cache', BlockHandle),
         \A h \in BlockHandle :
           LET was == thread[t].block.handle = h
               is == next.block.handle = h
               held == block_cache.held[h]
           IN  /\ (was <=> is) => block_cache'.held[h] = held
               /\ is /\ ~was => block_cache'.held[h] = held + 1
               /\ was /\ ~is => block_cache'.held[h] = held - 1,
         \A h \in Alive(block_cache) \cap Alive(block_cache') :
           block_cache'.value[h] = block_cache.value[h],
         \A h \in Alive(block_cache') : CachedBlock(h)',
         thread'[t] = next => ThreadBlock(t)'
  PROVE  Inv'
<1>1. thread'[t] = next /\ Other(t)
  BY GotoIs DEF Inv, Other
<1>2. BlocksCounted'
  <2> SUFFICES ASSUME NEW h \in BlockHandle
               PROVE  block_cache'.held[h] = Cardinality(Readers(h))'
    BY DEF BlocksCounted
  <2>1. block_cache.held[h] = Cardinality(Readers(h))
    BY DEF Inv, BlocksInv, BlocksCounted
  <2> QED BY <1>1, <2>1, ReadersChange
<1>3. ASSUME NEW u \in Thread \ {t} PROVE ThreadBlock(u)'
  <2>1. thread'[u] = thread[u] /\ ThreadBlock(u)
    BY <1>1 DEF Other, Inv, BlocksInv, ThreadBlocks
  <2>2. \A h : h = thread[u].block.handle /\ h # "none" =>
          block_cache'.value[h] = block_cache.value[h]
    <3> SUFFICES ASSUME NEW h, h = thread[u].block.handle, h # "none"
                 PROVE  block_cache'.value[h] = block_cache.value[h]
      OBVIOUS
    <3>1. h \in BlockHandle /\ h \in Alive(block_cache)
      BY ReaderIs
    <3>2. Readers(h)' \in SUBSET Thread /\ Readers(h)' # {}
      BY <2>1 DEF Readers
    <3>3. Cardinality(Readers(h)') \in Nat /\ Cardinality(Readers(h)') # 0
      BY <3>2, ThreadsFinite, FS_EmptySet
    <3>4. block_cache'.held[h] > 0
      BY <1>2, <3>1, <3>3 DEF BlocksCounted
    <3>5. h \in Alive(block_cache')
      BY <3>1, <3>4, CacheIs
    <3> QED BY <3>1, <3>5
  <2> QED BY <2>1, <2>2 DEF ThreadBlock, Reads, fileVars
<1>4. ThreadBlocks' /\ CachedBlocks'
  BY <1>1, <1>3 DEF ThreadBlocks, CachedBlocks
<1>5. BlocksInv'
  BY <1>2, <1>4 DEF BlocksInv
<1> QED BY <1>5, UserStep

(* The same for a step without a call to the block cache.                  *)
LEMMA QuietStep ==
  ASSUME Inv, NEW t \in Thread, thread[t].pc \in Using, NEW next \in ThreadState, Goto(t, next),
         next.pc \in Using, next.slot = thread[t].slot, next.number = thread[t].number,
         next.doomed = thread[t].doomed, next.then = thread[t].then,
         next.block.handle = thread[t].block.handle,
         UNCHANGED <<fileVars, cache_, block_cache, last_id_, tables>>,
         thread'[t] = next => ThreadBlock(t)'
  PROVE  Inv'
<1>1. IsCache(block_cache', BlockHandle) /\ block_cache' = block_cache
  BY DEF Inv, Types
<1>2. \A h \in Alive(block_cache') : CachedBlock(h)'
  BY DEF Inv, BlocksInv, CachedBlocks, CachedBlock
<1> QED BY <1>1, <1>2, BlockStep

LEMMA UserIs ==
  ASSUME Inv, NEW t \in Thread, thread[t].pc \in Using
  PROVE  /\ thread[t] \in ThreadState /\ thread[t].slot \in Slot
         /\ tables[thread[t].slot].number = thread[t].number /\ thread[t].number \in FileNumber
         /\ tables[thread[t].slot].cache_id \in 1 .. last_id_
         /\ tables[thread[t].slot] # NoTable
         /\ \A offset \in Offset : Shard(BlockKey(t, offset)) \in Shards
         /\ ThreadBlock(t)
         /\ ~Reads(t) => thread[t].block = NoBlock /\ thread[t].block.handle = "none"
<1>1. Holds(t) /\ thread[t] \in ThreadState
  BY ThreadTyped DEF Holds, Using, Inv
<1>2. ThreadBlock(t) /\ NoBlock.handle = "none"
  BY DEF Inv, BlocksInv, ThreadBlocks, NoBlock
<1> DEFINE id == tables[thread[t].slot].cache_id
<1>3. id \in 1 .. last_id_ /\ tables[thread[t].slot] # NoTable
  <2>1. ATable(thread[t].slot) /\ last_id_ \in Nat
    BY <1>1, HolderIs DEF Inv, Types
  <2> QED BY <2>1 DEF ATable, NoTable
<1>4. id \in 1 .. MaxId
  <2>1. Cardinality(Drawing) \in Nat /\ last_id_ \in Nat /\ MaxId \in Nat
    BY ThreadsFinite, TableCacheAssumption DEF Drawing, Inv, Types
  <2>2. last_id_ + Cardinality(Drawing) <= MaxId
    BY DEF Inv, TablesInv, IdsCounted
  <2> HIDE DEF id
  <2> QED BY <1>3, <2>1, <2>2
<1>5. \A offset \in Offset : Shard(BlockKey(t, offset)) \in Shards
  BY <1>4, TableCacheAssumption DEF BlockKey, Shards
<1>6. ~Reads(t) => thread[t].block = NoBlock /\ thread[t].block.handle = "none"
  BY <1>2 DEF ThreadBlock
<1> QED BY <1>1, <1>2, <1>3, <1>5, <1>6, HolderIs

LEMMA LookupBlockStep ==
  ASSUME Inv, NEW t \in Thread, LookupBlock(t)
  PROVE  Inv'
<1> DEFINE th == thread[t]
<1>1. th.pc = "found" /\ th.pc \in Using /\ UNCHANGED <<fileVars, cache_, last_id_, tables>>
  BY DEF LookupBlock, At, Using
<1>2. /\ th \in ThreadState /\ th.slot \in Slot /\ th.number \in FileNumber
      /\ tables[th.slot].number = th.number
      /\ \A offset \in Offset : Shard(BlockKey(t, offset)) \in Shards
      /\ th.block = NoBlock /\ th.block.handle = "none"
  BY <1>1, UserIs DEF Reads
<1>3. PICK offset \in Offset :
        \/ /\ Goto(t, [th EXCEPT !.pc = "read", !.offset = offset])
           /\ UNCHANGED block_cache
        \/ \E h \in WithKey(block_cache, BlockKey(t, offset)) :
             /\ block_cache' = LookupHit(block_cache, h)
             /\ Goto(t, [th EXCEPT !.pc = "use", !.offset = offset, !.block = block_cache.value[h]])
  BY DEF LookupBlock
<1>4. CASE Goto(t, [th EXCEPT !.pc = "read", !.offset = offset]) /\ UNCHANGED block_cache
  <2> DEFINE next == [th EXCEPT !.pc = "read", !.offset = offset]
  <2>1. next = [th EXCEPT !.pc = "read", !.offset = offset] /\ "read" \in PC
    BY DEF PC
  <2>2. Goto(t, next)
    BY <1>4
  <2> HIDE DEF next
  <2>3. /\ next \in ThreadState /\ next.pc = "read" /\ next.slot = th.slot
        /\ next.number = th.number /\ next.doomed = th.doomed /\ next.then = th.then
        /\ next.block = NoBlock /\ next.offset = offset
    BY <1>2, <2>1 DEF ThreadState
  <2>4. thread'[t] = next => ThreadBlock(t)'
    BY <2>3 DEF ThreadBlock, Reads
  <2> QED BY <1>1, <1>2, <1>4, <2>2, <2>3, <2>4, QuietStep DEF Using
<1>5. CASE \E h \in WithKey(block_cache, BlockKey(t, offset)) :
             /\ block_cache' = LookupHit(block_cache, h)
             /\ Goto(t, [th EXCEPT !.pc = "use", !.offset = offset, !.block = block_cache.value[h]])
  <2>1. PICK h \in WithKey(block_cache, BlockKey(t, offset)) :
          /\ block_cache' = LookupHit(block_cache, h)
          /\ Goto(t, [th EXCEPT !.pc = "use", !.offset = offset, !.block = block_cache.value[h]])
    BY <1>5
  <2>2. IsCache(block_cache, BlockHandle)
    BY DEF Inv, Types
  <2>3. /\ h \in InMap(block_cache) /\ h \in Alive(block_cache) /\ h \in BlockHandle
        /\ block_cache.key[h] = BlockKey(t, offset)
    <3>1. h \in InMap(block_cache)
      BY <1>2 DEF WithKey, InMap, Shards
    <3> QED BY <2>2, <3>1, CacheIs DEF WithKey
  <2> DEFINE block == block_cache.value[h]
  <2>4. /\ block \in Block /\ block.offset = offset /\ block.at = "heap" /\ block.handle = h
        /\ block.number = th.number
    <3>1. CachedBlock(h)
      BY <2>3 DEF Inv, BlocksInv, CachedBlocks
    <3>2. block_cache.key[h][1] = tables[th.slot].cache_id /\ block_cache.key[h][2] = offset
      BY <2>3 DEF BlockKey
    <3> QED BY <1>2, <3>1, <3>2 DEF CachedBlock
  <2>5. /\ IsCache(block_cache', BlockHandle) /\ Alive(block_cache') = Alive(block_cache)
        /\ block_cache'.held = [block_cache.held EXCEPT ![h] = @ + 1]
        /\ block_cache'.key = block_cache.key /\ block_cache'.value = block_cache.value
    <3> DEFINE d == LookupHit(block_cache, h)
    <3>1. /\ IsCache(d, BlockHandle) /\ Alive(d) = Alive(block_cache)
          /\ d.held = [block_cache.held EXCEPT ![h] = @ + 1]
          /\ d.key = block_cache.key /\ d.value = block_cache.value
      BY <2>2, <2>3, LookupHitIs
    <3>2. block_cache' = d
      BY <2>1
    <3> HIDE DEF d
    <3> QED BY <3>1, <3>2
  <2> DEFINE next == [th EXCEPT !.pc = "use", !.offset = offset, !.block = block]
  <2>6. next = [th EXCEPT !.pc = "use", !.offset = offset, !.block = block] /\ "use" \in PC
    BY DEF PC
  <2>7. Goto(t, next)
    BY <2>1
  <2> HIDE DEF next, block
  <2>8. /\ next \in ThreadState /\ next.pc = "use" /\ next.slot = th.slot
        /\ next.number = th.number /\ next.doomed = th.doomed /\ next.then = th.then
        /\ next.block = block /\ next.offset = offset
    BY <1>2, <2>4, <2>6 DEF ThreadState
  <2>9. thread'[t] = next => ThreadBlock(t)'
    BY <2>4, <2>5, <2>8 DEF ThreadBlock, Reads, block
  <2>10. block_cache.held \in [BlockHandle -> Nat] /\ "none" \notin BlockHandle
    BY <2>2, TableCacheAssumption DEF IsCache
  <2>11. \A g \in BlockHandle :
           /\ (th.block.handle = g <=> next.block.handle = g) =>
                block_cache'.held[g] = block_cache.held[g]
           /\ next.block.handle = g /\ th.block.handle # g =>
                block_cache'.held[g] = block_cache.held[g] + 1
           /\ th.block.handle = g /\ next.block.handle # g =>
                block_cache'.held[g] = block_cache.held[g] - 1
    BY <1>2, <2>3, <2>4, <2>5, <2>8, <2>10
  <2>12. \A g \in Alive(block_cache') : CachedBlock(g)'
    BY <1>1, <2>5 DEF Inv, BlocksInv, CachedBlocks, CachedBlock
  <2>13. \A g \in Alive(block_cache) \cap Alive(block_cache') :
           block_cache'.value[g] = block_cache.value[g]
    BY <2>5
  <2> QED BY <1>1, <2>5, <2>7, <2>8, <2>9, <2>11, <2>12, <2>13, BlockStep DEF Using
<1> QED BY <1>3, <1>4, <1>5

LEMMA LeaveBlockIs ==
  ASSUME NEW th \in ThreadState
  PROVE  LET next == LeaveBlock(th)
         IN  /\ next \in ThreadState /\ next.pc \in {"release", "found"} /\ next.slot = th.slot
             /\ next.number = th.number /\ next.doomed = th.doomed /\ next.then = th.then
             /\ next.block = NoBlock /\ next.block.handle = "none"
<1> DEFINE pc == IF th.fn = "Get" THEN "release" ELSE "found"
           next == LeaveBlock(th)
<1>1. pc \in PC /\ pc \in {"release", "found"}
  BY DEF PC
<1>2. next = [th EXCEPT !.pc = pc, !.offset = 0, !.block = NoBlock]
  BY DEF LeaveBlock
<1> HIDE DEF pc, next
<1>3. NoBlock \in Block /\ NoBlock.handle = "none"
  BY DEF NoBlock, Block
<1>4. /\ next \in ThreadState /\ next.pc = pc /\ next.slot = th.slot
      /\ next.number = th.number /\ next.doomed = th.doomed /\ next.then = th.then
      /\ next.block = NoBlock
  BY <1>1, <1>2, <1>3 DEF ThreadState
<1> QED BY <1>1, <1>3, <1>4 DEF next

LEMMA ReadBlockStep ==
  ASSUME Inv, NEW t \in Thread, ReadBlock(t)
  PROVE  Inv'
<1> DEFINE th == thread[t]
<1>1. /\ th.pc = "read" /\ th.pc \in Using
      /\ UNCHANGED <<fileVars, cache_, block_cache, last_id_, tables>>
  BY DEF ReadBlock, At, Using
<1>2. /\ th \in ThreadState /\ th.slot \in Slot /\ th.number \in FileNumber
      /\ tables[th.slot].number = th.number
      /\ th.block = NoBlock /\ th.block.handle = "none" /\ th.offset \in Offset
  BY <1>1, UserIs DEF Reads, ThreadBlock
<1>3. CASE Goto(t, LeaveBlock(th))
  <2> DEFINE next == LeaveBlock(th)
  <2>1. /\ next \in ThreadState /\ next.pc \in {"release", "found"} /\ next.slot = th.slot
        /\ next.number = th.number /\ next.doomed = th.doomed /\ next.then = th.then
        /\ next.block = NoBlock /\ next.block.handle = "none"
    BY <1>2, LeaveBlockIs
  <2>2. Goto(t, next)
    BY <1>3
  <2> HIDE DEF next
  <2>3. thread'[t] = next => ThreadBlock(t)'
    BY <2>1 DEF ThreadBlock, Reads
  <2> QED BY <1>1, <1>2, <2>1, <2>2, <2>3, QuietStep DEF Using
<1>4. CASE \E block \in BlockOf(t) : Goto(t, [th EXCEPT !.pc = "fill", !.block = block])
  <2>1. PICK block \in BlockOf(t) : Goto(t, [th EXCEPT !.pc = "fill", !.block = block])
    BY <1>4
  <2>2. /\ block \in Block /\ block.number = th.number /\ block.offset = th.offset
        /\ block.handle = "none"
        /\ block.at = "heap" \/ (block.at = th.slot /\ stage[th.slot] = "mapped")
    <3>1. /\ block.number = tables[th.slot].number /\ block.offset = th.offset
          /\ block.handle = "none"
          /\ block.at \in {"heap"} \cup IF stage[th.slot] = "mapped" THEN {th.slot} ELSE {}
          /\ block = [number |-> block.number, offset |-> block.offset,
                      at |-> block.at, handle |-> block.handle]
      BY DEF BlockOf
    <3> QED BY <1>2, <3>1 DEF Block
  <2> DEFINE next == [th EXCEPT !.pc = "fill", !.block = block]
  <2>3. next = [th EXCEPT !.pc = "fill", !.block = block] /\ "fill" \in PC
    BY DEF PC
  <2>4. Goto(t, next)
    BY <2>1
  <2> HIDE DEF next
  <2>5. /\ next \in ThreadState /\ next.pc = "fill" /\ next.slot = th.slot
        /\ next.number = th.number /\ next.doomed = th.doomed /\ next.then = th.then
        /\ next.block = block /\ next.offset = th.offset
    BY <1>2, <2>2, <2>3 DEF ThreadState
  <2>6. thread'[t] = next => ThreadBlock(t)'
    BY <1>1, <1>2, <2>2, <2>5 DEF ThreadBlock, Reads, fileVars
  <2> QED BY <1>1, <1>2, <2>2, <2>4, <2>5, <2>6, QuietStep DEF Using
<1> QED BY <1>3, <1>4 DEF ReadBlock

LEMMA DoNotFillStep ==
  ASSUME Inv, NEW t \in Thread, DoNotFill(t)
  PROVE  Inv'
<1> DEFINE th == thread[t]
           next == [th EXCEPT !.pc = "use"]
<1>1. /\ th.pc = "fill" /\ th.pc \in Using /\ Goto(t, next)
      /\ UNCHANGED <<fileVars, cache_, block_cache, last_id_, tables>>
  BY DEF DoNotFill, At, Using
<1>2. th \in ThreadState /\ ThreadBlock(t) /\ next = [th EXCEPT !.pc = "use"] /\ "use" \in PC
  BY <1>1, UserIs DEF PC
<1> HIDE DEF next
<1>3. /\ next \in ThreadState /\ next.pc = "use" /\ next.slot = th.slot
      /\ next.number = th.number /\ next.doomed = th.doomed /\ next.then = th.then
      /\ next.block = th.block /\ next.offset = th.offset
  BY <1>2, StateKept
<1>4. thread'[t] = next => ThreadBlock(t)'
  BY <1>1, <1>2, <1>3 DEF ThreadBlock, Reads, fileVars
<1> QED BY <1>1, <1>3, <1>4, QuietStep DEF Using

LEMMA LeaveTableStep ==
  ASSUME Inv, NEW t \in Thread, LeaveTable(t)
  PROVE  Inv'
<1> DEFINE th == thread[t]
           next == [th EXCEPT !.pc = "release"]
<1>1. /\ th.pc = "found" /\ th.pc \in Using /\ Goto(t, next)
      /\ UNCHANGED <<fileVars, cache_, block_cache, last_id_, tables>>
  BY DEF LeaveTable, At, Using
<1>2. /\ th \in ThreadState /\ th.block = NoBlock
      /\ next = [th EXCEPT !.pc = "release"] /\ "release" \in PC
  BY <1>1, UserIs DEF PC, Reads
<1> HIDE DEF next
<1>3. /\ next \in ThreadState /\ next.pc = "release" /\ next.slot = th.slot
      /\ next.number = th.number /\ next.doomed = th.doomed /\ next.then = th.then
      /\ next.block = th.block
  BY <1>2, StateKept
<1>4. thread'[t] = next => ThreadBlock(t)'
  BY <1>1, <1>2, <1>3 DEF ThreadBlock, Reads
<1> QED BY <1>1, <1>3, <1>4, QuietStep DEF Using

(* The block read goes into the cache under the id of its table, which no  *)
(* other table has.                                                        *)
LEMMA FillCacheStep ==
  ASSUME Inv, NEW t \in Thread, FillCache(t)
  PROVE  Inv'
<1> DEFINE th == thread[t]
           key == BlockKey(t, th.offset)
<1>1. /\ th.pc = "fill" /\ th.pc \in Using /\ th.block.at = "heap"
      /\ UNCHANGED <<fileVars, cache_, last_id_, tables>>
  BY DEF FillCache, At, Using
<1>2. PICK h \in BlockHandle :
        /\ FreeHandle(h)
        /\ block_cache' = Insert(block_cache, h, key, [th.block EXCEPT !.handle = h], blockEntries)
        /\ Goto(t, [th EXCEPT !.pc = "use", !.block = [th.block EXCEPT !.handle = h]])
  BY DEF FillCache
<1>3. /\ th \in ThreadState /\ th.slot \in Slot /\ th.number \in FileNumber
      /\ tables[th.slot].number = th.number /\ tables[th.slot].cache_id \in 1 .. last_id_
      /\ tables[th.slot] # NoTable /\ th.block \in Block
      /\ th.block.handle = "none" /\ th.offset \in Offset
      /\ th.block.number = th.number /\ th.block.offset = th.offset
  <2>1. Reads(t)
    BY <1>1 DEF Reads
  <2> QED BY <1>1, <2>1, UserIs, ThreadTyped DEF ThreadBlock, Inv
<1>4. Shard(key) \in Shards
  BY <1>1, <1>3, UserIs
<1> DEFINE block == [th.block EXCEPT !.handle = h]
           next == [th EXCEPT !.pc = "use", !.block = block]
<1>5. /\ block \in Block /\ block.handle = h /\ block.at = "heap"
      /\ block.number = th.number /\ block.offset = th.offset
  <2>1. block = [th.block EXCEPT !.handle = h]
    OBVIOUS
  <2> HIDE DEF block
  <2> QED BY <1>1, <1>3, <2>1 DEF Block
<1>6. /\ block_cache' = Insert(block_cache, h, key, block, blockEntries)
      /\ Goto(t, next) /\ next = [th EXCEPT !.pc = "use", !.block = block] /\ "use" \in PC
  BY <1>2 DEF PC
<1>7. /\ IsCache(block_cache, BlockHandle) /\ IsFiniteSet(BlockHandle) /\ blockEntries \in Nat
      /\ h \notin Alive(block_cache) /\ "none" \notin BlockHandle
  BY <1>2, TableCacheAssumption DEF Inv, Types, FreeHandle
<1> HIDE DEF block, next, key
<1>8. /\ next \in ThreadState /\ next.pc = "use" /\ next.slot = th.slot
      /\ next.number = th.number /\ next.doomed = th.doomed /\ next.then = th.then
      /\ next.block = block /\ next.offset = th.offset
  BY <1>3, <1>5, <1>6 DEF ThreadState
<1>9. /\ IsCache(block_cache', BlockHandle)
      /\ block_cache'.held = [block_cache.held EXCEPT ![h] = 1]
      /\ Alive(block_cache') \subseteq Alive(block_cache) \cup {h}
      /\ block_cache'.key[h] = key /\ block_cache'.value[h] = block
      /\ \A x \in Alive(block_cache') \ {h} : /\ block_cache'.key[x] = block_cache.key[x]
                                              /\ block_cache'.value[x] = block_cache.value[x]
  <2> DEFINE d == Insert(block_cache, h, key, block, blockEntries)
  <2>1. /\ IsCache(d, BlockHandle) /\ d.held = [block_cache.held EXCEPT ![h] = 1]
        /\ Alive(d) \subseteq Alive(block_cache) \cup {h}
        /\ d.key[h] = key /\ d.value[h] = block
        /\ \A x \in Alive(d) \ {h} : /\ d.key[x] = block_cache.key[x]
                                     /\ d.value[x] = block_cache.value[x]
    BY <1>4, <1>7, InsertIs
  <2>2. block_cache' = d
    BY <1>6
  <2> HIDE DEF d
  <2> QED BY <2>1, <2>2
<1>10. thread'[t] = next => ThreadBlock(t)'
  BY <1>3, <1>5, <1>8, <1>9 DEF ThreadBlock, Reads
<1>11. \A g \in BlockHandle :
         /\ (th.block.handle = g <=> next.block.handle = g) =>
              block_cache'.held[g] = block_cache.held[g]
         /\ next.block.handle = g /\ th.block.handle # g =>
              block_cache'.held[g] = block_cache.held[g] + 1
         /\ th.block.handle = g /\ next.block.handle # g =>
              block_cache'.held[g] = block_cache.held[g] - 1
  <2>1. block_cache.held \in [BlockHandle -> Nat] /\ block_cache.held[h] = 0
    <3>1. block_cache.held \in [BlockHandle -> Nat]
      BY <1>7 DEF IsCache
    <3>2. h \in Alive(block_cache) <=> h \in InMap(block_cache) \/ block_cache.held[h] > 0
      BY <1>7, CacheIs
    <3> QED BY <1>7, <3>1, <3>2
  <2> QED BY <1>3, <1>5, <1>7, <1>8, <1>9, <2>1
<1>12. \A g \in Alive(block_cache') : CachedBlock(g)'
  <2> SUFFICES ASSUME NEW g \in Alive(block_cache') PROVE CachedBlock(g)'
    OBVIOUS
  <2>1. CASE g = h
    <3>1. /\ key = <<key[1], key[2]>> /\ key[1] = tables[th.slot].cache_id
          /\ key[2] = th.offset
      BY DEF key, BlockKey
    <3>2. \A s \in Slot : tables[s].cache_id = key[1] => tables[s].number = block.number
      <4>1. \A s \in Slot : tables[s].cache_id = tables[th.slot].cache_id => s = th.slot
        BY <1>3 DEF Inv, TablesInv, UniqueIds
      <4> QED BY <1>3, <1>5, <3>1, <4>1
    <3> QED BY <1>1, <1>3, <1>5, <1>9, <2>1, <3>1, <3>2 DEF CachedBlock
  <2>2. CASE g # h
    <3>1. g \in Alive(block_cache) /\ CachedBlock(g)
      BY <1>9, <2>2 DEF Inv, BlocksInv, CachedBlocks
    <3> QED BY <1>1, <1>9, <2>2, <3>1 DEF CachedBlock
  <2> QED BY <2>1, <2>2
<1>13. \A g \in Alive(block_cache) \cap Alive(block_cache') :
         block_cache'.value[g] = block_cache.value[g]
  BY <1>7, <1>9
<1> QED BY <1>1, <1>6, <1>8, <1>9, <1>10, <1>11, <1>12, <1>13, BlockStep DEF Using

LEMMA DeleteBlockIteratorStep ==
  ASSUME Inv, NEW t \in Thread, DeleteBlockIterator(t)
  PROVE  Inv'
<1> DEFINE th == thread[t]
           h == th.block.handle
           next == LeaveBlock(th)
<1>1. /\ th.pc = "use" /\ th.pc \in Using /\ Goto(t, next)
      /\ block_cache' = (IF h = "none" THEN block_cache ELSE ReleaseHandle(block_cache, h))
      /\ UNCHANGED <<fileVars, cache_, last_id_, tables>>
  BY DEF DeleteBlockIterator, At, Using
<1>2. th \in ThreadState
  BY <1>1, UserIs
<1>3. /\ next \in ThreadState /\ next.pc \in {"release", "found"} /\ next.slot = th.slot
      /\ next.number = th.number /\ next.doomed = th.doomed /\ next.then = th.then
      /\ next.block = NoBlock /\ next.block.handle = "none"
  BY <1>2, LeaveBlockIs
<1> HIDE DEF next
<1>4. thread'[t] = next => ThreadBlock(t)'
  BY <1>3 DEF ThreadBlock, Reads
<1>5. CASE h = "none"
  BY <1>1, <1>3, <1>4, <1>5, QuietStep DEF Using
<1>6. CASE h # "none"
  <2>1. /\ h \in BlockHandle /\ block_cache.held[h] > 0 /\ IsCache(block_cache, BlockHandle)
        /\ "none" \notin BlockHandle /\ h \in Alive(block_cache)
    BY <1>6, ReaderIs, TableCacheAssumption DEF Inv, Types
  <2> HIDE DEF h
  <2>2. /\ IsCache(block_cache', BlockHandle)
        /\ block_cache'.held = [block_cache.held EXCEPT ![h] = @ - 1]
        /\ Alive(block_cache') \subseteq Alive(block_cache)
        /\ \A x \in Alive(block_cache') : /\ block_cache'.key[x] = block_cache.key[x]
                                          /\ block_cache'.value[x] = block_cache.value[x]
    <3> DEFINE d == ReleaseHandle(block_cache, h)
    <3>1. /\ IsCache(d, BlockHandle) /\ d.held = [block_cache.held EXCEPT ![h] = @ - 1]
          /\ Alive(d) \subseteq Alive(block_cache)
          /\ \A x \in Alive(d) : d.key[x] = block_cache.key[x] /\ d.value[x] = block_cache.value[x]
      BY <2>1, ReleaseHandleIs
    <3>2. block_cache' = d
      BY <1>1, <1>6
    <3> HIDE DEF d
    <3> QED BY <3>1, <3>2
  <2>3. block_cache.held \in [BlockHandle -> Nat]
    BY <2>1 DEF IsCache
  <2>4. \A g \in BlockHandle :
          /\ (th.block.handle = g <=> next.block.handle = g) =>
               block_cache'.held[g] = block_cache.held[g]
          /\ next.block.handle = g /\ th.block.handle # g =>
               block_cache'.held[g] = block_cache.held[g] + 1
          /\ th.block.handle = g /\ next.block.handle # g =>
               block_cache'.held[g] = block_cache.held[g] - 1
    <3>1. th.block.handle = h
      BY DEF h
    <3> QED BY <1>3, <2>1, <2>2, <2>3, <3>1
  <2>5. \A g \in Alive(block_cache') : CachedBlock(g)'
    BY <1>1, <2>2 DEF Inv, BlocksInv, CachedBlocks, CachedBlock
  <2>6. \A g \in Alive(block_cache) \cap Alive(block_cache') :
          block_cache'.value[g] = block_cache.value[g]
    BY <2>2
  <2> QED BY <1>1, <1>3, <1>4, <2>2, <2>4, <2>5, <2>6, BlockStep DEF Using
<1> QED BY <1>5, <1>6

(* A new block cache when no table is left: no id of the old one is used.  *)
LEMMA ReplaceBlockCacheStep ==
  ASSUME Inv, ReplaceBlockCache
  PROVE  Inv'
<1>1. /\ AllIdle /\ InMap(cache_) = {} /\ block_cache' = NewLRUCache(BlockHandle, NoBlock)
      /\ last_id_' = 0 /\ UNCHANGED <<fileVars, cache_, tables, thread>>
  BY DEF ReplaceBlockCache
<1>2. /\ IsCache(block_cache', BlockHandle) /\ Alive(block_cache') = {}
      /\ block_cache'.held = [h \in BlockHandle |-> 0]
  BY <1>1, NewCacheIs
<1>3. \A t \in Thread : /\ thread[t].pc = "idle" /\ thread[t].doomed = {}
                        /\ thread[t].block = NoBlock /\ ~Holds(t) /\ ~Opens(t) /\ ~Draws(t)
  BY <1>1, IdleThread DEF AllIdle, NoReader
<1>4. Alive(cache_) = {}
  BY <1>1, NoneHeld
<1>5. \A s \in Slot : tables[s] = NoTable
  BY <1>3, <1>4 DEF Inv, TablesInv, NothingLeft, Owned
<1>a. Permits' /\ Types'
  <2>1. 0 \in Nat /\ \A s \in Slot : tables[s] = NoTable \/ ATable(s)'
    BY <1>5
  <2> QED BY <1>1, <1>2, <2>1, FilesFrame DEF Inv, Types
<1>b. BlocksCounted'
  <2> SUFFICES ASSUME NEW h \in BlockHandle PROVE Cardinality(Readers(h))' = 0
    BY <1>2 DEF BlocksCounted
  <2>1. Readers(h)' = {}
    BY <1>1, <1>3, TableCacheAssumption DEF Readers, NoBlock
  <2> QED BY <2>1, FS_EmptySet
<1>c. CachedBlocks' /\ ThreadBlocks'
  BY <1>1, <1>2, <1>3 DEF CachedBlocks, ThreadBlocks, ThreadBlock, Reads
<1>d. Threads_' /\ HeldCounted' /\ HoldersTable' /\ UniqueIds' /\ Within(cache_, entries)'
  BY <1>1 DEF Threads_, HeldCounted, HoldersTable, UniqueIds, Within, Holders, Holds, Opens,
              Inv, TablesInv
<1>e. OpeningOwns' /\ CacheOwns' /\ DeleterOwns' /\ NothingLeft'
  BY <1>1, <1>3, <1>4 DEF OpeningOwns, Opens, CacheOwns, DeleterOwns, NothingLeft, Owned, Inv,
                          TablesInv, fileVars
<1>f. IdsCounted'
  <2>1. Drawing' = {}
    BY <1>1, <1>3 DEF Drawing, Draws
  <2>2. MaxId \in Nat
    BY TableCacheAssumption
  <2>3. Cardinality(Drawing)' = 0
    BY <2>1, FS_EmptySet
  <2> QED BY <1>1, <2>2, <2>3 DEF IdsCounted
<1> QED BY <1>a, <1>b, <1>c, <1>d, <1>e, <1>f DEF Inv, TablesInv, BlocksInv

-----------------------------------------------------------------------------
(* The invariant holds                                                     *)

LEMMA InitInv == Init => Inv
<1> SUFFICES ASSUME Init PROVE Inv
  OBVIOUS
<1>1. \A t \in Thread : thread[t] = Idle
  BY DEF Init
<1>2. /\ IsCache(cache_, Slot) /\ Alive(cache_) = {} /\ cache_.held = [s \in Slot |-> 0]
      /\ \A i \in Shards : Len(cache_.order[i]) = 0
  BY NewCacheIs DEF Init
<1>3. /\ IsCache(block_cache, BlockHandle) /\ Alive(block_cache) = {}
      /\ block_cache.held = [h \in BlockHandle |-> 0]
  BY NewCacheIs DEF Init
<1>4. \A t \in Thread : ~Holds(t) /\ ~Opens(t) /\ ~Draws(t) /\ ~Reads(t)
  BY <1>1, IdleIs DEF Holds, Opens, Draws, Reads
<1>a. Permits
  <2>1. /\ stage \in [Slot -> Stage] /\ \A s \in Slot : stage[s] = "none"
        /\ mmap_limiter_ = MaxMmaps /\ fd_limiter_ = MaxOpenFiles
    BY DEF Init, FilesInit, Stage
  <2>2. FilesTypeOK
    BY <2>1, LimitAssumption DEF FilesTypeOK
  <2>3. \A X : "none" \notin X => In(X) = {}
    BY <2>1 DEF In
  <2>4. /\ In(MmapStages) = {} /\ In({"noMmap"}) = {} /\ In(FdStages) = {} /\ In({"noFd"}) = {}
    BY <2>3 DEF MmapStages, FdStages
  <2>5. /\ Cardinality(In(MmapStages)) = 0 /\ Cardinality(In({"noMmap"})) = 0
        /\ Cardinality(In(FdStages)) = 0 /\ Cardinality(In({"noFd"})) = 0
    BY <2>4, FS_EmptySet
  <2> QED BY <2>1, <2>2, <2>5, PermitsAre, LimitAssumption
<1>b. Types
  BY <1>2, <1>3, IdleIs DEF Init, Types, NoTable
<1>c. Threads_
  BY <1>1, <1>4, IdleIs DEF Threads_
<1>d. OpeningOwns /\ CacheOwns /\ DeleterOwns /\ HoldersTable
  BY <1>1, <1>2, <1>4, IdleIs DEF OpeningOwns, CacheOwns, DeleterOwns, HoldersTable
<1>e. NothingLeft /\ UniqueIds
  BY DEF Init, FilesInit, NothingLeft, UniqueIds
<1>f. HeldCounted
  <2>1. \A s \in Slot : Holders(s) = {}
    BY <1>4 DEF Holders
  <2> QED BY <1>2, <2>1, FS_EmptySet DEF HeldCounted
<1>g. IdsCounted
  <2>1. Drawing = {} /\ MaxId \in Nat /\ last_id_ = 0
    BY <1>4, TableCacheAssumption DEF Drawing, Init
  <2>2. Cardinality(Drawing) = 0
    BY <2>1, FS_EmptySet
  <2> QED BY <2>1, <2>2 DEF IdsCounted
<1>h. Within(cache_, entries)
  <2>1. entries \in Nat
    BY TableCacheAssumption
  <2>2. PerShard(entries) \in Nat
    BY <2>1, PerShardIs
  <2>3. 0 <= PerShard(entries)
    BY <2>2
  <2> QED BY <1>2, <2>3 DEF Within
<1>i. BlocksInv
  <2>1. \A h \in BlockHandle : Readers(h) = {}
    BY <1>1, IdleIs, TableCacheAssumption DEF Readers, NoBlock
  <2>2. BlocksCounted
    BY <1>3, <2>1, FS_EmptySet DEF BlocksCounted
  <2>3. CachedBlocks /\ ThreadBlocks
    BY <1>1, <1>3, <1>4, IdleIs DEF CachedBlocks, ThreadBlocks, ThreadBlock
  <2> QED BY <2>2, <2>3 DEF BlocksInv
<1> QED BY <1>a, <1>b, <1>c, <1>d, <1>e, <1>f, <1>g, <1>h, <1>i DEF Inv, TablesInv

LEMMA FindTableStep ==
  ASSUME Inv, NEW t \in Thread, FindTable(t)
  PROVE  Inv'
BY FindHitStep, FindMissStep DEF FindTable

LEMMA StutterInv == Inv /\ UNCHANGED vars => Inv'
<1> SUFFICES ASSUME Inv, UNCHANGED vars PROVE Inv'
  OBVIOUS
<1>1. UNCHANGED <<fileVars, stage, cache_, block_cache, last_id_, tables, thread>>
  BY DEF vars, fileVars
<1>2. Permits' /\ Types'
  BY <1>1, FilesFrame DEF Inv, Types, ATable
<1>3. /\ Threads_' /\ HeldCounted' /\ HoldersTable' /\ UniqueIds' /\ Within(cache_, entries)'
      /\ IdsCounted'
  BY <1>1 DEF Threads_, HeldCounted, HoldersTable, UniqueIds, Within, Holders, Holds, Opens,
              IdsCounted, Drawing, Draws, Inv, TablesInv
<1>4. CacheOwns' /\ DeleterOwns' /\ NothingLeft'
  BY <1>1 DEF Opens, CacheOwns, ATable, DeleterOwns, OwnsDoomed, NothingLeft, Owned, Inv, TablesInv
<1>5. OpeningOwns'
  BY <1>1 DEF OpeningOwns, OwnsSlot, OpeningStage, ATable, Opens, Inv, TablesInv
<1>6. BlocksInv'
  BY <1>1 DEF BlocksInv, BlocksCounted, Readers, CachedBlocks, CachedBlock, ThreadBlocks,
              ThreadBlock, Reads, Inv
<1> QED BY <1>2, <1>3, <1>4, <1>5, <1>6 DEF Inv, TablesInv

LEMMA NextInv == Inv /\ [Next]_vars => Inv'
<1> SUFFICES ASSUME Inv, [Next]_vars PROVE Inv'
  OBVIOUS
<1>1. CASE ReplaceBlockCache
  BY <1>1, ReplaceBlockCacheStep
<1>2. ASSUME NEW t \in Thread, Step(t) PROVE Inv'
  <2>1. CASE FindTable(t) BY <2>1, FindTableStep
  <2>2. CASE OpenFile(t) BY <2>2, OpenFileStep
  <2>3. CASE NewRandomAccessFile(t) BY <2>3, NewRandomAccessFileStep
  <2>4. CASE OpenTable(t) BY <2>4, OpenTableStep
  <2>5. CASE OpenTableFails(t) BY <2>5, OpenTableFailsStep
  <2>6. CASE InsertTable(t) BY <2>6, InsertTableStep
  <2>7. CASE DeleteTable(t) BY <2>7, DeleteTableStep
  <2>8. CASE DeleteTableFile(t) BY <2>8, DeleteTableFileStep
  <2>9. CASE LookupBlock(t) BY <2>9, LookupBlockStep
  <2>10. CASE ReadBlock(t) BY <2>10, ReadBlockStep
  <2>11. CASE FillCache(t) BY <2>11, FillCacheStep
  <2>12. CASE DoNotFill(t) BY <2>12, DoNotFillStep
  <2>13. CASE DeleteBlockIterator(t) BY <2>13, DeleteBlockIteratorStep
  <2>14. CASE LeaveTable(t) BY <2>14, LeaveTableStep
  <2>15. CASE ReleaseTable(t) BY <2>15, ReleaseTableStep
  <2>16. CASE DeleteTableCache(t) BY <2>16, DeleteTableCacheStep
  <2> QED BY <1>2, <2>1, <2>2, <2>3, <2>4, <2>5, <2>6, <2>7, <2>8, <2>9, <2>10, <2>11, <2>12,
             <2>13, <2>14, <2>15, <2>16 DEF Step
<1>3. CASE UNCHANGED vars
  BY <1>3, StutterInv
<1> QED BY <1>1, <1>2, <1>3 DEF Next

(* The invariant above holds in every reachable state.                     *)
THEOREM Invariance == Spec => []Inv
<1>1. Init => Inv BY InitInv
<1>2. Inv /\ [Next]_vars => Inv' BY NextInv
<1> QED BY <1>1, <1>2, PTL DEF Spec

-----------------------------------------------------------------------------
(* What follows                                                            *)

(* No Limiter loses or invents a permit, however the calls that open files *)
(* and the destructors interleave: the files mapped and the descriptors    *)
(* kept open stay within the limits.                                       *)
THEOREM LimitsHold == Spec => []PermitsExact
<1>1. Inv => PermitsExact
  BY DEF Inv, Permits
<1> QED BY <1>1, Invariance, PTL

LEMMA InvUses == Inv => UsesAreLive
<1> SUFFICES ASSUME Inv, NEW t \in Thread
             PROVE  /\ Holds(t) => /\ thread[t].slot \in Alive(cache_)
                                   /\ tables[thread[t].slot].number = thread[t].number
                                   /\ stage[thread[t].slot] \in FileStage
                    /\ HasBlock(t) =>
                         /\ thread[t].block.at = "heap" \/ stage[thread[t].block.at] = "mapped"
                         /\ thread[t].block.handle # "none" =>
                              block_cache.value[thread[t].block.handle] = thread[t].block
  BY DEF UsesAreLive
<1>1. Holds(t) => /\ thread[t].slot \in Alive(cache_)
                  /\ tables[thread[t].slot].number = thread[t].number
                  /\ stage[thread[t].slot] \in FileStage
  BY HolderIs
<1>2. HasBlock(t) =>
        /\ thread[t].block.at = "heap" \/ stage[thread[t].block.at] = "mapped"
        /\ thread[t].block.handle # "none" =>
             block_cache.value[thread[t].block.handle] = thread[t].block
  BY DEF HasBlock, Inv, BlocksInv, ThreadBlocks, ThreadBlock
<1> QED BY <1>1, <1>2

(* What a Get() or an iterator uses is not deleted under it: its table and *)
(* file, and the block it reads, whatever the other calls evict or close.  *)
THEOREM UsesStayAlive == Spec => []UsesAreLive
BY InvUses, Invariance, PTL

(* A reader gets the block of its own table, though the block cache is     *)
(* shared by all tables and outlives them.                                 *)
THEOREM BlocksAreRight == Spec => []RightBlock
<1>1. Inv => RightBlock
  BY DEF RightBlock, HasBlock, Inv, BlocksInv, ThreadBlocks, ThreadBlock
<1> QED BY <1>1, Invariance, PTL

LEMMA AtMostOne ==
  ASSUME NEW A, NEW x, A \subseteq {x}
  PROVE  Cardinality(A) = IF A = {} THEN 0 ELSE 1
<1>1. CASE A = {}
  BY <1>1, FS_EmptySet
<1>2. CASE A # {}
  <2>1. A = {x}
    BY <1>2
  <2> QED BY <1>2, <2>1, FS_Singleton
<1> QED BY <1>1, <1>2

LEMMA OwnersAre ==
  ASSUME Inv, NEW s \in Slot
  PROVE  LET owners == Cardinality(Opening(s)) + Cardinality(Deleting(s))
                       + Cardinality({s} \cap Alive(cache_))
         IN  owners <= 1 /\ (Owned(s) => owners = 1)
<1> DEFINE O == Opening(s)
           D == Deleting(s)
           C == {s} \cap Alive(cache_)
<1>1. /\ O = {t \in Thread : Opens(t) /\ thread[t].slot = s}
      /\ D = {t \in Thread : s \in thread[t].doomed}
      /\ C # {} <=> s \in Alive(cache_)
  BY DEF Opening, Deleting, Opens
<1>2. \A t \in O : O \subseteq {t} /\ D = {} /\ C = {}
  BY <1>1 DEF Inv, TablesInv, OpeningOwns, OwnsSlot
<1>3. \A t \in D : D \subseteq {t} /\ C = {}
  BY <1>1 DEF Inv, TablesInv, DeleterOwns, OwnsDoomed
<1>4. Owned(s) => O # {} \/ D # {} \/ C # {}
  BY <1>1 DEF Owned
<1> HIDE DEF O, D, C
<1>5. Cardinality(O) = IF O = {} THEN 0 ELSE 1
  <2>1. PICK x : O \subseteq {x}
    BY <1>2
  <2> QED BY <2>1, AtMostOne
<1>6. Cardinality(D) = IF D = {} THEN 0 ELSE 1
  <2>1. PICK x : D \subseteq {x}
    BY <1>3
  <2> QED BY <2>1, AtMostOne
<1>7. Cardinality(C) = IF C = {} THEN 0 ELSE 1
  <2>1. C \subseteq {s}
    BY DEF C
  <2> QED BY <2>1, AtMostOne
<1>8. (O # {} => D = {} /\ C = {}) /\ (D # {} => C = {})
  BY <1>2, <1>3
<1>9. /\ Cardinality(O) + Cardinality(D) + Cardinality(C) <= 1
      /\ Owned(s) => Cardinality(O) + Cardinality(D) + Cardinality(C) = 1
  BY <1>4, <1>5, <1>6, <1>7, <1>8
<1> QED BY <1>9 DEF O, D, C

LEMMA InvOwners == Inv => OneOwner
<1> SUFFICES ASSUME Inv PROVE OneOwner
  OBVIOUS
<1>1. ASSUME NEW s \in Slot
      PROVE  LET owners == Cardinality(Opening(s)) + Cardinality(Deleting(s))
                           + Cardinality({s} \cap Alive(cache_))
             IN  /\ owners <= 1
                 /\ stage[s] # "none" \/ tables[s] # NoTable => owners = 1
                 /\ cache_.held[s] = Cardinality({t \in Thread : Holds(t) /\ thread[t].slot = s})
  <2>1. stage[s] # "none" \/ tables[s] # NoTable => Owned(s)
    BY DEF Inv, TablesInv, NothingLeft
  <2>2. cache_.held[s] = Cardinality({t \in Thread : Holds(t) /\ thread[t].slot = s})
    BY DEF Inv, TablesInv, HeldCounted, Holders
  <2> QED BY <2>1, <2>2, OwnersAre
<1>2. ASSUME AllIdle
      PROVE  /\ In(Stage \ {"none"}) = InMap(cache_)
             /\ \A i \in DOMAIN cache_.order : Len(cache_.order[i]) <= PerShard(entries)
  <2>1. \A t \in Thread : ~Opens(t) /\ thread[t].doomed = {}
    BY <1>2, IdleThread DEF AllIdle
  <2>2. Alive(cache_) = InMap(cache_) /\ Alive(cache_) \subseteq Slot
    BY <1>2, NoneHeld, CacheIs DEF Inv, Types
  <2>3. \A s \in Slot : stage[s] \in Stage
    BY DEF Inv, Permits, PermitsExact, FilesTypeOK
  <2>4. \A s \in Slot : stage[s] # "none" => s \in Alive(cache_)
    BY <2>1 DEF Inv, TablesInv, NothingLeft, Owned
  <2>5. \A s \in Alive(cache_) : stage[s] # "none"
    BY DEF Inv, TablesInv, CacheOwns, FileStage
  <2>6. In(Stage \ {"none"}) = InMap(cache_)
    BY <2>2, <2>3, <2>4, <2>5 DEF In
  <2>7. DOMAIN cache_.order = Shards
    BY DEF Inv, Types, IsCache
  <2> QED BY <2>6, <2>7 DEF Inv, TablesInv, Within
<1> QED BY <1>1, <1>2 DEF OneOwner

(* Every file and table is in the hands of exactly one call or of the      *)
(* cache; when no call is under way the files open are those in the map.   *)
THEOREM OwnedOnce == Spec => []OneOwner
BY InvOwners, Invariance, PTL
=============================================================================
