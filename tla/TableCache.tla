----------------------------- MODULE TableCache -----------------------------
(***************************************************************************)
(* db/table_cache.cpp with the tables, files and blocks it hands out:      *)
(* threads look up a table by its file number, open it if it is not in the *)
(* cache, and read blocks of it through the block cache.                   *)
(*                                                                         *)
(* A table lives in the slot of its RandomAccessFile (ReadableFiles), and  *)
(* the slot is its handle in the table cache.  The deleters of a cache run *)
(* under the mutex of the shard, so that the steps by which a file is      *)
(* closed hold up the other users of the shard.  A block is the file       *)
(* number and the offset it was read from and where its bytes are: on the  *)
(* heap, or in the mapping of a slot.                                      *)
(***************************************************************************)
EXTENDS ReadableFiles, ShardedCache

CONSTANTS
  Thread,
  FileNumber, Offset,   \* the table files, and the blocks of each
  BlockHandle,          \* the handles of the block cache
  entries,              \* the capacity of the table cache
  blockEntries,         \* the capacity of options.block_cache
  MaxId                 \* bound on last_id_

ASSUME TableCacheAssumption ==
  /\ {FileNumber, Offset} \subseteq SUBSET (Nat \ {0})
  /\ {entries, blockEntries, MaxId} \subseteq Nat
  /\ IsFiniteSet(Thread) /\ IsFiniteSet(BlockHandle)
  /\ "none" \notin Slot \cup BlockHandle
  /\ \A n \in FileNumber : Shard(<<n>>) \in 0 .. kNumShards - 1
  /\ \A id \in 1 .. MaxId, offset \in Offset : Shard(<<id, offset>>) \in 0 .. kNumShards - 1

VARIABLES
  cache_,        \* the table cache, whose handles are slots
  block_cache,
  last_id_,      \* of the block cache
  tables,        \* tables[s]: the file number and cache_id of the Table of s
  thread         \* what each thread is doing

vars == <<fileVars, cache_, block_cache, last_id_, tables, thread>>

NoSlot == "none"
NoTable == [number |-> 0, cache_id |-> 0]
NoBlock == [number |-> 0, offset |-> 0, at |-> "none", handle |-> "none"]
Idle == [pc |-> "idle", fn |-> "none", number |-> 0, names |-> 0, slot |-> NoSlot, offset |-> 0,
         block |-> NoBlock, doomed |-> {}, locked |-> {}, then |-> "idle"]

Init ==
  /\ FilesInit
  /\ cache_ = NewLRUCache(Slot, NoSlot)
  /\ block_cache = NewLRUCache(BlockHandle, NoBlock)
  /\ last_id_ = 0
  /\ tables = [s \in Slot |-> NoTable]
  /\ thread = [t \in Thread |-> Idle]

-----------------------------------------------------------------------------
At(t, pc) == thread[t].pc = pc
Goto(t, next) == thread' = [thread EXCEPT ![t] = next]
(* The key of a file in the table cache.                                   *)
TableKey(n) == <<n>>

Unlocked(n) == \A t \in Thread : Shard(TableKey(n)) \notin thread[t].locked

(* Memory for a new file object, and for a new handle.                     *)
FreeSlot(s) == stage[s] = "none" /\ \A t \in Thread : thread[t].slot # s
FreeHandle(h) == h \notin Alive(block_cache)

(* Ids that calls under way may still draw.                                *)
IdsLeft == last_id_ + Cardinality({t \in Thread : thread[t].pc \in {"open", "opening", "opened"}}) < MaxId

(* t goes on as next after it has deleted the entries doomed, if any, with *)
(* the shards locked.                                                      *)
AfterDeleting(next, doomed, locked) ==
  IF doomed = {} THEN next
  ELSE [next EXCEPT !.pc = "deleting", !.doomed = doomed, !.locked = locked, !.then = next.pc]

-----------------------------------------------------------------------------
(* FindTable(), called by NewIterator() and by Get().                      *)

(* Mutant: the handle is not kept while the table is used.                 *)
FindHitUncounted(t, fn, n) ==
  \E s \in WithKey(cache_, TableKey(n)) :
    /\ Goto(t, [Idle EXCEPT !.pc = "found", !.fn = fn, !.number = n, !.slot = s])
    /\ UNCHANGED cache_

FindHit(t, fn, n) ==
  \E s \in WithKey(cache_, TableKey(n)) :
    /\ cache_' = LookupHit(cache_, s)
    /\ Goto(t, [Idle EXCEPT !.pc = "found", !.fn = fn, !.number = n, !.slot = s])

FindMiss(t, fn, n) ==
  /\ WithKey(cache_, TableKey(n)) = {} /\ IdsLeft
  /\ \E s \in Slot :
       /\ FreeSlot(s)
       /\ Goto(t, [Idle EXCEPT !.pc = "open", !.fn = fn, !.number = n, !.names = 2, !.slot = s])
  /\ UNCHANGED cache_

FindTable(t) ==
  /\ At(t, "idle")
  /\ \E fn \in {"Get", "NewIterator"}, n \in FileNumber :
       Unlocked(n) /\ (FindHit(t, fn, n) \/ FindMiss(t, fn, n))
  /\ UNCHANGED <<fileVars, block_cache, last_id_, tables>>

(* The file could not be opened: there is a second name to try.            *)
NotOpened(th) ==
  IF th.names = 2 THEN [th EXCEPT !.pc = "open", !.names = 1] ELSE Idle

OpenFile(t) ==
  /\ At(t, "open")
  /\ \/ Open(thread[t].slot) /\ Goto(t, [thread[t] EXCEPT !.pc = "opening"])
     \/ UNCHANGED fileVars /\ Goto(t, NotOpened(thread[t]))
  /\ UNCHANGED <<cache_, block_cache, last_id_, tables>>

NewRandomAccessFile(t) ==
  LET th == thread[t]
  IN  /\ At(t, "opening")
      /\ FinishOpening(th.slot)
      /\ Goto(t, IF stage'[th.slot] = "none" THEN NotOpened(th)
                 ELSE IF stage'[th.slot] \in FileStage THEN [th EXCEPT !.pc = "opened"]
                 ELSE th)
      /\ UNCHANGED <<cache_, block_cache, last_id_, tables>>

(* Mutant: ids are not used up.                                            *)
NewIdStays == 1

(* ShardedLRUCache::NewId()                                                *)
NewId == last_id_ + 1

(* Table::Open() succeeds.                                                 *)
OpenTable(t) ==
  /\ At(t, "opened")
  /\ tables' = [tables EXCEPT ![thread[t].slot] = [number |-> thread[t].number, cache_id |-> NewId]]
  /\ last_id_' = NewId
  /\ Goto(t, [thread[t] EXCEPT !.pc = "insert"])
  /\ UNCHANGED <<fileVars, cache_, block_cache>>

(* Mutant: the file is not deleted.                                        *)
OpenTableFailsLeaks(t) ==
  /\ At(t, "opened")
  /\ Goto(t, Idle)
  /\ UNCHANGED <<fileVars, cache_, block_cache, last_id_, tables>>

(* Table::Open() fails: nothing is cached.                                 *)
OpenTableFails(t) ==
  /\ At(t, "opened")
  /\ Goto(t, AfterDeleting(Idle, {thread[t].slot}, {}))
  /\ UNCHANGED <<fileVars, cache_, block_cache, last_id_, tables>>

InsertTable(t) ==
  LET th == thread[t]
      before == Alive(cache_)
  IN  /\ At(t, "insert") /\ Unlocked(th.number)
      /\ cache_' = Insert(cache_, th.slot, TableKey(th.number), th.slot, entries)
      /\ Goto(t, AfterDeleting([th EXCEPT !.pc = "found"], before \ Alive(cache_'), {Shard(TableKey(th.number))}))
      /\ UNCHANGED <<fileVars, block_cache, last_id_, tables>>

-----------------------------------------------------------------------------
(* DeleteEntry(): the table, then the file.                                *)

DeleteTable(t) ==
  /\ At(t, "deleting")
  /\ \E s \in thread[t].doomed :
       /\ tables[s] # NoTable
       /\ tables' = [tables EXCEPT ![s] = NoTable]
  /\ UNCHANGED <<fileVars, cache_, block_cache, last_id_, thread>>

DeleteTableFile(t) ==
  LET th == thread[t]
  IN  /\ At(t, "deleting")
      /\ \E s \in th.doomed :
           /\ tables[s] = NoTable
           /\ DeleteFile(s)
           /\ Goto(t, IF stage'[s] # "none" THEN th
                      ELSE IF th.doomed # {s} THEN [th EXCEPT !.doomed = @ \ {s}]
                      ELSE IF th.then = "idle" THEN Idle
                      ELSE [th EXCEPT !.pc = th.then, !.doomed = {}, !.locked = {}, !.then = "idle"])
      /\ UNCHANGED <<cache_, block_cache, last_id_, tables>>

-----------------------------------------------------------------------------
(* Table::BlockReader(), for Get() and for each block an iterator enters.  *)

(* The bytes of the mapping itself are used if there is one, unless they   *)
(* are compressed (ReadBlock()).                                           *)
BlockOf(t) ==
  [number : {tables[thread[t].slot].number}, offset : {thread[t].offset}, handle : {"none"},
   at : {"heap"} \cup IF stage[thread[t].slot] = "mapped" THEN {thread[t].slot} ELSE {}]

BlockKey(t, offset) == <<tables[thread[t].slot].cache_id, offset>>

(* An iterator is modelled to leave its block before it looks up the next. *)
(* In the code InitDataBlock() has both for a moment: it deletes the old   *)
(* data iterator when block_function_ has returned the new one.  Nothing   *)
(* below depends on that: another thread may hold the old block as well.   *)
LookupBlock(t) ==
  /\ At(t, "found")
  /\ \E offset \in Offset :
       \/ /\ WithKey(block_cache, BlockKey(t, offset)) = {}
          /\ Goto(t, [thread[t] EXCEPT !.pc = "read", !.offset = offset])
          /\ UNCHANGED block_cache
       \/ \E h \in WithKey(block_cache, BlockKey(t, offset)) :
            /\ block_cache' = LookupHit(block_cache, h)
            /\ Goto(t, [thread[t] EXCEPT !.pc = "use", !.offset = offset, !.block = block_cache.value[h]])
  /\ UNCHANGED <<fileVars, cache_, last_id_, tables>>

(* The reader of the block is left: a Get() ends, an iterator may go on.   *)
LeaveBlock(th) ==
  [th EXCEPT !.pc = IF th.fn = "Get" THEN "release" ELSE "found", !.offset = 0, !.block = NoBlock]

ReadBlock(t) ==
  /\ At(t, "read")
  /\ \/ Goto(t, LeaveBlock(thread[t]))
     \/ \E block \in BlockOf(t) : Goto(t, [thread[t] EXCEPT !.pc = "fill", !.block = block])
  /\ UNCHANGED <<fileVars, cache_, block_cache, last_id_, tables>>

(* contents.cacheable && options.fill_cache                                *)
FillCache(t) ==
  LET th == thread[t]
  IN  /\ At(t, "fill") /\ th.block.at = "heap"
      /\ \E h \in BlockHandle :
           LET block == [th.block EXCEPT !.handle = h]
           IN  /\ FreeHandle(h)
               /\ block_cache' = Insert(block_cache, h, BlockKey(t, th.offset), block, blockEntries)
               /\ Goto(t, [th EXCEPT !.pc = "use", !.block = block])
      /\ UNCHANGED <<fileVars, cache_, last_id_, tables>>

DoNotFill(t) ==
  /\ At(t, "fill")
  /\ Goto(t, [thread[t] EXCEPT !.pc = "use"])
  /\ UNCHANGED <<fileVars, cache_, block_cache, last_id_, tables>>

(* The iterator over the block is deleted: ReleaseBlock() or DeleteBlock().*)
DeleteBlockIterator(t) ==
  LET h == thread[t].block.handle
  IN  /\ At(t, "use")
      /\ block_cache' = IF h = "none" THEN block_cache ELSE ReleaseHandle(block_cache, h)
      /\ Goto(t, LeaveBlock(thread[t]))
      /\ UNCHANGED <<fileVars, cache_, last_id_, tables>>

(* A filter excludes the key of a Get(), or an iterator is deleted.        *)
LeaveTable(t) ==
  /\ At(t, "found")
  /\ Goto(t, [thread[t] EXCEPT !.pc = "release"])
  /\ UNCHANGED <<fileVars, cache_, block_cache, last_id_, tables>>

(* The end of Get(), and UnrefEntry() at the end of an iterator.           *)
ReleaseTable(t) ==
  LET s == thread[t].slot
  IN  /\ At(t, "release") /\ Unlocked(thread[t].number)
      /\ cache_' = ReleaseHandle(cache_, s)
      /\ Goto(t, AfterDeleting(Idle, {s} \ Alive(cache_'), {Shard(TableKey(thread[t].number))}))
      /\ UNCHANGED <<fileVars, block_cache, last_id_, tables>>

AllIdle == \A t \in Thread : At(t, "idle")

(* ~TableCache(), once nothing of it is used.  Another may follow.         *)
DeleteTableCache(t) ==
  /\ AllIdle
  /\ InMap(cache_) # {}
  /\ cache_' = NewLRUCache(Slot, NoSlot)
  /\ Goto(t, AfterDeleting(Idle, InMap(cache_), 0 .. kNumShards - 1))
  /\ UNCHANGED <<fileVars, block_cache, last_id_, tables>>

(* The client replaces the block cache once no table uses it.              *)
ReplaceBlockCache ==
  /\ AllIdle
  /\ InMap(cache_) = {} /\ last_id_ > 0
  /\ block_cache' = NewLRUCache(BlockHandle, NoBlock)
  /\ last_id_' = 0
  /\ UNCHANGED <<fileVars, cache_, tables, thread>>

-----------------------------------------------------------------------------
Step(t) ==
  \/ FindTable(t) \/ OpenFile(t) \/ NewRandomAccessFile(t)
  \/ OpenTable(t) \/ OpenTableFails(t) \/ InsertTable(t)
  \/ DeleteTable(t) \/ DeleteTableFile(t)
  \/ LookupBlock(t) \/ ReadBlock(t) \/ FillCache(t) \/ DoNotFill(t)
  \/ DeleteBlockIterator(t) \/ LeaveTable(t) \/ ReleaseTable(t) \/ DeleteTableCache(t)

Next == ReplaceBlockCache \/ \E t \in Thread : Step(t)

Spec == Init /\ [][Next]_vars

-----------------------------------------------------------------------------
(* A thread with a handle on a table, or with a block.                     *)
Holds(t) == thread[t].pc \in {"found", "read", "fill", "use", "release"} \/ thread[t].then = "found"
HasBlock(t) == thread[t].block # NoBlock

(* While a Get() or an iterator is under way its table and file exist, of  *)
(* the number asked for, whoever replaces, evicts or deletes the entry in  *)
(* the cache; its block is alive in the block cache or its own, and one in *)
(* a mapping is used only while "the file is open" (format.cpp, lines      *)
(* 101-103).                                                               *)
UsesAreLive ==
  \A t \in Thread :
    /\ Holds(t) =>
         /\ thread[t].slot \in Alive(cache_)
         /\ tables[thread[t].slot].number = thread[t].number
         /\ stage[thread[t].slot] \in FileStage
    /\ HasBlock(t) =>
         LET block == thread[t].block
         IN  /\ block.at = "heap" \/ stage[block.at] = "mapped"
             /\ block.handle # "none" => block_cache.value[block.handle] = block

(* The block cache is shared by all tables and outlives them, and files    *)
(* are closed and reopened: a reader still gets the block of its own table *)
(* at the offset asked for.                                                *)
RightBlock ==
  \A t \in Thread : HasBlock(t) =>
    thread[t].block.number = thread[t].number /\ thread[t].block.offset = thread[t].offset

Opening(s) == {t \in Thread : thread[t].slot = s /\ thread[t].pc \in {"open", "opening", "opened", "insert"}}
Deleting(s) == {t \in Thread : s \in thread[t].doomed}

(* Every file and table has one owner that will delete it: the call that   *)
(* opens it, the cache with those who hold a handle, or the one call that  *)
(* runs its deleter; two calls that open the same file at once do not lose *)
(* either.  When no call is under way, the files open are those in the     *)
(* map, in each shard at most its share of entries.                        *)
OneOwner ==
  /\ \A s \in Slot :
       LET owners == Cardinality(Opening(s)) + Cardinality(Deleting(s))
                     + Cardinality({s} \cap Alive(cache_))
       IN  /\ owners <= 1
           /\ stage[s] # "none" \/ tables[s] # NoTable => owners = 1
           /\ cache_.held[s] = Cardinality({t \in Thread : Holds(t) /\ thread[t].slot = s})
  /\ AllIdle =>
       /\ In(Stage \ {"none"}) = InMap(cache_)
       /\ \A i \in DOMAIN cache_.order : Len(cache_.order[i]) <= PerShard(entries)
=============================================================================
