------------------------------ MODULE MemTable ------------------------------
(***************************************************************************)
(* db/memtable.cpp over the skip list of db/skiplist.h.  One writer adds   *)
(* entries, the i-th of them with sequence number i; readers look keys up  *)
(* in snapshots (Get) and iterate (MemTableIterator, whose calls are those *)
(* of SkipList's Iterator), all without a lock.                            *)
(*                                                                         *)
(* A node of the skip list is named by the place its internal key has      *)
(* among those of all the writes to come, in the comparator's order.  A    *)
(* search for a key in a gap compares with the nodes as one for the place  *)
(* behind the gap does.  The value of a write is its number.               *)
(***************************************************************************)
EXTENDS SkipList, DbFormat

CONSTANTS UserKey,     \* the user keys, byte strings, that are looked up
          Workloads    \* sequences of writes: [user_key, type]

ByteString == Seq(0 .. MaxByte)

ASSUME UserKeyAssumption == UserKey \subseteq ByteString
ASSUME WorkloadAssumption ==
  \A w \in Workloads :
    /\ w \in Seq([user_key : ByteString, type : ValueType])
    /\ Key = 1 .. Len(w) + 1 /\ Len(w) <= kMaxSequenceNumber

VARIABLES writes,      \* the writes the writer makes, in order
          sequence,    \* how many of them it has begun
          lookup       \* lookup[r]: what r's last Get() asked for, if its
                       \* last call was one

memVars == <<writes, sequence, lookup>>
allVars == <<vars, memVars>>

NoLookup == [user_key |-> <<>>, snapshot |-> -1]

absent == 0          \* what Get() answers without a value
NotFound == -1

EncodedKey(i) == InternalKey(writes[i].user_key, i, writes[i].type)

(* The place of an internal key: 1 + how many of the writes sort before.   *)
Place(k) == 1 + Cardinality({i \in DOMAIN writes : InternalLess(EncodedKey(i), k)})

(* The write that the node of place p holds.                               *)
WriteAt(p) == CHOOSE i \in DOMAIN writes : Place(EncodedKey(i)) = p

-----------------------------------------------------------------------------
MemInit ==
  /\ Init
  /\ writes \in Workloads
  /\ sequence = 0
  /\ lookup = [r \in Reader |-> NoLookup]

(* Add(): the entry is encoded and inserted.                               *)
Add ==
  /\ sequence < Len(writes)
  /\ StartInsert(Place(EncodedKey(sequence + 1)))
  /\ sequence' = sequence + 1
  /\ UNCHANGED <<writes, lookup>>

(* The writes whose Add() has returned: a snapshot is one of these.        *)
LastSequence == IF pc[Writer] = "idle" THEN sequence ELSE sequence - 1

(* Get(LookupKey(u, s)), up to the Seek() of its own Iterator.             *)
Get(r, u, s) ==
  /\ \E l \in Level : StartSearch(r, "Seek", Place(LookupKey(u, s)), l)
  /\ lookup' = [lookup EXCEPT ![r] = [user_key |-> u, snapshot |-> s]]
  /\ UNCHANGED <<node_, found, writes, sequence>> /\ ReaderFrame

(* The calls of a MemTableIterator.                                        *)
Iterate(r) ==
  /\ IterSeekToFirst(r) \/ IterNext(r) \/ StartRead(r)
  /\ lookup' = [lookup EXCEPT ![r] = NoLookup]
  /\ UNCHANGED <<writes, sequence>>

(* What Get() makes of the node its Seek() has found: absent (false) if *)
(* the key is not in the table, NotFound if it was deleted, or the value.  *)
GetAnswer(r) ==
  LET k == EncodedKey(WriteAt(node_[r]))
  IN  IF node_[r] = nullptr THEN absent
      ELSE IF ExtractUserKey(k) # lookup[r].user_key THEN absent
      ELSE IF ExtractValueType(k) = kTypeValue THEN WriteAt(node_[r])
      ELSE NotFound

-----------------------------------------------------------------------------
InsertContinues ==
  /\ \/ Search(Writer)
     \/ \E h \in RandomHeight : ChooseHeight(h)
     \/ LinkNode \/ PublishNode
  /\ UNCHANGED memVars

ReadContinues(r) == (Search(r) \/ ReaderReturns(r)) /\ UNCHANGED memVars

MemNext ==
  \/ Add \/ InsertContinues
  \/ \E r \in Reader :
       \/ \E u \in UserKey, s \in 0 .. LastSequence : Get(r, u, s)
       \/ Iterate(r) \/ ReadContinues(r)

MemSpec == MemInit /\ [][MemNext]_allVars /\ \A r \in Reader : WF_allVars(ReadContinues(r))

-----------------------------------------------------------------------------
(* What was written last to u in the first s writes.                       *)
Snapshot(u, s) ==
  LET mine == {i \in 1 .. s : writes[i].user_key = u}
  IN  IF mine = {} THEN absent
      ELSE IF writes[Max(mine)].type = kTypeValue THEN Max(mine)
      ELSE NotFound

(* Get() reads its snapshot: the newest write of the key at or before the  *)
(* snapshot's sequence number, although newer writes are inserted into the *)
(* list while it searches, and although "we do not check the sequence      *)
(* number since the Seek() call above should have skipped all entries with *)
(* overly large sequence numbers" (memtable.cpp, lines 130-132).           *)
GetSeesSnapshot ==
  \A r \in Reader : lookup[r] # NoLookup /\ pc[r] = "idle" =>
    GetAnswer(r) = Snapshot(lookup[r].user_key, lookup[r].snapshot)
=============================================================================
