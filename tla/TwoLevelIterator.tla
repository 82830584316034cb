-------------------------- MODULE TwoLevelIterator --------------------------
(***************************************************************************)
(* table/two_level_iterator.cpp over the blocks of table/block.cpp, which  *)
(* is Table::NewIterator(): an index iterator whose entries lead to data   *)
(* blocks, and a data iterator inside the block of the current entry.      *)
(* block_function_ may fail to read a block, which gives an error iterator *)
(* (never Valid(), status not OK), and the header of an entry of any block *)
(* may be damaged so that Block::Iter refuses it.  (Other damage, after    *)
(* which the bytes that follow are taken for entries, is not modelled; the *)
(* checksums of ReadBlock() are there for that.)                           *)
(*                                                                         *)
(* A positioning call is its first moves, one step for each round of the   *)
(* SkipEmptyDataBlocks loop, and its return.                               *)
(***************************************************************************)
EXTENDS Block, TableLayout

CONSTANTS Bytes,     \* Bytes[k]: the byte string of the key k
          Layouts    \* the tables iterated over: a layout (TableLayout), the
                     \* restart interval of its data blocks, whether empty
                     \* ones lack the first restart point, and the damage:
                     \* a header in place of that of an entry of a block
                     \* (0 is the index block, -1 none)

ASSUME KeyAssumption ==
  /\ Key \subseteq Nat \ {0}
  /\ \A j, k \in Key : j < k <=> Less(Bytes[j], Bytes[k])

ASSUME LayoutAssumption ==
  \A t \in Layouts : WellFormed(t) /\ \A i \in 1 .. t.n : IsFiniteSet(t.block[i])

VARIABLES table,     \* the layout and its blocks, index and data; constant
          index_,    \* index_iter_, a Block::Iter
          data_,     \* data_iter_: its block, which data_block_handle_ names,
                     \* whether that could be read, and the Block::Iter
          status_,   \* status_.ok()
          pc,        \* "idle", or the loop the call is in
          call,      \* the call being executed
          from,      \* the key the iterator stood on when it was called
          last       \* the call that returned last, for the properties

vars == <<table, index_, data_, status_, pc, call, from, last>>

NULL == 0
BlockNo == 1 .. table.layout.n
NoIterator == [block |-> NULL, read |-> FALSE, it |-> NULL]
NoCall == [fn |-> "none", key |-> NULL]
Target(op) == IF op.key = NULL THEN <<>> ELSE Bytes[op.key]

-----------------------------------------------------------------------------
(* The blocks of a table.                                                  *)

(* The keys in the order in which they were added.                         *)
InOrder(keys) ==
  CHOOSE s \in [1 .. Cardinality(keys) -> keys] :
    \A i, j \in 1 .. Cardinality(keys) : i < j => s[i] < s[j]

BuildBlock(keys, value, interval) ==
  LET add(b, k) == BlockAdd(b, Bytes[k], value[k], interval)
  IN  BlockFinish(FoldLeft(add, NewBlockBuilder, InOrder(keys)))

(* Header h in place of the one of entry i, if the damage is in block n.   *)
Damaged(b, n, t) ==
  IF t.damage.block # n THEN b
  ELSE [b EXCEPT !.entries[t.damage.entry].header = t.damage.header]

DataBlock(t, i) ==
  IF t.bare /\ t.block[i] = {} THEN [entries |-> <<>>, restarts |-> <<>>]
  ELSE Damaged(BuildBlock(t.block[i], [k \in Key |-> k], t.interval), i, t)

(* An index block has restart interval 1, its values are the handles.      *)
IndexBlock(t) ==
  Damaged(BuildBlock({t.sep[i] : i \in 1 .. t.n},
                     [k \in Key |-> Max({0} \cup {i \in 1 .. t.n : t.sep[i] = k})], 1), 0, t)

(* Wherever it is in b the header h is refused: its first varint does not  *)
(* end, the lengths exceed all of b, or no key has so long a prefix.       *)
Refused(b, h) ==
  LET d == DecodeHeader(h)
  IN  \/ Len(h) >= kMaxVarint32 /\ \A i \in 1 .. kMaxVarint32 : h[i] >= B
      \/ d.ok /\ Lengths(d) > BytesFrom(b, 0)
      \/ d.ok /\ \A k \in Key : d.shared > Len(Bytes[k])

ASSUME DamageAssumption ==
  \A t \in Layouts :
    LET n == t.damage.block
    IN  n # -1 => Refused(IF n = 0 THEN IndexBlock(t) ELSE DataBlock(t, n), t.damage.header)

Init ==
  /\ \E t \in Layouts :
       table = [layout |-> t, index |-> IndexBlock(t), data |-> [i \in 1 .. t.n |-> DataBlock(t, i)]]
  /\ index_ = NewIter(table.index)
  /\ data_ = NoIterator
  /\ status_ = TRUE
  /\ pc = "idle"
  /\ call = NoCall /\ last = NoCall
  /\ from = NULL

-----------------------------------------------------------------------------
IndexValid == IterValid(table.index, index_)

(* index_iter_ after the call op.                                          *)
IndexAfter(op) == IterCall(table.index, index_, op.fn, Target(op))

(* A data iterator after the call op; an error iterator stays as it is,    *)
(* and there may be none.                                                  *)
DataAfter(d, op) ==
  IF ~d.read THEN d
  ELSE [d EXCEPT !.it = IterCall(table.data[d.block], @, op.fn, Target(op))]

DataOk(d) == d = NoIterator \/ (d.read /\ d.it.ok)

(* What block_function_ returns for the handle i.                          *)
NewDataIterator(i) ==
  {[block |-> i, read |-> r, it |-> NewIter(table.data[i])] : r \in BOOLEAN}

(* InitDataBlock(): the data iterators that may belong to the index entry. *)
InitDataBlock(index) ==
  IF ~IterValid(table.index, index) THEN {NoIterator}
  ELSE IF data_.block = IterValue(table.index, index) THEN {data_}
  ELSE NewDataIterator(IterValue(table.index, index))

(* Mutant: the error of the iterator that is replaced is dropped.          *)
SaveErrorForgotten(d) == status_

(* SetDataIterator() saves the error of the iterator it replaces by d.     *)
SaveError(d) == status_ /\ (DataOk(data_) \/ d.block = data_.block)

(* The index iterator makes the call iop, InitDataBlock() follows it, and  *)
(* the data iterator, if there is one, makes the call dop.                 *)
MoveBoth(iop, dop) ==
  \E index \in {IndexAfter(iop)} :
    /\ index_' = index
    /\ \E d \in InitDataBlock(index) :
         /\ status_' = SaveError(d)
         /\ data_' = DataAfter(d, dop)

Valid == data_.read /\ IterValid(table.data[data_.block], data_.it)

(* The key the iterator stands on; -1 if it is none of the table's.        *)
key ==
  IF ~Valid THEN NULL
  ELSE IF \E k \in Key : Bytes[k] = data_.it.key
    THEN CHOOSE k \in Key : Bytes[k] = data_.it.key
    ELSE -1

Begin(op, loop) ==
  /\ pc = "idle"
  /\ pc' = loop
  /\ call' = op
  /\ from' = key
  /\ UNCHANGED <<table, last>>

-----------------------------------------------------------------------------
Seek(target) ==
  LET op == [fn |-> "Seek", key |-> target]
  IN  Begin(op, "SkipEmptyDataBlocksForward") /\ MoveBoth(op, op)

SeekToFirst ==
  LET op == [fn |-> "SeekToFirst", key |-> NULL]
  IN  Begin(op, "SkipEmptyDataBlocksForward") /\ MoveBoth(op, op)

SeekToLast ==
  LET op == [fn |-> "SeekToLast", key |-> NULL]
  IN  Begin(op, "SkipEmptyDataBlocksBackward") /\ MoveBoth(op, op)

Next ==
  LET op == [fn |-> "Next", key |-> NULL]
  IN  /\ Valid
      /\ Begin(op, "SkipEmptyDataBlocksForward")
      /\ data_' = DataAfter(data_, op)
      /\ UNCHANGED <<index_, status_>>

Prev ==
  LET op == [fn |-> "Prev", key |-> NULL]
  IN  /\ Valid
      /\ Begin(op, "SkipEmptyDataBlocksBackward")
      /\ data_' = DataAfter(data_, op)
      /\ UNCHANGED <<index_, status_>>

(* One round of a SkipEmptyDataBlocks loop.                                *)
SkipEmptyDataBlocksForward ==
  /\ pc = "SkipEmptyDataBlocksForward" /\ ~Valid /\ IndexValid
  /\ MoveBoth([fn |-> "Next", key |-> NULL], [fn |-> "SeekToFirst", key |-> NULL])
  /\ UNCHANGED <<table, pc, call, from, last>>

(* Mutant: the index iterator is not moved before the next try.            *)
SkipBackwardStays ==
  /\ pc = "SkipEmptyDataBlocksBackward" /\ ~Valid /\ IndexValid
  /\ UNCHANGED vars

SkipEmptyDataBlocksBackward ==
  /\ pc = "SkipEmptyDataBlocksBackward" /\ ~Valid /\ IndexValid
  /\ MoveBoth([fn |-> "Prev", key |-> NULL], [fn |-> "SeekToLast", key |-> NULL])
  /\ UNCHANGED <<table, pc, call, from, last>>

(* The loop ends on a valid entry, or behind the last index entry with     *)
(* SetDataIterator(NULL).                                                  *)
Return ==
  /\ pc # "idle"
  /\ \/ Valid /\ UNCHANGED <<data_, status_>>
     \/ /\ ~Valid /\ ~IndexValid
        /\ status_' = SaveError(NoIterator)
        /\ data_' = NoIterator
  /\ pc' = "idle"
  /\ last' = call /\ call' = NoCall /\ from' = NULL
  /\ UNCHANGED <<table, index_>>

Skip == SkipEmptyDataBlocksForward \/ SkipEmptyDataBlocksBackward

Step ==
  \/ \E target \in Key : Seek(target)
  \/ SeekToFirst \/ SeekToLast \/ Next \/ Prev
  \/ Skip \/ Return

(* A thread that has called a method runs on until it returns.             *)
Spec == Init /\ [][Step]_vars /\ WF_vars(Skip \/ Return)

-----------------------------------------------------------------------------
status == index_.ok /\ DataOk(data_) /\ status_

(* "The returned two-level iterator yields the concatenation of all        *)
(* key/value pairs in the sequence of blocks" (two_level_iterator.h, line  *)
(* 13), empty blocks included in the sequence: whatever the blocks' restart*)
(* points, each call ends on exactly the key it asks for, or status()      *)
(* tells, from then on, that a block, an entry or the index could not be   *)
(* read.                                                                   *)
Concatenation == INSTANCE Cursor WITH
  keys <- UNION {table.layout.block[i] : i \in BlockNo},
  at <- IF pc = "idle" THEN key ELSE from,
  ok <- status

ImplementsCursor == Concatenation!Spec

(* Between calls data_iter_ and index_iter_ agree: the data iterator is    *)
(* Valid() inside the block of the index entry, or there is none (lines    *)
(* 124-139 and 159-164).  Inside its block each iterator agrees with the   *)
(* restart points: "Index of restart block in which current_ falls"        *)
(* (block.cpp, line 100), which Prev() starts from.                        *)
LevelsAgree ==
  /\ pc = "idle" =>
       data_ = NoIterator
         \/ (Valid /\ IndexValid /\ data_.block = IterValue(table.index, index_))
  /\ RegionHolds(table.index, index_)
  /\ data_.read => RegionHolds(table.data[data_.block], data_.it)

(* Both loops end, however many blocks are empty or unreadable.            *)
CallsReturn == pc # "idle" ~> pc = "idle"
=============================================================================
