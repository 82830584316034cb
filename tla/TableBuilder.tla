---------------------------- MODULE TableBuilder ----------------------------
(***************************************************************************)
(* table/table_builder.cpp: sorted keys are cut into data blocks, followed *)
(* by filter, metaindex and index block and the footer.                    *)
(*                                                                         *)
(* A block is what it holds and its size in the file.  The file, a         *)
(* WritableFile, is the sequence of the chunks appended to it; one of its  *)
(* calls may fail, after a part of the chunk has been written.  Keys are   *)
(* internal keys, each given by its place in the sorted sequence IKey.     *)
(* Each method is one step, a function from the builder's Rep to the next. *)
(***************************************************************************)
EXTENDS FilterBlock

CONSTANTS
  IKey,                \* internal keys, sorted; with them their separators
                       \* and the keys to look them up by
  DataKey,             \* the places of the keys the client may add
  EntrySize,           \* the sizes of entries in a block
  BlockSize,           \* the values of options.block_size
  MetaSize,            \* the sizes of metaindex and index blocks
  kBlockTrailerSize,
  HAVE_SNAPPY,         \* is the library compiled in?
  MaxFileCalls         \* the call of the file that fails is among the first

KeyPlace == DOMAIN IKey
PlaceOf(k) == CHOOSE i \in KeyPlace : IKey[i] = k

ASSUME IKeyAssumption ==
  /\ IKey \in Seq([user_key : Seq(0 .. MaxByte), tag : Nat])
  /\ DataKey \subseteq KeyPlace
  /\ \A i, j \in KeyPlace :
       /\ i < j <=> InternalLess(IKey[i], IKey[j])
       /\ \E s \in KeyPlace : IKey[s] = InternalShortSuccessor(IKey[i])
       /\ i < j => \E s \in KeyPlace : IKey[s] = InternalShortestSeparator(IKey[i], IKey[j])
  /\ \A i \in KeyPlace, snapshot \in 0 .. kMaxSequenceNumber :
       \E l \in KeyPlace : IKey[l] = LookupKey(IKey[i].user_key, snapshot)
ASSUME SizeAssumption ==
  /\ HAVE_SNAPPY \in BOOLEAN
  /\ EntrySize \cup BlockSize \cup MetaSize \subseteq Nat \ {0}
  /\ {kBlockTrailerSize, MaxFileCalls} \subseteq Nat

VARIABLES rep,      \* rep_, with the file as the kernel has it
          failAt    \* the number of the call of the file that fails, or 0

builderVars == <<rep, failAt>>

(* BlockHandle(): all bits set, which no block has.                        *)
NoHandle == [offset |-> -1, size |-> -1]

BuilderInit ==
  /\ failAt \in 0 .. MaxFileCalls
  /\ \E policy \in BOOLEAN, block_size \in BlockSize :
       rep = [filter_policy |-> policy,   \* filter_block # NULL
              block_size |-> block_size,
              other_policy |-> FALSE,     \* options have another policy now
              offset |-> 0, status |-> TRUE, closed |-> FALSE,
              data_block |-> {}, data_size |-> 0,
              last_key |-> 0,
              index_block |-> <<>>,
              pending_index_entry |-> FALSE, pending_handle |-> NoHandle,
              filter_block |-> NewFilterBlockBuilder,
              file |-> <<>>, end |-> 0, calls |-> 0,
              added |-> {}]               \* all keys added, for the properties

-----------------------------------------------------------------------------
(* The file.                                                               *)

Chunk(kind, at, size, contents) ==
  [kind |-> kind, at |-> at, size |-> size, contents |-> contents]

CallFile(r) == [r EXCEPT !.calls = @ + 1, !.status = r.calls + 1 # failAt]

(* file->Append()                                                          *)
AppendFile(r, kind, size, contents) ==
  LET c == CallFile(r)
  IN  IF c.status
        THEN [c EXCEPT !.file = Append(@, Chunk(kind, r.end, size, contents)), !.end = @ + size]
        ELSE [c EXCEPT !.file = Append(@, Chunk("torn", r.end, size, {}))]

-----------------------------------------------------------------------------
(* Mutant: the trailer is not counted.                                     *)
WriteRawBlockNoTrailer(r, kind, form, contents) ==
  LET a == AppendFile(r, kind, form.size, contents)
      b == IF a.status THEN AppendFile(a, "trailer", kBlockTrailerSize, form.type) ELSE a
  IN  IF b.status THEN [b EXCEPT !.offset = @ + form.size] ELSE b

(* form is the size and the compression type in which contents is stored.  *)
WriteRawBlock(r, kind, form, contents) ==
  LET a == AppendFile(r, kind, form.size, contents)
      b == IF a.status THEN AppendFile(a, "trailer", kBlockTrailerSize, form.type) ELSE a
  IN  IF b.status THEN [b EXCEPT !.offset = @ + form.size + kBlockTrailerSize] ELSE b

(* The handle WriteRawBlock() fills in.                                    *)
Handle(r, size) == [offset |-> r.offset, size |-> size]

(* WriteBlock(): snappy, if there, may save an eighth of the size or more. *)
Raw(size) == [type |-> "kNoCompression", size |-> size]
Compressed(size) == {[type |-> "kSnappyCompression", size |-> s] :
                       s \in 1 .. size - size \div 8 - 1}
Forms(size) == {Raw(size)} \cup IF HAVE_SNAPPY THEN Compressed(size) ELSE {}

(* Flush() with the data block stored in the given form.                   *)
FlushBlock(r, form) ==
  LET w == WriteRawBlock(r, "data", form, r.data_block)
      reset == [w EXCEPT !.data_block = {}, !.data_size = 0,
                         !.pending_handle = Handle(r, form.size)]
      f == IF reset.status THEN CallFile([reset EXCEPT !.pending_index_entry = TRUE])
                           ELSE reset
  IN  IF ~r.status \/ r.data_block = {} THEN r
      ELSE IF f.filter_policy
        THEN [f EXCEPT !.filter_block = StartBlock(@, f.offset)]
        ELSE f

(* The index entry that was held back goes into the index block.           *)
AddIndexEntry(r, separator) ==
  IF r.pending_index_entry
    THEN [r EXCEPT !.index_block = Append(@, [key |-> separator, handle |-> r.pending_handle]),
                   !.pending_index_entry = FALSE]
    ELSE r

Separator(r, key) == PlaceOf(InternalShortestSeparator(IKey[r.last_key], IKey[key]))
Successor(r) == PlaceOf(InternalShortSuccessor(IKey[r.last_key]))

(* What Add() does before it decides on the size of the block.             *)
AddEntry(r, key, size) ==
  [AddIndexEntry(r, Separator(r, key)) EXCEPT
     !.filter_block = IF r.filter_policy THEN AddKey(@, IKey[key]) ELSE @,
     !.last_key = key,
     !.data_block = @ \cup {key}, !.data_size = @ + size,
     !.added = @ \cup {key}]

BuilderAdd(key) ==
  /\ ~rep.closed /\ rep.status
  /\ key > rep.last_key
  /\ \E size \in EntrySize :
       LET r == AddEntry(rep, key, size)
       IN  IF r.data_size >= r.block_size
             THEN \E form \in Forms(r.data_size) : rep' = FlushBlock(r, form)
             ELSE rep' = r
  /\ UNCHANGED failAt

Flush ==
  /\ ~rep.closed /\ rep.status /\ rep.data_block # {}
  /\ \E form \in Forms(rep.data_size) : rep' = FlushBlock(rep, form)
  /\ UNCHANGED failAt

(* The filter block is never compressed, and its size matters to nobody.   *)
WriteFilter(r) ==
  IF r.status /\ r.filter_policy
    THEN WriteRawBlock(r, "filter", Raw(1), FinishFilter(r.filter_block))
    ELSE r

(* The forms in which WriteBlock() may store metaindex and index block.    *)
MetaForms == UNION {Forms(size) : size \in MetaSize}

(* The filters are entered under the name of the policy that the options   *)
(* have now; filter is whether that is the one they were made by.          *)
WriteMetaindex(r, form, filter_handle) ==
  IF r.status
    THEN WriteRawBlock(r, "metaindex", form,
                       [filter |-> r.filter_policy /\ ~r.other_policy, handle |-> filter_handle])
    ELSE r

WriteIndex(r, form) ==
  LET i == AddIndexEntry(r, Successor(r))
  IN  IF r.status THEN WriteRawBlock(i, "index", form, i.index_block) ELSE r

WriteFooter(r, metaindex_handle, index_handle) ==
  LET a == AppendFile(r, "footer", 1, [metaindex |-> metaindex_handle, index |-> index_handle])
  IN  IF ~r.status THEN r ELSE IF a.status THEN [a EXCEPT !.offset = @ + 1] ELSE a

(* Mutant: the index entry held back is not written.                       *)
FinishDropsPending ==
  /\ ~rep.closed
  /\ \E form \in Forms(rep.data_size), meta_form, index_form \in MetaForms :
       LET data == [FlushBlock(rep, form) EXCEPT !.closed = TRUE, !.pending_index_entry = FALSE]
           filter == WriteFilter(data)
           meta == WriteMetaindex(filter, meta_form, Handle(data, 1))
           index == WriteIndex(meta, index_form)
       IN  rep' = WriteFooter(index, Handle(filter, meta_form.size), Handle(meta, index_form.size))
  /\ UNCHANGED failAt

Finish ==
  /\ ~rep.closed
  /\ \E form \in Forms(rep.data_size), meta_form, index_form \in MetaForms :
       LET data == [FlushBlock(rep, form) EXCEPT !.closed = TRUE]
           filter == WriteFilter(data)
           meta == WriteMetaindex(filter, meta_form, Handle(data, 1))
           index == WriteIndex(meta, index_form)
       IN  rep' = WriteFooter(index, Handle(filter, meta_form.size), Handle(meta, index_form.size))
  /\ UNCHANGED failAt

Abandon == ~rep.closed /\ rep' = [rep EXCEPT !.closed = TRUE] /\ UNCHANGED failAt

(* ChangeOptions() replaces all options between any two calls.  Of the     *)
(* compression Forms allows all.  A changed comparator is refused, which   *)
(* changes nothing.  A changed filter policy is not: filter_block keeps    *)
(* the old one.  (If it is NULL, Finish() dereferences it; the policy here *)
(* is one that exists.)                                                    *)
ChangeOptions ==
  /\ ~rep.closed
  /\ \E block_size \in BlockSize, other_policy \in BOOLEAN :
       /\ other_policy => rep.filter_policy
       /\ rep' = [rep EXCEPT !.block_size = block_size, !.other_policy = other_policy]
  /\ UNCHANGED failAt

BuilderNext == (\E key \in DataKey : BuilderAdd(key)) \/ Flush \/ Finish \/ Abandon \/ ChangeOptions

BuilderSpec == BuilderInit /\ [][BuilderNext]_builderVars
=============================================================================
