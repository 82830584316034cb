------------------------------- MODULE Table --------------------------------
(***************************************************************************)
(* table/table.cpp: what a reader finds in the file that a TableBuilder    *)
(* has written.                                                            *)
(***************************************************************************)
EXTENDS TableBuilder

NULL == 0
Least(S) == IF S = {} THEN NULL ELSE CHOOSE k \in S : \A j \in S : k <= j

file == rep.file
Chunks(kind) == {i \in DOMAIN file : file[i].kind = kind}

(* ReadBlock() needs a block with its trailer where the handle says.       *)
Readable(h, kind) ==
  \E i \in Chunks(kind) :
    /\ file[i].at = h.offset /\ file[i].size = h.size
    /\ i + 1 \in Chunks("trailer")

At(h) == CHOOSE i \in DOMAIN file : file[i].at = h.offset /\ file[i].size = h.size
Written(h) == file[At(h)].contents
IsRaw(h) == file[At(h) + 1].contents = "kNoCompression"

(* What ReadBlock() may return, where any is all a block could be taken    *)
(* for.  A compressed block is uncompressed into buf and ubuf is returned  *)
(* (format.cpp, lines 123-132), which nobody has written.                  *)
ReadBlock(h, any) == IF IsRaw(h) THEN {Written(h)} ELSE any

-----------------------------------------------------------------------------
(* Table::Open() reads the footer at the end of the file, and with it the  *)
(* index block, which may be anything if it is compressed.                 *)
HasFooter == file # <<>> /\ file[Len(file)].kind = "footer"
Footer == file[Len(file)].contents
IndexRead == IsRaw(Footer.index)
index_block == Written(Footer.index)

(* ReadMeta(): the filters are found under the name of the reader's        *)
(* policy, which is that of the builder's constructor.                     *)
HasFilter == Written(Footer.metaindex).filter
filters == Written(Written(Footer.metaindex).handle)

(* What the reader's filter, if it has a policy, may say of k in the block *)
(* at h.                                                                   *)
MayMatch(h, k) ==
  IF ~rep.filter_policy THEN {TRUE}
  ELSE IF ~IsRaw(Footer.metaindex) THEN BOOLEAN
  ELSE {~HasFilter \/ KeyMayMatch(filters, h.offset, IKey[k])}

(* iiter->Seek(k): the entry of the index block, or NULL.                  *)
IndexSeek(k) ==
  LET b == index_block
  IN  Least({i \in DOMAIN b : b[i].key >= k})

(* What InternalGet(k) may pass to saver, or NULL if it does not call it.  *)
BlockSeek(h, k) == {Least({j \in block : j >= k}) : block \in ReadBlock(h, SUBSET DataKey)}
InternalGet(k) ==
  IF ~IndexRead THEN DataKey \cup {NULL}
  ELSE IF IndexSeek(k) = NULL THEN {NULL}
  ELSE LET h == index_block[IndexSeek(k)].handle
       IN  UNION {IF matches THEN BlockSeek(h, k) ELSE {NULL} : matches \in MayMatch(h, k)}

(* What ApproximateOffsetOf(k) may return.                                 *)
ApproximateOffsetOf(k) ==
  IF ~IndexRead THEN 0 .. rep.end
  ELSE IF IndexSeek(k) = NULL THEN {Footer.metaindex.offset}
  ELSE {index_block[IndexSeek(k)].handle.offset}

-----------------------------------------------------------------------------
TwoLevel == INSTANCE TableLayout WITH Key <- KeyPlace

(* The table as the two-level iterator sees it.                            *)
Layout == [n |-> Len(index_block),
           block |-> [i \in DOMAIN index_block |-> Written(index_block[i].handle)],
           sep |-> [i \in DOMAIN index_block |-> index_block[i].key]]

(* A file with a footer is a whole table, whichever call failed before:    *)
(* all handles lead to blocks of their kind, every key added is in a data  *)
(* block, and the index keys separate the blocks, which is what the        *)
(* two-level iterator relies on.  After Finish() there is a footer only if *)
(* it returned OK.                                                         *)
TableWhole ==
  /\ rep.closed /\ HasFooter => rep.status
  /\ HasFooter =>
       /\ Readable(Footer.index, "index") /\ Readable(Footer.metaindex, "metaindex")
       /\ HasFilter => Readable(Written(Footer.metaindex).handle, "filter")
       /\ \A i \in DOMAIN index_block : Readable(index_block[i].handle, "data")
       /\ TwoLevel!WellFormed(Layout)
       /\ UNION {Layout.block[i] : i \in 1 .. Layout.n} = rep.added

(* While nothing failed, offset is the length of the file and every data   *)
(* block has an index entry or, if it is the last one, the pending one:    *)
(* "r->pending_index_entry is true only if data_block is empty" (line 41). *)
IndexKeepsUp ==
  rep.status =>
    LET entries == IF rep.pending_index_entry
                     THEN Append(rep.index_block, [key |-> rep.last_key, handle |-> rep.pending_handle])
                     ELSE rep.index_block
    IN  /\ rep.offset = rep.end
        /\ rep.pending_index_entry => rep.data_block = {}
        /\ \A i \in Chunks("data") : \E j \in DOMAIN entries :
             /\ entries[j].handle = [offset |-> file[i].at, size |-> file[i].size]
             /\ \A k \in file[i].contents : k <= entries[j].key
             /\ \A k \in rep.added \ file[i].contents :
                  k > entries[j].key \/ \A b \in file[i].contents : k < b

IUserKey == {IKey[i].user_key : i \in KeyPlace}

(* A lookup of the user key u passes to saver the newest entry of it that  *)
(* the snapshot sees, and otherwise no entry of that key.                  *)
Answers(u, snapshot) ==
  LET k == PlaceOf(LookupKey(u, snapshot))
      seen == {j \in rep.added : IKey[j].user_key = u /\ j >= k}
  IN  IF seen # {} THEN InternalGet(k) = {Least(seen)}
      ELSE \A j \in InternalGet(k) : j # NULL => IKey[j].user_key # u

(* The blocks that a lookup of k reads are stored as they are.             *)
ReadsRaw(k) ==
  /\ IndexRead
  /\ rep.filter_policy => IsRaw(Footer.metaindex)
  /\ IndexSeek(k) # NULL => IsRaw(index_block[IndexSeek(k)].handle)

(* A lookup in a finished table answers, whatever the bloom filters match  *)
(* by chance, if none of the blocks it reads (index, metaindex if there    *)
(* are filters, and data) is compressed; and with an index block that is   *)
(* not, ApproximateOffsetOf() gives the block of a key and grows with it.  *)
LookupsAnswer ==
  HasFooter =>
    /\ \A u \in IUserKey, snapshot \in 0 .. kMaxSequenceNumber :
         ReadsRaw(PlaceOf(LookupKey(u, snapshot))) => Answers(u, snapshot)
    /\ IndexRead =>
         /\ \A k \in rep.added : \E i \in Chunks("data") :
              k \in file[i].contents /\ ApproximateOffsetOf(k) = {file[i].at}
         /\ \A k \in KeyPlace : k + 1 \in KeyPlace =>
              \A a \in ApproximateOffsetOf(k), b \in ApproximateOffsetOf(k + 1) : a <= b

=============================================================================
