---------------------------- MODULE FilterBlock -----------------------------
(***************************************************************************)
(* util/bloom.cpp, class BloomFilterPolicy, its use through                *)
(* InternalFilterPolicy (db/dbformat.cpp), and table/filter_block.cpp: one *)
(* filter for each kFilterBase bytes of the table, for the keys of the     *)
(* blocks that start there.                                                *)
(*                                                                         *)
(* A filter is its length in bytes, the number of probes in its last byte  *)
(* and the bits that are set.  The state of a FilterBlockBuilder is a      *)
(* record: filters, those generated so far (filter_offsets_ and result_),  *)
(* and keys, the internal keys added since (keys_ and start_).             *)
(***************************************************************************)
EXTENDS DbFormat

CONSTANTS
  bits_per_key_,
  MinBits,        \* 64 in the code
  BloomHash,      \* a function from byte strings to numbers of WordBits bits
  WordBits,       \* 32 in the code
  DeltaShift,     \* 17 in the code
  kFilterBase

ASSUME BloomAssumption ==
  /\ {bits_per_key_, MinBits, WordBits, DeltaShift} \subseteq Nat \ {0}
  /\ DeltaShift < WordBits
  /\ \A u \in DOMAIN BloomHash : BloomHash[u] \in 0 .. 2 ^ WordBits - 1

ASSUME FilterBaseAssumption == kFilterBase \in Nat \ {0}

k_ == Min({30, Max({1, (bits_per_key_ * 69) \div 100})})

(* No bytes at all, which is what a filter block holds for no keys.        *)
EmptyFilter == [len |-> 0, k |-> 0, ones |-> {}]

(* Double hashing: the bits probed for a key in a filter of that many bits.*)
Probes(u, k, bits) ==
  LET h == BloomHash[u]
      delta == (h \div 2 ^ DeltaShift) + ((h * 2 ^ (WordBits - DeltaShift)) % 2 ^ WordBits)
  IN  {((h + j * delta) % 2 ^ WordBits) % bits : j \in 0 .. k - 1}

(* The filter for n keys, which are the user keys us.                      *)
CreateFilter(us, n) ==
  LET bytes == (Max({n * bits_per_key_, MinBits}) + 7) \div 8
  IN  [len |-> bytes + 1, k |-> k_, ones |-> UNION {Probes(u, k_, bytes * 8) : u \in us}]

BloomMayMatch(u, f) ==
  /\ f.len >= 2
  /\ f.k > 30 \/ Probes(u, f.k, (f.len - 1) * 8) \subseteq f.ones

-----------------------------------------------------------------------------
(* InternalFilterPolicy: filters are on user keys.                         *)
CreateInternalFilter(keys) ==
  CreateFilter({ExtractUserKey(k) : k \in keys}, Cardinality(keys))

InternalMayMatch(key, f) == BloomMayMatch(ExtractUserKey(key), f)

-----------------------------------------------------------------------------
(* The filter block.                                                       *)

NewFilterBlockBuilder == [filters |-> <<>>, keys |-> {}]

GenerateFilter(f) ==
  [filters |-> Append(f.filters, IF f.keys = {} THEN EmptyFilter ELSE CreateInternalFilter(f.keys)),
   keys |-> {}]

(* The first filter generated takes the keys, the others that are missing  *)
(* up to the one of block_offset are empty.                                *)
StartBlock(f, block_offset) ==
  LET missing == (block_offset \div kFilterBase) - Len(f.filters)
  IN  IF missing <= 0 THEN f
      ELSE [filters |-> GenerateFilter(f).filters \o [i \in 1 .. missing - 1 |-> EmptyFilter],
            keys |-> {}]

AddKey(f, key) == [f EXCEPT !.keys = @ \cup {key}]

(* The filters of the finished block.                                      *)
FinishFilter(f) == IF f.keys = {} THEN f.filters ELSE GenerateFilter(f).filters

(* There is no filter for an offset behind the last one.                   *)
KeyMayMatch(filters, block_offset, key) ==
  LET index == block_offset \div kFilterBase
  IN  index < Len(filters) => InternalMayMatch(key, filters[index + 1])
=============================================================================
