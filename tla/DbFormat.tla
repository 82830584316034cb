------------------------------ MODULE DbFormat ------------------------------
(***************************************************************************)
(* db/dbformat.h and db/dbformat.cpp: internal keys, which are a user key  *)
(* followed by a sequence number and a type packed into one number.        *)
(***************************************************************************)
EXTENDS Comparator

CONSTANT kMaxSequenceNumber   \* 2^56 - 1 in the code

ASSUME SequenceAssumption == kMaxSequenceNumber \in Nat

kTypeDeletion == 0
kTypeValue == 1
ValueType == {kTypeDeletion, kTypeValue}
kValueTypeForSeek == kTypeValue

PackSequenceAndType(seq, t) == seq * 256 + t

InternalKey(user_key, seq, t) ==
  [user_key |-> user_key, tag |-> PackSequenceAndType(seq, t)]

ExtractUserKey(k) == k.user_key
ExtractValueType(k) == k.tag % 256

-----------------------------------------------------------------------------
(* InternalKeyComparator::Compare(): increasing user keys, then decreasing *)
(* sequence numbers and types.                                             *)
InternalLess(a, b) ==
  \/ Less(a.user_key, b.user_key)
  \/ a.user_key = b.user_key /\ a.tag > b.tag

MaxTag == PackSequenceAndType(kMaxSequenceNumber, kValueTypeForSeek)

(* k, or the shorter but larger user key tmp with the tag that sorts first.*)
Shortened(k, tmp) ==
  IF Len(tmp) < Len(k.user_key) /\ Less(k.user_key, tmp)
    THEN [user_key |-> tmp, tag |-> MaxTag]
    ELSE k

InternalShortestSeparator(start, limit) ==
  Shortened(start, FindShortestSeparator(start.user_key, limit.user_key))

InternalShortSuccessor(k) == Shortened(k, FindShortSuccessor(k.user_key))

-----------------------------------------------------------------------------
(* Mutant: the type that sorts last among the entries of one sequence      *)
(* number.                                                                 *)
LookupKeyDeletion(user_key, s) == InternalKey(user_key, s, kTypeDeletion)

(* What to seek for to read user_key at the snapshot s.                    *)
LookupKey(user_key, s) == InternalKey(user_key, s, kValueTypeForSeek)
=============================================================================
