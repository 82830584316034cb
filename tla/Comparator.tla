----------------------------- MODULE Comparator -----------------------------
(***************************************************************************)
(* util/comparator.cpp, class BytewiseComparatorImpl, and Slice::compare() *)
(* (include/leveldb/slice.h).  A byte string is a sequence of numbers in   *)
(* 0 .. MaxByte.                                                           *)
(***************************************************************************)
EXTENDS Integers, Sequences, FiniteSetsExt

CONSTANT MaxByte    \* 0xff in the code

ASSUME ByteAssumption == MaxByte \in Nat \ {0}

SharedPrefix(a, b) ==
  Max({n \in 0 .. Min({Len(a), Len(b)}) : \A i \in 1 .. n : a[i] = b[i]})

(* Slice::compare(): memcmp, then the shorter string first.                *)
Less(a, b) ==
  \E n \in 0 .. Len(b) - 1 :
    /\ n <= Len(a) /\ \A i \in 1 .. n : a[i] = b[i]
    /\ n = Len(a) \/ a[n + 1] < b[n + 1]

(* s up to its n-th byte, which is incremented.                            *)
CutAndIncrement(s, n) == [SubSeq(s, 1, n) EXCEPT ![n] = @ + 1]

(* Mutant: the byte of start may become the one of limit.                  *)
ShortestSeparatorOffByOne(start, limit) ==
  LET d == SharedPrefix(start, limit) + 1
  IN  IF /\ d <= Min({Len(start), Len(limit)})
         /\ start[d] < MaxByte /\ start[d] + 1 <= limit[d]
        THEN CutAndIncrement(start, d)
        ELSE start

FindShortestSeparator(start, limit) ==
  LET d == SharedPrefix(start, limit) + 1
  IN  IF /\ d <= Min({Len(start), Len(limit)})
         /\ start[d] < MaxByte /\ start[d] + 1 < limit[d]
        THEN CutAndIncrement(start, d)
        ELSE start

FindShortSuccessor(key) ==
  LET free == {i \in DOMAIN key : key[i] # MaxByte}
  IN  IF free = {} THEN key ELSE CutAndIncrement(key, Min(free))
=============================================================================
