------------------------- MODULE MCMergingIterator --------------------------
(* MergingIterator with every distribution of three keys over its          *)
(* children, shared ones too, and of four keys none of which is shared, as *)
(* with internal keys: each has its own sequence number.                   *)
EXTENDS MergingIterator

SmallContents ==
  {d \in [Child -> SUBSET Key] : Disjoint(d) \/ \A i \in Child : 4 \notin d[i]}
=============================================================================
