----------------------------- MODULE MCLRUCache -----------------------------
(* LRUCache on small instances, and as an implementation of LRUSpec.       *)
EXTENDS LRUCache

CONSTANT Other    \* one of the keys

(* All keys collide in a table of two buckets, all but one in any table.   *)
Hashes == [k \in Key |-> IF k = Other THEN 3 ELSE 1]

(* Addresses, and keys with the same hash, are only compared for equality. *)
Symmetry == Permutations(Handle) \cup Permutations(Key \ {Other})

(* The list in order, walked from lru_; empty once the destructor runs.    *)
Order ==
  LET n == table_.elems
      at[i \in 0 .. n] == IF i = 0 THEN lru_ ELSE next[at[i - 1]]
  IN  IF InUse THEN [i \in 1 .. n |-> at[i]] ELSE <<>>

LRU == INSTANCE LRUSpec WITH order <- Order, keyOf <- key, chargeOf <- charge, held <- held

(* The shard implements LRUSpec: the least recently used entry is the one  *)
(* evicted, held by clients or not, eviction goes on exactly while the     *)
(* charges of all entries alive exceed capacity_, and a lookup finds the   *)
(* last value inserted, which is the promise of HandleTable too.           *)
ImplementsLRU == LRU!Spec
=============================================================================
