---------------------------- MODULE MCTableCache ----------------------------
(* A table cache and a block cache with room for one entry in each shard.  *)
EXTENDS TableCache

Symmetry == Permutations(Slot) \cup Permutations(Thread) \cup Permutations(BlockHandle)

(* The files compete for one shard, and the blocks for another.            *)
MCShard(key) == Len(key) - 1
=============================================================================
