---------------------------- MODULE TableLayout -----------------------------
(* What a table looks like to its readers: n data blocks, the keys of each *)
(* and the keys of their index entries.                                    *)
EXTENDS Integers

CONSTANT Key

(* Every key of the index block is at or after the keys of its own data    *)
(* block and before those of all later blocks (two_level_iterator.cpp,     *)
(* lines 89-90).                                                           *)
WellFormed(t) ==
  /\ t.n \in Nat
  /\ t.block \in [1 .. t.n -> SUBSET Key]
  /\ t.sep \in [1 .. t.n -> Key]
  /\ \A i, j \in 1 .. t.n :
       /\ \A k \in t.block[i] : k <= t.sep[i]
       /\ i < j => t.sep[i] < t.sep[j] /\ \A k \in t.block[j] : t.sep[i] < k
=============================================================================
