------------------------------- MODULE LRUSpec ------------------------------
(***************************************************************************)
(* What one shard of the cache promises (include/cache.h): a map from keys *)
(* to values in order of last use.  A value lives while it is in the map   *)
(* or a client holds a handle on it, and the values alive use up capacity: *)
(* whenever that is exceeded the least recently used value leaves the map, *)
(* until the map is empty, whether clients hold it or not: this is what    *)
(* the code does, against the comment at its head (LRUCache!EvictsUnused). *)
(* Of a handle that is not alive, keyOf and chargeOf say nothing.          *)
(***************************************************************************)
EXTENDS Integers, Sequences, FiniteSetsExt, SequencesExt

CONSTANTS Key, Charge, Handle, capacity_

VARIABLES order,    \* the handles in the map, least recently used first
          keyOf,    \* keyOf[h], chargeOf[h]: of the value behind h
          chargeOf,
          held      \* held[h]: how many times clients hold h

vars == <<order, keyOf, chargeOf, held>>

InMap == Range(order)
Alive == InMap \cup {h \in Handle : held[h] > 0}
Usage == MapThenSumSet(LAMBDA h : chargeOf[h], Alive)
OverFull == Usage > capacity_ /\ order # <<>>

Without(hs) == SelectSeq(order, LAMBDA h : h \notin hs)
WithKey(k) == {h \in InMap : keyOf[h] = k}

Init ==
  /\ order = <<>>
  /\ held = [h \in Handle |-> 0]

Insert(k, c, h) ==
  /\ ~OverFull
  /\ h \notin Alive
  /\ order' = Append(Without(WithKey(k)), h)
  /\ keyOf' = [keyOf EXCEPT ![h] = k]
  /\ chargeOf' = [chargeOf EXCEPT ![h] = c]
  /\ held' = [held EXCEPT ![h] = 1]

(* The oldest value goes, also one that is held.                           *)
EvictOldest ==
  /\ OverFull
  /\ order' = Tail(order)
  /\ UNCHANGED <<keyOf, chargeOf, held>>

Lookup(h) ==
  /\ ~OverFull
  /\ h \in InMap
  /\ order' = Append(Without({h}), h)
  /\ held' = [held EXCEPT ![h] = @ + 1]
  /\ UNCHANGED <<keyOf, chargeOf>>

Release(h) ==
  /\ ~OverFull
  /\ held[h] > 0
  /\ held' = [held EXCEPT ![h] = @ - 1]
  /\ UNCHANGED <<order, keyOf, chargeOf>>

Erase(h) ==
  /\ ~OverFull
  /\ h \in InMap
  /\ order' = Without({h})
  /\ UNCHANGED <<keyOf, chargeOf, held>>

(* The cache is destroyed after all handles are released.                  *)
Clear ==
  /\ \A h \in Handle : held[h] = 0
  /\ order' = <<>>
  /\ UNCHANGED <<keyOf, chargeOf, held>>

Next ==
  \/ \E k \in Key, c \in Charge, h \in Handle : Insert(k, c, h)
  \/ \E h \in Handle : Lookup(h) \/ Release(h) \/ Erase(h)
  \/ EvictOldest \/ Clear

Spec == Init /\ [][Next]_vars
=============================================================================
