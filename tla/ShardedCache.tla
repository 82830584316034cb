---------------------------- MODULE ShardedCache ----------------------------
(***************************************************************************)
(* util/cache.cpp, class ShardedLRUCache: shards that are LRU caches, one  *)
(* chosen by the hash of a key.  A cache is a record: order, the handles   *)
(* in the map of each shard, least recently used first; key, value and     *)
(* held, the key, value and number of holders of each handle (none stands  *)
(* for the value of a handle that is free).  Each shard behaves as LRUSpec,*)
(* which LRUCache implements; all charges are 1 and a call is one step,    *)
(* for it runs under the mutex of the shard.                               *)
(***************************************************************************)
EXTENDS Integers, Sequences, SequencesExt, FiniteSetsExt

CONSTANTS kNumShards,   \* 16 in the code
          Shard(_)      \* the shard of a key

ASSUME ShardAssumption == kNumShards \in Nat \ {0}

NoKey == <<>>

NewLRUCache(Handle, none) ==
  [order |-> [i \in 0 .. kNumShards - 1 |-> <<>>],
   key |-> [h \in Handle |-> NoKey],
   value |-> [h \in Handle |-> none],
   held |-> [h \in Handle |-> 0],
   none |-> none]

PerShard(capacity) == (capacity + (kNumShards - 1)) \div kNumShards

InMap(c) == UNION {Range(c.order[i]) : i \in 0 .. kNumShards - 1}
Alive(c) == InMap(c) \cup {h \in DOMAIN c.held : c.held[h] > 0}

(* The handle on key in the map, none or one.                              *)
WithKey(c, key) == {h \in Range(c.order[Shard(key)]) : c.key[h] = key}

(* The order without the one handle of hs that is in it, if there is one.  *)
Without(order, hs) ==
  LET at == {n \in DOMAIN order : order[n] \in hs}
  IN  IF at = {} THEN order ELSE RemoveAt(order, Min(at))

(* Lookup() of a key whose handle is h.                                    *)
LookupHit(c, h) ==
  [c EXCEPT !.order[Shard(c.key[h])] = Append(Without(@, {h}), h), !.held[h] = @ + 1]

(* The least recently used leave shard i while it uses more than it may.   *)
Trim(c, i, capacity) ==
  LET Without1st(n) == [c EXCEPT !.order[i] = SubSeq(@, n + 1, Len(@))]
      Used(d) == Cardinality({h \in Alive(d) : Shard(d.key[h]) = i})
  IN  Without1st(Min({n \in 0 .. Len(c.order[i]) :
                        n = Len(c.order[i]) \/ Used(Without1st(n)) <= PerShard(capacity)}))

(* Handles that are neither in the map nor held are freed.                 *)
FreeDead(c) ==
  LET OfAlive(f, other) == [h \in DOMAIN f |-> IF h \in Alive(c) THEN f[h] ELSE other]
  IN  [c EXCEPT !.key = OfAlive(@, NoKey), !.value = OfAlive(@, c.none)]

Insert(c, h, key, value, capacity) ==
  LET i == Shard(key)
      inserted == [c EXCEPT !.order[i] = Append(Without(@, WithKey(c, key)), h),
                            !.key[h] = key, !.value[h] = value, !.held[h] = 1]
  IN  FreeDead(Trim(inserted, i, capacity))

ReleaseHandle(c, h) == FreeDead([c EXCEPT !.held[h] = @ - 1])
=============================================================================
