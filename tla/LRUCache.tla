------------------------------ MODULE LRUCache ------------------------------
(***************************************************************************)
(* util/cache.cpp, class LRUCache: one shard of the cache.  Every method   *)
(* holds mutex_ for its whole duration, so it is one step; the eviction    *)
(* loop at the end of Insert() and the loop of the destructor take a step  *)
(* per round, during which no other method runs.                           *)
(*                                                                         *)
(* A handle is the address of an LRUHandle.  Memory that is freed may be   *)
(* handed out again by a later malloc.                                     *)
(***************************************************************************)
EXTENDS HandleTable

CONSTANTS Charge,       \* the charges that clients use
          lru_,         \* the address of the dummy head
          capacity_,    \* as set by SetCapacity()
          MaxHeld       \* bound on the handles a client takes on one entry

ASSUME CacheAssumption ==
  /\ lru_ \notin Handle \cup {NULL}
  /\ Charge \subseteq Nat /\ capacity_ \in Nat /\ MaxHeld \in Nat

VARIABLES
  key, charge, refs,  \* fields of LRUHandle, for each address
  next, prev,         \* the circular list, for each address and lru_
  live,               \* the addresses allocated
  table_,             \* HandleTable
  usage_,
  held,               \* held[e]: the handles on e that clients have
  mutex_,             \* "free", or the loop that holds it: "evict", "dtor";
                      \* "dead" after the destructor
  cur                 \* e in the destructor's loop

vars == <<key, charge, refs, next, prev, live, table_, usage_, held, mutex_, cur>>
entryVars == <<key, charge>>

Address == Handle \cup {lru_}

TypeOK ==
  /\ key \in [Handle -> Key \cup {NULL}] /\ charge \in [Handle -> Nat]
  /\ refs \in [Handle -> Nat] /\ held \in [Handle -> Nat]
  /\ next \in [Address -> Address] /\ prev \in [Address -> Address]
  /\ live \subseteq Handle
  /\ table_.next_hash \in [Handle -> Handle \cup {NULL}]
  /\ usage_ \in Nat
  /\ mutex_ \in {"free", "evict", "dtor", "dead"}
  /\ cur \in Address

Init ==
  /\ key = [h \in Handle |-> NULL] /\ charge = [h \in Handle |-> 0]
  /\ refs = [h \in Handle |-> 0] /\ held = [h \in Handle |-> 0]
  /\ next = [a \in Address |-> lru_] /\ prev = [a \in Address |-> lru_]
  /\ live = {}
  /\ table_ = NewHandleTable
  /\ usage_ = 0
  /\ mutex_ = "free"
  /\ cur = lru_

-----------------------------------------------------------------------------
(* The list operations, as functions from the links n, p to the new ones.  *)

LRU_RemoveNext(n, p, e) == [n EXCEPT ![p[e]] = n[e]]
LRU_RemovePrev(n, p, e) == [p EXCEPT ![n[e]] = p[e]]
LRU_AppendNext(n, p, e) == [n EXCEPT ![e] = lru_, ![p[lru_]] = e]
LRU_AppendPrev(n, p, e) == [p EXCEPT ![e] = p[lru_], ![lru_] = e]

LRU_Remove(e) ==
  /\ next' = LRU_RemoveNext(next, prev, e)
  /\ prev' = LRU_RemovePrev(next, prev, e)

LRU_MoveToEnd(e) ==
  LET n == LRU_RemoveNext(next, prev, e)
      p == LRU_RemovePrev(next, prev, e)
  IN  next' = LRU_AppendNext(n, p, e) /\ prev' = LRU_AppendPrev(n, p, e)

(* Unref(e): the last reference gone, the charge is given back, the        *)
(* deleter runs and the memory is freed.                                   *)
Freed(e) == IF refs[e] = 1 THEN {e} ELSE {}

Refund(e) == IF refs[e] = 1 THEN charge[e] ELSE 0
Unref(e) ==
  /\ refs' = [refs EXCEPT ![e] = @ - 1]
  /\ live' = live \ Freed(e)
  /\ usage_' = usage_ - Refund(e)

(* Mutant: the loop stops one unit too early.                              *)
EvictOrReturnEarly ==
  mutex_' = IF usage_' > capacity_ + 1 /\ next'[lru_] # lru_ THEN "evict" ELSE "free"

(* Where Insert()'s loop goes next, and with it the mutex.                 *)
EvictOrReturn ==
  mutex_' = IF usage_' > capacity_ /\ next'[lru_] # lru_ THEN "evict" ELSE "free"

-----------------------------------------------------------------------------
(* Insert(key, value, charge): the part before the loop.                   *)
Insert(k, c) ==
  /\ mutex_ = "free"
  /\ \E e \in Handle \ live :
       LET old == TableLookup(table_, key, k)
           n == LRU_AppendNext(next, prev, e)
           p == LRU_AppendPrev(next, prev, e)
       IN  /\ key' = [key EXCEPT ![e] = k]
           /\ charge' = [charge EXCEPT ![e] = c]
           /\ held' = [held EXCEPT ![e] = 1]
           /\ table_' = TableInsert(table_, key', e)
           /\ IF old = NULL
                THEN /\ next' = n /\ prev' = p
                     /\ refs' = [refs EXCEPT ![e] = 2]
                     /\ live' = live \cup {e}
                     /\ usage_' = usage_ + c
                ELSE /\ next' = LRU_RemoveNext(n, p, old)
                     /\ prev' = LRU_RemovePrev(n, p, old)
                     /\ refs' = [refs EXCEPT ![e] = 2, ![old] = @ - 1]
                     /\ live' = (live \cup {e}) \ Freed(old)
                     /\ usage_' = usage_ + c - Refund(old)
  /\ EvictOrReturn
  /\ UNCHANGED cur

(* A round of the loop: the oldest entry goes, referenced or not.          *)
EvictRound ==
  LET old == next[lru_]
  IN  /\ mutex_ = "evict"
      /\ LRU_Remove(old)
      /\ table_' = TableRemove(table_, key, key[old])
      /\ Unref(old)
      /\ EvictOrReturn
      /\ UNCHANGED <<entryVars, held, cur>>

(* Mutant: the returned handle is not counted.                             *)
LookupUncounted(k) ==
  LET e == TableLookup(table_, key, k)
  IN  /\ mutex_ = "free"
      /\ e # NULL
      /\ held[e] < MaxHeld
      /\ held' = [held EXCEPT ![e] = @ + 1]
      /\ LRU_MoveToEnd(e)
      /\ UNCHANGED <<entryVars, refs, live, table_, usage_, mutex_, cur>>

(* A miss changes nothing.                                                 *)
Lookup(k) ==
  LET e == TableLookup(table_, key, k)
  IN  /\ mutex_ = "free"
      /\ e # NULL
      /\ held[e] < MaxHeld
      /\ refs' = [refs EXCEPT ![e] = @ + 1]
      /\ held' = [held EXCEPT ![e] = @ + 1]
      /\ LRU_MoveToEnd(e)
      /\ UNCHANGED <<entryVars, live, table_, usage_, mutex_, cur>>

Release(e) ==
  /\ mutex_ = "free"
  /\ held[e] > 0
  /\ held' = [held EXCEPT ![e] = @ - 1]
  /\ Unref(e)
  /\ UNCHANGED <<entryVars, next, prev, table_, mutex_, cur>>

Erase(k) ==
  LET e == TableLookup(table_, key, k)
  IN  /\ mutex_ = "free"
      /\ e # NULL
      /\ table_' = TableRemove(table_, key, k)
      /\ LRU_Remove(e)
      /\ Unref(e)
      /\ UNCHANGED <<entryVars, held, mutex_, cur>>

(* ~LRUCache(), called when no handle is held any more.                    *)
StartDestroy ==
  /\ mutex_ = "free"
  /\ \A e \in Handle : held[e] = 0
  /\ mutex_' = "dtor"
  /\ cur' = next[lru_]
  /\ UNCHANGED <<entryVars, refs, next, prev, live, table_, usage_, held>>

DestroyRound ==
  /\ mutex_ = "dtor" /\ cur # lru_
  /\ cur' = next[cur]
  /\ Unref(cur)
  /\ UNCHANGED <<entryVars, next, prev, table_, held, mutex_>>

Destroyed ==
  /\ mutex_ = "dtor" /\ cur = lru_
  /\ mutex_' = "dead"
  /\ UNCHANGED <<entryVars, refs, next, prev, live, table_, usage_, held, cur>>

Next ==
  \/ \E k \in Key, c \in Charge : Insert(k, c)
  \/ EvictRound
  \/ \E k \in Key : Lookup(k) \/ Erase(k)
  \/ \E e \in Handle : Release(e)
  \/ StartDestroy \/ DestroyRound \/ Destroyed

Spec == Init /\ [][Next]_vars

-----------------------------------------------------------------------------
Chained == UNION {Range(Chain(table_, i)) : i \in DOMAIN table_.list}
InUse == mutex_ \in {"free", "evict"}

(* References are counted exactly: one per handle held and one for the     *)
(* cache itself.  An entry is freed when the last of them goes, never      *)
(* earlier (a client would read freed memory) and never later (the deleter *)
(* would not run), whether it leaves by Erase(), by replacement, by        *)
(* eviction, by Release() or by the destructor, which leaves none.         *)
RefsExact ==
  /\ InUse =>
       LET chained == Chained
       IN  \A e \in Handle :
             IF e \in live THEN /\ refs[e] = held[e] + (IF e \in chained THEN 1 ELSE 0)
                               /\ refs[e] > 0
                          ELSE held[e] = 0 /\ e \notin chained
  /\ mutex_ = "dead" => live = {} /\ usage_ = 0

(* The hash chains and the circular list hold the same entries, each in    *)
(* the chain of its hash and found under its own key, through any mix of   *)
(* insertions that replace, removals from the middle of a chain and        *)
(* Resize(): what eviction takes from the list's end is what its key finds *)
(* in the table.  elems_ counts them, as Resize() asserts (line 174).      *)
ListMatchesTable ==
  /\ TypeOK
  /\ InUse =>
       LET chained == Chained
           nodes == chained \cup {lru_}
       IN  /\ \A a \in nodes : /\ next[a] \in nodes /\ prev[a] \in nodes
                               /\ prev[next[a]] = a /\ next[prev[a]] = a
           /\ \A e \in chained : TableLookup(table_, key, key[e]) = e
           /\ \A i \in DOMAIN table_.list : \A e \in Range(Chain(table_, i)) :
                hash[key[e]] % Length(table_) = i
           /\ table_.elems = Cardinality(chained)

(* "The only ways that this can become false without the entry being       *)
(* passed to its deleter are via Erase(), via Insert() when an element     *)
(* with a duplicate key is inserted, or on destruction of the cache"       *)
(* (lines 19-22), so that what the eviction loop takes, duplicates aside,  *)
(* goes to its deleter: only the cache refers to it.  The code has no list *)
(* of entries in use (lines 24-34), and its loop takes them too.           *)
EvictsUnused ==
  mutex_ = "evict" =>
    LET old == next[lru_]
    IN  refs[old] = 1 \/ \E e \in live \ {old} : key[e] = key[old]
=============================================================================
