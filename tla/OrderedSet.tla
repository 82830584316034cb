----------------------------- MODULE OrderedSet -----------------------------
(***************************************************************************)
(* What SkipList<Key, Comparator> promises its users (db/skiplist.h): a    *)
(* set of keys that only grows, with iterators whose every operation gives *)
(* the exact answer for the set as it is at one instant of the call.       *)
(***************************************************************************)
EXTENDS Integers

CONSTANTS Key,      \* the keys, integers in the comparator's order
          Reader,   \* the threads that own an iterator
          nullptr,  \* the position of an iterator that is not Valid()
          noKey     \* the argument of a call that has none

VARIABLES keys,     \* the contents of the set
          cursor,   \* cursor[r]: the key reader r's iterator stands on
          found,    \* found[r]: the answer of r's last Contains()
          call,     \* call[r]: the search reader r is in, or "idle"
          arg       \* arg[r]: the key r's last search was called with

vars == <<keys, cursor, found, call, arg>>

Position == Key \cup {nullptr}

(* p is the least key of S, or nullptr when S is empty.                    *)
IsLeast(p, S) ==
  \/ p = nullptr /\ S = {}
  \/ p \in S /\ \A k \in S : p <= k

(* p is the greatest key of S, or nullptr when S is empty.                 *)
IsGreatest(p, S) ==
  \/ p = nullptr /\ S = {}
  \/ p \in S /\ \A k \in S : k <= p

Above(k) == {j \in keys : j > k}
Below(k) == {j \in keys : j < k}
AtLeast(k) == {j \in keys : j >= k}

Init ==
  /\ keys = {}
  /\ cursor = [r \in Reader |-> nullptr]
  /\ found = [r \in Reader |-> FALSE]
  /\ call = [r \in Reader |-> "idle"]
  /\ arg = [r \in Reader |-> noKey]

Insert(k) ==
  /\ k \notin keys
  /\ keys' = keys \cup {k}
  /\ UNCHANGED <<cursor, found, call, arg>>

(* Reader r's iterator moves to p.                                         *)
MoveTo(r, p) ==
  /\ cursor' = [cursor EXCEPT ![r] = p]
  /\ UNCHANGED <<keys, found, arg>>

-----------------------------------------------------------------------------
(* SeekToFirst() and Next() take effect as they are called.                *)
SeekToFirst(r) ==
  /\ call[r] = "idle" /\ UNCHANGED call
  /\ \E p \in Position : IsLeast(p, keys) /\ MoveTo(r, p)

StepForward(r) ==
  /\ call[r] = "idle" /\ UNCHANGED call
  /\ cursor[r] # nullptr
  /\ \E p \in Position : IsLeast(p, Above(cursor[r])) /\ MoveTo(r, p)

(* The others are called, and take effect at one later instant: their      *)
(* answer is the one for the argument they were called with.               *)
Begin(r, fn, k) ==
  /\ call[r] = "idle"
  /\ call' = [call EXCEPT ![r] = fn]
  /\ arg' = [arg EXCEPT ![r] = k]
  /\ UNCHANGED <<keys, cursor, found>>

Call(r) ==
  \/ \E k \in Key, fn \in {"Seek", "Contains"} : Begin(r, fn, k)
  \/ cursor[r] # nullptr /\ Begin(r, "Prev", cursor[r])
  \/ Begin(r, "SeekToLast", noKey)

Return(r, fn) == call[r] = fn /\ call' = [call EXCEPT ![r] = "idle"]

Seek(r) ==
  /\ Return(r, "Seek")
  /\ \E p \in Position : IsLeast(p, AtLeast(arg[r])) /\ MoveTo(r, p)

SeekToLast(r) ==
  /\ Return(r, "SeekToLast")
  /\ \E p \in Position : IsGreatest(p, keys) /\ MoveTo(r, p)

StepBack(r) ==
  /\ Return(r, "Prev")
  /\ \E p \in Position : IsGreatest(p, Below(cursor[r])) /\ MoveTo(r, p)

Contains(r) ==
  /\ Return(r, "Contains")
  /\ found' = [found EXCEPT ![r] = arg[r] \in keys]
  /\ UNCHANGED <<keys, cursor, arg>>

-----------------------------------------------------------------------------
Next ==
  \/ \E k \in Key : Insert(k)
  \/ \E r \in Reader :
       \/ SeekToFirst(r) \/ StepForward(r)
       \/ Call(r)
       \/ Seek(r) \/ SeekToLast(r) \/ StepBack(r) \/ Contains(r)

Spec == Init /\ [][Next]_vars
=============================================================================
