------------------------------- MODULE Cursor -------------------------------
(***************************************************************************)
(* What include/leveldb/iterator.h promises of every Iterator: it stands   *)
(* on a key of its source or is not Valid(), and each positioning call     *)
(* moves it to the one key the call asks for.  A call that meets an error  *)
(* may end anywhere, but from then on status() is not OK.                  *)
(***************************************************************************)
EXTENDS Integers

CONSTANT NULL       \* the position of an iterator that is not Valid()

VARIABLES keys,     \* the keys of the source; never changes
          at,       \* the key the iterator stands on
          ok,       \* status().ok()
          last      \* the last call: its name fn and its argument key

vars == <<keys, at, ok, last>>

Position == keys \cup {NULL}

IsLeast(p, S) ==
  \/ p = NULL /\ S = {}
  \/ p \in S /\ \A k \in S : p <= k

IsGreatest(p, S) ==
  \/ p = NULL /\ S = {}
  \/ p \in S /\ \A k \in S : k <= p

(* p is where the call op must leave an iterator that stands on at.        *)
IsAnswer(op, p) ==
  \/ op.fn = "SeekToFirst" /\ IsLeast(p, keys)
  \/ op.fn = "SeekToLast" /\ IsGreatest(p, keys)
  \/ op.fn = "Seek" /\ IsLeast(p, {k \in keys : k >= op.key})
  \/ op.fn = "Next" /\ at # NULL /\ IsLeast(p, {k \in keys : k > at})
  \/ op.fn = "Prev" /\ at # NULL /\ IsGreatest(p, {k \in keys : k < at})

(* An iterator may have been made for an error (NewErrorIterator()).       *)
Init == at = NULL /\ ok \in BOOLEAN

Next ==
  /\ at' \in Position
  /\ ok' => ok /\ IsAnswer(last', at')
  /\ UNCHANGED keys

Spec == Init /\ [][Next]_vars
=============================================================================
