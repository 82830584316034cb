---------------------------- MODULE HandleTable -----------------------------
(***************************************************************************)
(* util/cache.cpp, class HandleTable: hash chains of LRUHandles.           *)
(*                                                                         *)
(* A table is the record of list_ and elems_ and of the next_hash of all   *)
(* handles; length_ is the length of list_.  A LRUHandle** is the bucket,  *)
(* or the handle whose next_hash it points to.  key[h] is the key of h.    *)
(***************************************************************************)
EXTENDS Integers, Sequences, SequencesExt

CONSTANTS Key, Handle, NULL,
          hash,            \* hash[k], of a key
          InitialLength    \* length of the smallest table, 4 in the code

ASSUME HashAssumption ==
  /\ IsFiniteSet(Handle) /\ NULL \notin Handle /\ Handle \cap Nat = {}
  /\ hash \in [Key -> Nat] /\ InitialLength \in Nat \ {0}

EmptyList(length) == [i \in 0 .. length - 1 |-> NULL]

NewHandleTable ==
  [list |-> EmptyList(InitialLength), next_hash |-> [h \in Handle |-> NULL], elems |-> 0]

Length(t) == Cardinality(DOMAIN t.list)

(* *ptr, and *ptr = h                                                      *)
Deref(t, ptr) == IF ptr \in Handle THEN t.next_hash[ptr] ELSE t.list[ptr]
Store(t, ptr, h) ==
  IF ptr \in Handle THEN [t EXCEPT !.next_hash[ptr] = h] ELSE [t EXCEPT !.list[ptr] = h]

(* The chain of bucket i, followed from handle to handle.                  *)
Chain(t, i) ==
  LET first[n \in Nat] ==
        IF n = 0 THEN <<>>
        ELSE LET c == first[n - 1]
                 h == IF c = <<>> THEN t.list[i] ELSE t.next_hash[Last(c)]
             IN  IF h = NULL THEN c ELSE Append(c, h)
  IN  first[Cardinality(Handle)]

(* The slot that points to the entry of k, or the last one of its chain.   *)
FindPointer(t, key, k) ==
  LET i == hash[k] % Length(t)
      c == Chain(t, i)
      n == Min({j \in 1 .. Len(c) : key[c[j]] = k} \cup {Len(c) + 1})
  IN  IF n = 1 THEN i ELSE c[n - 1]

TableLookup(t, key, k) == Deref(t, FindPointer(t, key, k))

(* new_length is doubled while it is less than elems_: fewer than elems_   *)
(* times.                                                                  *)
NewLength(elems) ==
  LET new_length[n \in Nat] ==
        IF n = 0 THEN InitialLength
        ELSE IF new_length[n - 1] < elems THEN 2 * new_length[n - 1] ELSE new_length[n - 1]
  IN  new_length[elems]

(* Every entry goes to the front of its new chain, in the order of the     *)
(* buckets and of their chains.                                            *)
Resize(t, key) ==
  LET length == NewLength(t.elems)
      push(r, h) ==
        LET i == hash[key[h]] % length
        IN  [r EXCEPT !.next_hash[h] = r.list[i], !.list[i] = h]
      move(r, i) == FoldLeft(push, r, Chain(t, i - 1))
  IN  FoldLeft(move, [t EXCEPT !.list = EmptyList(length)], [i \in 1 .. Length(t) |-> i])

(* Mutant: the chain behind an entry that is replaced is cut off.          *)
TableInsertCuts(t, key, h) ==
  LET ptr == FindPointer(t, key, key[h])
      linked == Store([t EXCEPT !.next_hash[h] = NULL], ptr, h)
      added == [linked EXCEPT !.elems = @ + 1]
  IN  IF Deref(t, ptr) # NULL THEN linked
      ELSE IF added.elems > Length(t) THEN Resize(added, key) ELSE added

(* Insert(h), which may replace the entry of the same key.                 *)
TableInsert(t, key, h) ==
  LET ptr == FindPointer(t, key, key[h])
      old == Deref(t, ptr)
      linked == Store([t EXCEPT !.next_hash[h] = IF old = NULL THEN NULL ELSE t.next_hash[old]],
                      ptr, h)
      added == [linked EXCEPT !.elems = @ + 1]
  IN  IF old # NULL THEN linked
      ELSE IF added.elems > Length(t) THEN Resize(added, key) ELSE added

TableRemove(t, key, k) ==
  LET ptr == FindPointer(t, key, k)
      h == Deref(t, ptr)
  IN  IF h = NULL THEN t
      ELSE [Store(t, ptr, t.next_hash[h]) EXCEPT !.elems = @ - 1]
=============================================================================
