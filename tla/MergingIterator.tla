-------------------------- MODULE MergingIterator ---------------------------
(***************************************************************************)
(* table/merger.cpp: the union of n_ child iterators.  Each child is       *)
(* wrapped in an IteratorWrapper (table/iterator_wrapper.h), whose cached  *)
(* valid_ and key_ are refreshed by every call; pos stands for both.       *)
(*                                                                         *)
(* A child is any Iterator over a sorted source: each of its calls answers *)
(* exactly, or fails, which leaves it not Valid() with an error status     *)
(* that it keeps.                                                          *)
(***************************************************************************)
EXTENDS Integers

CONSTANTS n_,         \* the number of children; below 2 NewMergingIterator
                      \* makes no MergingIterator
          Key,        \* the keys of all sources
          Contents    \* the contents the children may have

Child == 0 .. n_ - 1

ASSUME ChildAssumption == n_ \in Nat \ {0, 1}
ASSUME KeyAssumption ==      \* sources are finite: some key is the last
  Key \subseteq Nat /\ (Key = {} \/ \E max \in Key : \A k \in Key : k <= max)
ASSUME ContentsAssumption == Contents \subseteq [Child -> SUBSET Key]

VARIABLES data,       \* data[i]: the keys of child i's source
          pos,        \* pos[i]: the key child i stands on
          ok,         \* ok[i]: child i's status().ok()
          current_,   \* the child whose key() this iterator shows
          direction_, \* which way the iterator is moving
          last        \* the last call, for the properties

vars == <<data, pos, ok, current_, direction_, last>>

NULL == -1

TypeOK ==
  /\ data \in Contents
  /\ pos \in [Child -> Key \cup {NULL}]
  /\ ok \in [Child -> BOOLEAN]
  /\ current_ \in Child \cup {NULL}
  /\ direction_ \in {"kForward", "kReverse"}

-----------------------------------------------------------------------------
(* Child iterators.                                                        *)

Least(S) == IF S = {} THEN NULL ELSE CHOOSE k \in S : \A j \in S : k <= j
Greatest(S) == IF S = {} THEN NULL ELSE CHOOSE k \in S : \A j \in S : k >= j

ChildFirst(i) == Least(data[i])
ChildLast(i) == Greatest(data[i])
ChildSeek(i, k) == Least({j \in data[i] : j >= k})
ChildNext(i, k) == Least({j \in data[i] : j > k})
ChildPrev(i, k) == Greatest({j \in data[i] : j < k})

-----------------------------------------------------------------------------
(* Mutant: a later child wins a tie, as in FindLargest.                    *)
FindSmallestLastTie(p) ==
  IF \A i \in Child : p[i] = NULL THEN NULL
  ELSE CHOOSE i \in Child :
         /\ p[i] # NULL
         /\ \A j \in Child : p[j] # NULL =>
              p[i] < p[j] \/ (p[i] = p[j] /\ i >= j)

(* The first of the Valid() children with the smallest key.                *)
FindSmallest(p) ==
  IF \A i \in Child : p[i] = NULL THEN NULL
  ELSE CHOOSE i \in Child :
         /\ p[i] # NULL
         /\ \A j \in Child : p[j] # NULL =>
              p[i] < p[j] \/ (p[i] = p[j] /\ i <= j)

(* The loop runs from the last child, which therefore wins a tie.          *)
FindLargest(p) ==
  IF \A i \in Child : p[i] = NULL THEN NULL
  ELSE CHOOSE i \in Child :
         /\ p[i] # NULL
         /\ \A j \in Child : p[j] # NULL =>
              p[i] > p[j] \/ (p[i] = p[j] /\ i >= j)

-----------------------------------------------------------------------------
Init ==
  /\ data \in Contents
  /\ pos = [i \in Child |-> NULL]
  /\ ok = [i \in Child |-> TRUE]
  /\ current_ = NULL
  /\ direction_ = "kForward"
  /\ last = [fn |-> "none", key |-> NULL]

(* Every call ends here: the children stand at p, those in bad have met an *)
(* error, and FindSmallest() or FindLargest() picks current_.              *)
Settle(p, bad, dir, op) ==
  /\ pos' = p
  /\ ok' = [i \in Child |-> ok[i] /\ i \notin bad]
  /\ current_' = IF dir = "kForward" THEN FindSmallest(p) ELSE FindLargest(p)
  /\ direction_' = dir
  /\ last' = op
  /\ UNCHANGED data

SeekToFirst ==
  \E bad \in SUBSET Child :
    Settle([i \in Child |-> IF i \in bad THEN NULL ELSE ChildFirst(i)],
           bad, "kForward", [fn |-> "SeekToFirst", key |-> NULL])

SeekToLast ==
  \E bad \in SUBSET Child :
    Settle([i \in Child |-> IF i \in bad THEN NULL ELSE ChildLast(i)],
           bad, "kReverse", [fn |-> "SeekToLast", key |-> NULL])

Seek(target) ==
  \E bad \in SUBSET Child :
    Settle([i \in Child |-> IF i \in bad THEN NULL ELSE ChildSeek(i, target)],
           bad, "kForward", [fn |-> "Seek", key |-> target])

key == pos[current_]
Others == Child \ {current_}

(* A change of direction first seeks key() in all the other children.      *)
SeekOthers(bad) ==
  [i \in Child |-> IF i = current_ THEN pos[i]
                   ELSE IF i \in bad THEN NULL ELSE ChildSeek(i, key)]

(* Mutant: the other children are not moved when the direction changes.    *)
NextSameDirection ==
  /\ current_ # NULL
  /\ Settle([pos EXCEPT ![current_] = ChildNext(current_, key)],
            {}, "kForward", [fn |-> "Next", key |-> NULL])

(* Coming from the other direction, a child that has key() steps past it.  *)
Next ==
  /\ current_ # NULL
  /\ LET turn == direction_ # "kForward"
     IN  \E bad \in SUBSET (IF turn THEN Others ELSE {}) :
           LET p == IF turn THEN SeekOthers(bad) ELSE pos
               moved == {current_} \cup {i \in Others : turn /\ p[i] = key}
           IN  \E worse \in SUBSET moved :
                 Settle([i \in Child |-> IF i \notin moved THEN p[i]
                                         ELSE IF i \in worse THEN NULL
                                         ELSE ChildNext(i, key)],
                        bad \cup worse, "kForward", [fn |-> "Next", key |-> NULL])

(* Mutant: a child without an entry at or after key() stays not Valid().   *)
PrevNoSeekToLast ==
  /\ current_ # NULL
  /\ LET turn == direction_ # "kReverse"
         p == IF turn THEN SeekOthers({}) ELSE pos
         moved == IF turn THEN Child ELSE {current_}
     IN  Settle([i \in Child |-> IF i \notin moved \/ p[i] = NULL THEN p[i]
                                 ELSE ChildPrev(i, p[i])],
                {}, "kReverse", [fn |-> "Prev", key |-> NULL])

(* Coming from the other direction, a child steps back from the entry at   *)
(* or after key(); one that is not Valid() goes to its last entry, be it   *)
(* exhausted or failed.                                                    *)
Prev ==
  /\ current_ # NULL
  /\ LET turn == direction_ # "kReverse"
         moved == IF turn THEN Child ELSE {current_}
     IN  \E bad \in SUBSET (IF turn THEN Others ELSE {}), worse \in SUBSET moved :
           LET p == IF turn THEN SeekOthers(bad) ELSE pos
           IN  Settle([i \in Child |-> IF i \notin moved THEN p[i]
                                       ELSE IF i \in worse THEN NULL
                                       ELSE IF p[i] # NULL THEN ChildPrev(i, p[i])
                                       ELSE ChildLast(i)],
                      bad \cup worse, "kReverse", [fn |-> "Prev", key |-> NULL])

Step == \/ SeekToFirst \/ SeekToLast \/ Next \/ Prev
        \/ \E target \in Key : Seek(target)

Spec == Init /\ [][Step]_vars

-----------------------------------------------------------------------------
status == \A i \in Child : ok[i]

(* No key is in two children.                                              *)
Disjoint(d) == \A i, j \in Child : i # j => d[i] \cap d[j] = {}

(* "An iterator that provided the union of the data in children[0,n-1]"    *)
(* (merger.h, lines 10-11): while no child has failed, and if no key is in *)
(* two of them, the merging iterator is a cursor in the sorted union of    *)
(* its children, whatever the mix of calls and directions, and errors show *)
(* in status().  Where children share keys, a change of direction passes   *)
(* over the other copies of key() (lines 69-71 and 94-101); NoKeySkipped   *)
(* is what remains.                                                        *)
Union == INSTANCE Cursor WITH
           keys <- UNION {data[i] : i \in Child},
           at <- IF current_ = NULL THEN NULL ELSE key,
           ok <- status /\ Disjoint(data)

ImplementsCursor == Union!Spec

(* As long as status() is OK, the children the iterator does not show wait *)
(* on the far side of key(): "ensure that all children are positioned      *)
(* after key()" (lines 58-62), and before it in the other direction (lines *)
(* 84-88), so that picking among them can skip no key.                     *)
ChildrenWait ==
  /\ TypeOK
  /\ status /\ current_ # NULL =>
    \A i \in Others :
      IF direction_ = "kForward"
        THEN pos[i] = ChildNext(i, key) \/ (pos[i] = key /\ i > current_)
        ELSE pos[i] = ChildPrev(i, key) \/ (pos[i] = key /\ i < current_)

(* Even where children share keys, a call of Next() or Prev() never steps  *)
(* over another key of any child and never turns round (lines 55-109).     *)
NoKeySkipped ==
  [][(status' /\ current_ # NULL /\ last'.fn \in {"Next", "Prev"}) =>
       \A i \in Child : \A k \in data[i] :
         IF last'.fn = "Next"
           THEN /\ k > key => current_' # NULL /\ key' <= k
                /\ current_' # NULL => key' >= key
           ELSE /\ k < key => current_' # NULL /\ key' >= k
                /\ current_' # NULL => key' <= key]_vars
=============================================================================
