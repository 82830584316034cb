----------------------- MODULE MergingIteratorProofs ------------------------
(***************************************************************************)
(* The merging iterator is a cursor in the union of its children, for any  *)
(* number of children and any sources.                                     *)
(*                                                                         *)
(* The argument is the one of the comments in merger.cpp.  After a call    *)
(* that goes forward, every child stands at its first key behind some      *)
(* bound, or on the bound itself; the smallest of those keys is then the   *)
(* first key of the union behind the bound, and the other children wait    *)
(* behind it.  ChildrenWait is what makes this true of the next call.      *)
(***************************************************************************)
EXTENDS MergingIterator, WellFoundedInduction, TLAPS

-----------------------------------------------------------------------------
(* Least and greatest elements                                             *)

LEMMA LeastNumber ==
  ASSUME NEW S \in SUBSET Nat, S # {}
  PROVE  \E k \in S : \A j \in S : k <= j
<1> DEFINE Lt == {ss \in Nat \X Nat : ss[1] < ss[2]}
<1>1. IsWellFoundedOn(Lt, Nat)
  BY NatLessThanWellFounded, Zenon DEF OpToRel
<1>2. \A j, k \in Nat : <<j, k>> \in Lt <=> j < k
  OBVIOUS
<1> HIDE DEF Lt
<1>3. PICK k \in S : \A j \in S : ~(<<j, k>> \in Lt)
  BY <1>1, WFMin
<1>4. \A j \in S : j \in Nat /\ k \in Nat /\ ~(j < k)
  BY <1>2, <1>3
<1>5. \A j \in S : k <= j
  BY <1>4
<1> QED BY <1>5

(* The least upper bound of a bounded set is in it.                        *)
LEMMA GreatestNumber ==
  ASSUME NEW S \in SUBSET Nat, S # {}, NEW b \in Nat, \A j \in S : j <= b
  PROVE  \E k \in S : \A j \in S : j <= k
<1> DEFINE Bounds == {u \in Nat : \A j \in S : j <= u}
<1>1. b \in Bounds /\ Bounds \in SUBSET Nat
  OBVIOUS
<1>2. PICK u \in Bounds : \A v \in Bounds : u <= v
  BY <1>1, LeastNumber
<1>3. u \in S
  <2> SUFFICES ASSUME u \notin S PROVE FALSE
    OBVIOUS
  <2>1. \A j \in S : j \in Nat /\ u \in Nat /\ j <= u /\ j # u
    OBVIOUS
  <2>2. u - 1 \in Nat /\ \A j \in S : j <= u - 1
    <3>1. PICK i \in S : TRUE
      OBVIOUS
    <3>2. i \in Nat /\ u \in Nat /\ i <= u /\ i # u
      BY <2>1
    <3>3. u - 1 \in Nat
      BY <3>2
    <3>4. \A j \in Nat : j <= u /\ j # u => j <= u - 1
      BY <3>2
    <3> QED BY <2>1, <3>3, <3>4
  <2>3. u - 1 \in Bounds /\ u \in Nat
    BY <2>2
  <2> QED BY <1>2, <2>3
<1> QED BY <1>3

LEMMA KeysBounded == \E b \in Nat : \A k \in Key : k <= b
BY KeyAssumption

LEMMA LeastIs ==
  ASSUME NEW S \in SUBSET Nat
  PROVE  \/ S = {} /\ Least(S) = NULL
         \/ Least(S) \in S /\ \A j \in S : Least(S) <= j
<1>1. CASE S = {}
  BY <1>1 DEF Least
<1>2. CASE S # {}
  BY <1>2, LeastNumber DEF Least
<1> QED BY <1>1, <1>2

LEMMA GreatestIs ==
  ASSUME NEW S \in SUBSET Key
  PROVE  \/ S = {} /\ Greatest(S) = NULL
         \/ Greatest(S) \in S /\ \A j \in S : j <= Greatest(S)
<1>1. CASE S = {}
  BY <1>1 DEF Greatest
<1>2. CASE S # {}
  <2>1. PICK b \in Nat : \A k \in Key : k <= b
    BY KeysBounded
  <2>2. S \in SUBSET Nat /\ \A j \in S : j <= b
    BY <2>1, KeyAssumption
  <2>3. \E k \in S : \A j \in S : j <= k
    BY <1>2, <2>2, GreatestNumber
  <2>4. \E k \in S : \A j \in S : k >= j
    BY <2>2, <2>3
  <2>5. Greatest(S) \in S /\ \A j \in S : Greatest(S) >= j
    BY <1>2, <2>4 DEF Greatest
  <2> QED BY <2>2, <2>5
<1> QED BY <1>1, <1>2

Positions == [Child -> Key \cup {NULL}]

(* The child with the smallest key, the first one where there are several. *)
LEMMA SmallestIs ==
  ASSUME NEW p \in Positions
  PROVE  \/ FindSmallest(p) = NULL /\ \A i \in Child : p[i] = NULL
         \/ /\ FindSmallest(p) \in Child /\ p[FindSmallest(p)] # NULL
            /\ \A j \in Child : p[j] # NULL =>
                 \/ p[FindSmallest(p)] < p[j]
                 \/ p[FindSmallest(p)] = p[j] /\ FindSmallest(p) <= j
<1>1. CASE \A i \in Child : p[i] = NULL
  BY <1>1 DEF FindSmallest
<1>2. CASE ~\A i \in Child : p[i] = NULL
  <2> DEFINE Shown == {k \in Nat : \E i \in Child : p[i] = k /\ p[i] # NULL}
  <2>1. Shown # {} /\ \A i \in Child : p[i] # NULL => p[i] \in Shown
    BY <1>2, KeyAssumption DEF Positions
  <2>2. PICK k \in Shown : \A j \in Shown : k <= j
    BY <2>1, LeastNumber
  <2> DEFINE At == {i \in Child : p[i] = k}
  <2>3. At # {} /\ At \in SUBSET Nat
    BY <2>2, ChildAssumption DEF Child
  <2>4. PICK i \in At : \A j \in At : i <= j
    BY <2>3, LeastNumber
  <2>5. ASSUME NEW j \in Child, p[j] # NULL
        PROVE  p[i] < p[j] \/ (p[i] = p[j] /\ i <= j)
    <3>1. p[i] = k /\ k \in Nat /\ p[j] \in Nat /\ k <= p[j]
      BY <2>1, <2>2, <2>4, <2>5
    <3>2. p[j] = k => i <= j
      BY <2>4, <2>5
    <3> QED BY <3>1, <3>2
  <2>6. i \in Child /\ p[i] # NULL
    BY <2>2, <2>4
  <2>7. \E c \in Child : /\ p[c] # NULL
                         /\ \A j \in Child : p[j] # NULL =>
                              p[c] < p[j] \/ (p[c] = p[j] /\ c <= j)
    BY <2>5, <2>6
  <2> HIDE DEF Shown, At
  <2> QED BY <1>2, <2>7 DEF FindSmallest
<1> QED BY <1>1, <1>2

(* The child with the largest key, the last one where there are several.   *)
LEMMA LargestIs ==
  ASSUME NEW p \in Positions
  PROVE  \/ FindLargest(p) = NULL /\ \A i \in Child : p[i] = NULL
         \/ /\ FindLargest(p) \in Child /\ p[FindLargest(p)] # NULL
            /\ \A j \in Child : p[j] # NULL =>
                 \/ p[FindLargest(p)] > p[j]
                 \/ p[FindLargest(p)] = p[j] /\ FindLargest(p) >= j
<1>1. CASE \A i \in Child : p[i] = NULL
  BY <1>1 DEF FindLargest
<1>2. CASE ~\A i \in Child : p[i] = NULL
  <2> DEFINE Shown == {k \in Nat : \E i \in Child : p[i] = k /\ p[i] # NULL}
  <2>1. /\ Shown # {} /\ Shown \subseteq Key
        /\ \A i \in Child : p[i] # NULL => p[i] \in Shown
    BY <1>2, KeyAssumption DEF Positions
  <2>2. PICK k \in Shown : \A j \in Shown : j <= k
    <3>1. PICK b \in Nat : \A j \in Key : j <= b
      BY KeysBounded
    <3> QED BY <2>1, <3>1, GreatestNumber
  <2> DEFINE At == {i \in Child : p[i] = k}
  <2>3. At # {} /\ At \in SUBSET Nat /\ n_ \in Nat /\ \A i \in At : i <= n_
    BY <2>2, ChildAssumption DEF Child
  <2>4. PICK i \in At : \A j \in At : j <= i
    BY <2>3, GreatestNumber
  <2>5. ASSUME NEW j \in Child, p[j] # NULL
        PROVE  p[i] > p[j] \/ (p[i] = p[j] /\ i >= j)
    <3>1. p[i] = k /\ k \in Nat /\ p[j] \in Nat /\ p[j] <= k
      BY <2>1, <2>2, <2>4, <2>5
    <3>2. p[j] = k => j <= i /\ i \in Nat /\ j \in Nat
      BY <2>3, <2>4, <2>5
    <3> QED BY <3>1, <3>2
  <2>6. i \in Child /\ p[i] # NULL
    BY <2>2, <2>4
  <2>7. \E c \in Child : /\ p[c] # NULL
                         /\ \A j \in Child : p[j] # NULL =>
                              p[c] > p[j] \/ (p[c] = p[j] /\ c >= j)
    BY <2>5, <2>6
  <2> HIDE DEF Shown, At
  <2> QED BY <1>2, <2>7 DEF FindLargest
<1> QED BY <1>1, <1>2

-----------------------------------------------------------------------------
(* The children around a bound                                             *)

LEMMA DataTyped ==
  data \in Contents =>
    \A i \in Child : /\ data[i] \in SUBSET Key /\ data[i] \in SUBSET Nat
                     /\ NULL \notin data[i]
<1> SUFFICES ASSUME data \in Contents, NEW i \in Child
             PROVE  data[i] \in SUBSET Key /\ data[i] \in SUBSET Nat /\ NULL \notin data[i]
  OBVIOUS
<1>1. data[i] \in SUBSET Key
  BY ContentsAssumption
<1>2. data[i] \in SUBSET Nat
  BY <1>1, KeyAssumption
<1>3. NULL \notin data[i]
  BY <1>2 DEF NULL
<1> QED BY <1>1, <1>2, <1>3

LEMMA NullIsNoChild == NULL \notin Child
BY ChildAssumption DEF NULL, Child

LEMMA NextIs ==
  ASSUME data \in Contents, NEW i \in Child, NEW L \in Int
  PROVE  \/ /\ ChildNext(i, L) = NULL
            /\ \A k \in data[i] : k <= L
         \/ /\ ChildNext(i, L) \in data[i] /\ ChildNext(i, L) > L
            /\ \A k \in data[i] : k > L => ChildNext(i, L) <= k
<1> DEFINE S == {j \in data[i] : j > L}
<1>1. S \in SUBSET Nat /\ data[i] \in SUBSET Nat
  BY DataTyped
<1>2. \/ S = {} /\ Least(S) = NULL
      \/ Least(S) \in S /\ \A j \in S : Least(S) <= j
  BY <1>1, LeastIs
<1>3. ChildNext(i, L) = Least(S)
  BY DEF ChildNext
<1>4. CASE S = {} /\ Least(S) = NULL
  BY <1>1, <1>3, <1>4
<1>5. CASE Least(S) \in S /\ \A j \in S : Least(S) <= j
  BY <1>1, <1>3, <1>5
<1> QED BY <1>2, <1>4, <1>5

LEMMA PrevIs ==
  ASSUME data \in Contents, NEW i \in Child, NEW L \in Int
  PROVE  \/ /\ ChildPrev(i, L) = NULL
            /\ \A k \in data[i] : k >= L
         \/ /\ ChildPrev(i, L) \in data[i] /\ ChildPrev(i, L) < L
            /\ \A k \in data[i] : k < L => k <= ChildPrev(i, L)
<1> DEFINE S == {j \in data[i] : j < L}
<1>1. S \in SUBSET Key /\ data[i] \in SUBSET Nat
  BY DataTyped
<1>2. \/ S = {} /\ Greatest(S) = NULL
      \/ Greatest(S) \in S /\ \A j \in S : j <= Greatest(S)
  BY <1>1, GreatestIs
<1>3. ChildPrev(i, L) = Greatest(S)
  BY DEF ChildPrev
<1>4. CASE S = {} /\ Greatest(S) = NULL
  BY <1>1, <1>3, <1>4
<1>5. CASE Greatest(S) \in S /\ \A j \in S : j <= Greatest(S)
  BY <1>1, <1>3, <1>5
<1> QED BY <1>2, <1>4, <1>5

(* What determines the two.                                                *)
LEMMA NextUnique ==
  ASSUME data \in Contents, NEW i \in Child, NEW L \in Int, NEW q,
         \/ q = NULL /\ \A k \in data[i] : k <= L
         \/ q \in data[i] /\ q > L /\ \A k \in data[i] : k > L => q <= k
  PROVE  q = ChildNext(i, L)
<1>1. data[i] \in SUBSET Nat /\ NULL \notin data[i]
  BY DataTyped
<1> QED BY <1>1, NextIs

LEMMA PrevUnique ==
  ASSUME data \in Contents, NEW i \in Child, NEW L \in Int, NEW q,
         \/ q = NULL /\ \A k \in data[i] : k >= L
         \/ q \in data[i] /\ q < L /\ \A k \in data[i] : k < L => k <= q
  PROVE  q = ChildPrev(i, L)
<1>1. data[i] \in SUBSET Nat /\ NULL \notin data[i]
  BY DataTyped
<1> QED BY <1>1, PrevIs

(* Every child stands at its first key behind L, or on L; before L.        *)
Ahead(p, L) ==
  \A i \in Child : p[i] = ChildNext(i, L) \/ (p[i] = L /\ L \in data[i])
Behind(p, L) ==
  \A i \in Child : p[i] = ChildPrev(i, L) \/ (p[i] = L /\ L \in data[i])

(* The child picked has the first key of the union behind the bound, and   *)
(* the others wait behind that key.                                        *)
LEMMA Forward ==
  ASSUME data \in Contents, NEW p \in Positions, NEW L \in Int, Ahead(p, L),
         NEW c, c = FindSmallest(p)
  PROVE  /\ c = NULL => \A i \in Child : \A k \in data[i] : k <= L
         /\ c # NULL =>
              /\ c \in Child /\ p[c] \in data[c] /\ p[c] >= L
              /\ p[c] = L \/ p[c] = ChildNext(c, L)
              /\ \A i \in Child : \A k \in data[i] : k > L => p[c] <= k
              /\ \A i \in Child \ {c} : p[i] = ChildNext(i, p[c]) \/ (p[i] = p[c] /\ i > c)
<1>0. \A i \in Child : data[i] \in SUBSET Nat /\ NULL \notin data[i]
  BY DataTyped
<1>1. ASSUME NEW i \in Child
      PROVE  \/ p[i] = NULL /\ \A k \in data[i] : k <= L
             \/ /\ p[i] \in data[i] /\ p[i] >= L /\ \A k \in data[i] : k > L => p[i] <= k
  BY <1>0, <1>1, NextIs DEF Ahead
<1>2. ASSUME c = NULL PROVE \A i \in Child : \A k \in data[i] : k <= L
  <2>1. \A i \in Child : p[i] = NULL
    BY <1>2, SmallestIs, NullIsNoChild
  <2> QED BY <1>0, <1>1, <2>1
<1>3. ASSUME c # NULL
      PROVE  /\ c \in Child /\ p[c] # NULL
             /\ \A j \in Child : p[j] # NULL => p[c] < p[j] \/ (p[c] = p[j] /\ c <= j)
  BY <1>3, SmallestIs
<1>4. ASSUME c # NULL
      PROVE  p[c] \in data[c] /\ p[c] >= L /\ (p[c] = L \/ p[c] = ChildNext(c, L))
  BY <1>1, <1>3, <1>4 DEF Ahead
<1>5. ASSUME c # NULL, NEW i \in Child, NEW k \in data[i], k > L PROVE p[c] <= k
  <2>1. k \in Nat /\ p[i] \in Nat /\ p[i] # NULL /\ p[i] <= k
    BY <1>0, <1>1, <1>5
  <2>2. p[c] \in Nat /\ p[c] <= p[i]
    BY <1>0, <1>3, <1>4, <1>5, <2>1
  <2> QED BY <2>1, <2>2
<1>6. ASSUME c # NULL, NEW i \in Child \ {c}
      PROVE  p[i] = ChildNext(i, p[c]) \/ (p[i] = p[c] /\ i > c)
  <2>0. p[c] \in Int /\ p[c] >= L /\ c \in Int /\ i \in Int /\ i # c
    BY <1>0, <1>3, <1>4, <1>6, ChildAssumption DEF Child
  <2>1. CASE p[i] = NULL
    <3>1. \A k \in data[i] : k \in Nat /\ k <= p[c]
      BY <1>0, <1>1, <2>0, <2>1
    <3> QED BY <2>0, <2>1, <3>1, NextUnique
  <2>2. CASE p[i] # NULL /\ p[c] = p[i]
    <3>1. c <= i
      BY <1>0, <1>1, <1>3, <1>6, <2>0, <2>2
    <3> QED BY <2>0, <2>2, <3>1
  <2>3. CASE p[i] # NULL /\ p[c] < p[i]
    <3>1. p[i] \in data[i] /\ p[i] \in Nat /\ \A k \in data[i] : k > L => p[i] <= k
      BY <1>0, <1>1, <2>3
    <3>2. \A k \in data[i] : k > p[c] => p[i] <= k
      BY <1>0, <2>0, <3>1
    <3> QED BY <2>0, <2>3, <3>1, <3>2, NextUnique
  <2> QED BY <1>3, <1>6, <2>1, <2>2, <2>3
<1> QED BY <1>2, <1>3, <1>4, <1>5, <1>6

(* The same backwards.                                                     *)
LEMMA Backward ==
  ASSUME data \in Contents, NEW p \in Positions, NEW L \in Int, Behind(p, L),
         NEW c, c = FindLargest(p)
  PROVE  /\ c = NULL => \A i \in Child : \A k \in data[i] : k >= L
         /\ c # NULL =>
              /\ c \in Child /\ p[c] \in data[c] /\ p[c] <= L
              /\ p[c] = L \/ p[c] = ChildPrev(c, L)
              /\ \A i \in Child : \A k \in data[i] : k < L => k <= p[c]
              /\ \A i \in Child \ {c} : p[i] = ChildPrev(i, p[c]) \/ (p[i] = p[c] /\ i < c)
<1>0. \A i \in Child : data[i] \in SUBSET Nat /\ NULL \notin data[i]
  BY DataTyped
<1>1. ASSUME NEW i \in Child
      PROVE  \/ p[i] = NULL /\ \A k \in data[i] : k >= L
             \/ /\ p[i] \in data[i] /\ p[i] <= L /\ \A k \in data[i] : k < L => k <= p[i]
  BY <1>0, <1>1, PrevIs DEF Behind
<1>2. ASSUME c = NULL PROVE \A i \in Child : \A k \in data[i] : k >= L
  <2>1. \A i \in Child : p[i] = NULL
    BY <1>2, LargestIs, NullIsNoChild
  <2> QED BY <1>0, <1>1, <2>1
<1>3. ASSUME c # NULL
      PROVE  /\ c \in Child /\ p[c] # NULL
             /\ \A j \in Child : p[j] # NULL => p[c] > p[j] \/ (p[c] = p[j] /\ c >= j)
  BY <1>3, LargestIs
<1>4. ASSUME c # NULL
      PROVE  p[c] \in data[c] /\ p[c] <= L /\ (p[c] = L \/ p[c] = ChildPrev(c, L))
  BY <1>1, <1>3, <1>4 DEF Behind
<1>5. ASSUME c # NULL, NEW i \in Child, NEW k \in data[i], k < L PROVE k <= p[c]
  <2>1. k \in Nat /\ p[i] \in Nat /\ p[i] # NULL /\ k <= p[i]
    BY <1>0, <1>1, <1>5
  <2>2. p[c] \in Nat /\ p[i] <= p[c]
    BY <1>0, <1>3, <1>4, <1>5, <2>1
  <2> QED BY <2>1, <2>2
<1>6. ASSUME c # NULL, NEW i \in Child \ {c}
      PROVE  p[i] = ChildPrev(i, p[c]) \/ (p[i] = p[c] /\ i < c)
  <2>0. p[c] \in Int /\ p[c] <= L /\ c \in Int /\ i \in Int /\ i # c
    BY <1>0, <1>3, <1>4, <1>6, ChildAssumption DEF Child
  <2>1. CASE p[i] = NULL
    <3>1. \A k \in data[i] : k \in Nat /\ k >= p[c]
      BY <1>0, <1>1, <2>0, <2>1
    <3> QED BY <2>0, <2>1, <3>1, PrevUnique
  <2>2. CASE p[i] # NULL /\ p[c] = p[i]
    <3>1. c >= i
      BY <1>0, <1>1, <1>3, <1>6, <2>0, <2>2
    <3> QED BY <2>0, <2>2, <3>1
  <2>3. CASE p[i] # NULL /\ p[c] > p[i]
    <3>1. p[i] \in data[i] /\ p[i] \in Nat /\ \A k \in data[i] : k < L => k <= p[i]
      BY <1>0, <1>1, <2>3
    <3>2. \A k \in data[i] : k < p[c] => k <= p[i]
      BY <1>0, <2>0, <3>1
    <3> QED BY <2>0, <2>3, <3>1, <3>2, PrevUnique
  <2> QED BY <1>3, <1>6, <2>1, <2>2, <2>3
<1> QED BY <1>2, <1>3, <1>4, <1>5, <1>6

-----------------------------------------------------------------------------
(* What each call does                                                     *)

OnSource ==
  /\ \A i \in Child : pos[i] \in data[i] \cup {NULL}
  /\ current_ # NULL => key # NULL

Inv == ChildrenWait /\ OnSource

(* A call that moves the children, in the direction dir.                   *)
Moves(dir, op) ==
  /\ data' = data /\ direction_' = dir /\ last' = op
  /\ pos' \in Positions /\ \A i \in Child : pos'[i] \in data[i] \cup {NULL}
  /\ ok' \in [Child -> BOOLEAN] /\ (status' => status)
  /\ current_' = IF dir = "kForward" THEN FindSmallest(pos') ELSE FindLargest(pos')

LEMMA Settles ==
  ASSUME Inv, NEW f, NEW p, p = [i \in Child |-> f[i]],
         \A i \in Child : f[i] \in data[i] \cup {NULL},
         NEW bad \in SUBSET Child, NEW dir \in {"kForward", "kReverse"}, NEW op,
         Settle(p, bad, dir, op)
  PROVE  Moves(dir, op) /\ pos' = p /\ (status' => bad = {})
<1>1. \A i \in Child : p[i] = f[i] /\ p[i] \in data[i] \cup {NULL} /\ p[i] \in Key \cup {NULL}
  BY DataTyped DEF Inv, ChildrenWait, TypeOK
<1>2. p \in Positions
  BY <1>1 DEF Positions
<1>3. ok' \in [Child -> BOOLEAN] /\ (status' => status /\ bad = {})
  <2>1. ok' = [i \in Child |-> ok[i] /\ i \notin bad] /\ ok \in [Child -> BOOLEAN]
    BY DEF Settle, Inv, ChildrenWait, TypeOK
  <2> QED BY <2>1 DEF status
<1> QED BY <1>1, <1>2, <1>3 DEF Settle, Moves

LEMMA ChildrenTyped ==
  ASSUME data \in Contents, NEW i \in Child
  PROVE  /\ ChildFirst(i) \in data[i] \cup {NULL} /\ ChildLast(i) \in data[i] \cup {NULL}
         /\ \A k \in Int : /\ ChildSeek(i, k) = ChildNext(i, k - 1)
                           /\ ChildSeek(i, k) \in data[i] \cup {NULL}
                           /\ ChildNext(i, k) \in data[i] \cup {NULL}
                           /\ ChildPrev(i, k) \in data[i] \cup {NULL}
<1>0. data[i] \in SUBSET Key /\ data[i] \in SUBSET Nat
  BY DataTyped
<1>1. ChildFirst(i) \in data[i] \cup {NULL} /\ ChildLast(i) \in data[i] \cup {NULL}
  BY <1>0, LeastIs, GreatestIs DEF ChildFirst, ChildLast
<1>2. ASSUME NEW k \in Int
      PROVE  /\ ChildSeek(i, k) = ChildNext(i, k - 1) /\ ChildNext(i, k - 1) \in data[i] \cup {NULL}
             /\ ChildNext(i, k) \in data[i] \cup {NULL} /\ ChildPrev(i, k) \in data[i] \cup {NULL}
  <2>1. {j \in data[i] : j >= k} = {j \in data[i] : j > k - 1}
    BY <1>0
  <2>2. ChildSeek(i, k) = ChildNext(i, k - 1)
    BY <2>1 DEF ChildSeek, ChildNext
  <2> QED BY <2>2, NextIs, PrevIs
<1> QED BY <1>1, <1>2

LEMMA SeekToFirstMoves ==
  ASSUME Inv, SeekToFirst
  PROVE  /\ Moves("kForward", [fn |-> "SeekToFirst", key |-> NULL])
         /\ status' => Ahead(pos', -1)
<1>0. data \in Contents
  BY DEF Inv, ChildrenWait, TypeOK
<1>1. PICK bad \in SUBSET Child :
        Settle([i \in Child |-> IF i \in bad THEN NULL ELSE ChildFirst(i)],
               bad, "kForward", [fn |-> "SeekToFirst", key |-> NULL])
  BY DEF SeekToFirst
<1> DEFINE p == [i \in Child |-> IF i \in bad THEN NULL ELSE ChildFirst(i)]
<1>2. p = [i \in Child |-> p[i]] /\ \A i \in Child : p[i] \in data[i] \cup {NULL}
  BY <1>0, ChildrenTyped
<1>3. \A i \in Child : i \notin bad => p[i] = ChildFirst(i)
  OBVIOUS
<1> HIDE DEF p
<1>4. /\ Moves("kForward", [fn |-> "SeekToFirst", key |-> NULL]) /\ pos' = p
      /\ status' => bad = {}
  BY <1>1, <1>2, Settles DEF p
<1>5. ASSUME NEW i \in Child PROVE ChildFirst(i) = ChildNext(i, -1)
  <2>1. data[i] \in SUBSET Nat
    BY <1>0, DataTyped
  <2>2. {j \in data[i] : j > -1} = data[i]
    BY <2>1
  <2> QED BY <2>2 DEF ChildFirst, ChildNext
<1> QED BY <1>3, <1>4, <1>5 DEF Ahead

LEMMA SeekMoves ==
  ASSUME Inv, NEW target \in Key, Seek(target)
  PROVE  /\ Moves("kForward", [fn |-> "Seek", key |-> target])
         /\ status' => Ahead(pos', target - 1)
<1>0. data \in Contents /\ target \in Int /\ target - 1 \in Int
  BY KeyAssumption DEF Inv, ChildrenWait, TypeOK
<1>1. PICK bad \in SUBSET Child :
        Settle([i \in Child |-> IF i \in bad THEN NULL ELSE ChildSeek(i, target)],
               bad, "kForward", [fn |-> "Seek", key |-> target])
  BY DEF Seek
<1> DEFINE p == [i \in Child |-> IF i \in bad THEN NULL ELSE ChildSeek(i, target)]
<1>2. p = [i \in Child |-> p[i]] /\ \A i \in Child : p[i] \in data[i] \cup {NULL}
  BY <1>0, ChildrenTyped
<1>3. \A i \in Child : i \notin bad => p[i] = ChildSeek(i, target)
  OBVIOUS
<1> HIDE DEF p
<1>4. /\ Moves("kForward", [fn |-> "Seek", key |-> target]) /\ pos' = p
      /\ status' => bad = {}
  BY <1>1, <1>2, Settles DEF p
<1>5. \A i \in Child : ChildSeek(i, target) = ChildNext(i, target - 1)
  BY <1>0, ChildrenTyped
<1> QED BY <1>3, <1>4, <1>5 DEF Ahead

LEMMA SeekToLastMoves ==
  ASSUME Inv, SeekToLast
  PROVE  /\ Moves("kReverse", [fn |-> "SeekToLast", key |-> NULL])
         /\ status' => \E L \in Int : Behind(pos', L) /\ \A k \in Key : k < L
<1>0. data \in Contents
  BY DEF Inv, ChildrenWait, TypeOK
<1>1. PICK bad \in SUBSET Child :
        Settle([i \in Child |-> IF i \in bad THEN NULL ELSE ChildLast(i)],
               bad, "kReverse", [fn |-> "SeekToLast", key |-> NULL])
  BY DEF SeekToLast
<1> DEFINE p == [i \in Child |-> IF i \in bad THEN NULL ELSE ChildLast(i)]
<1>2. p = [i \in Child |-> p[i]] /\ \A i \in Child : p[i] \in data[i] \cup {NULL}
  BY <1>0, ChildrenTyped
<1>3. \A i \in Child : i \notin bad => p[i] = ChildLast(i)
  OBVIOUS
<1> HIDE DEF p
<1>4. /\ Moves("kReverse", [fn |-> "SeekToLast", key |-> NULL]) /\ pos' = p
      /\ status' => bad = {}
  BY <1>1, <1>2, Settles DEF p
<1>5. PICK b \in Nat : \A k \in Key : k <= b
  BY KeysBounded
<1>6. b + 1 \in Int /\ \A k \in Key : k < b + 1
  BY <1>5, KeyAssumption
<1>7. ASSUME NEW i \in Child PROVE ChildLast(i) = ChildPrev(i, b + 1)
  <2>1. data[i] \in SUBSET Key
    BY <1>0, DataTyped
  <2>2. {j \in data[i] : j < b + 1} = data[i]
    BY <1>6, <2>1
  <2> QED BY <2>2 DEF ChildLast, ChildPrev
<1>8. status' => Behind(pos', b + 1)
  BY <1>3, <1>4, <1>7 DEF Behind
<1> QED BY <1>4, <1>6, <1>8

LEMMA CurrentIs ==
  ASSUME Inv, current_ # NULL
  PROVE  /\ data \in Contents /\ current_ \in Child
         /\ key \in data[current_] /\ key \in Nat
         /\ \A i \in Others : i \in Child /\ i # current_
<1>1. data \in Contents /\ current_ \in Child
  BY DEF Inv, ChildrenWait, TypeOK
<1>2. key \in data[current_]
  BY <1>1 DEF Inv, OnSource, key
<1>3. key \in Nat
  BY <1>1, <1>2, DataTyped
<1> QED BY <1>1, <1>2, <1>3 DEF Others

(* Next() leaves every child at its first key behind key(), or on another  *)
(* copy of key().                                                          *)
LEMMA NextMoves ==
  ASSUME Inv, Next
  PROVE  /\ current_ # NULL /\ Moves("kForward", [fn |-> "Next", key |-> NULL])
         /\ status' => Ahead(pos', key) /\ pos'[current_] = ChildNext(current_, key)
<1> DEFINE turn == direction_ # "kForward"
           pp(bad) == IF turn THEN SeekOthers(bad) ELSE pos
           moved(bad) == {current_} \cup {i \in Others : turn /\ pp(bad)[i] = key}
           q(bad, worse) == [i \in Child |-> IF i \notin moved(bad) THEN pp(bad)[i]
                                            ELSE IF i \in worse THEN NULL
                                            ELSE ChildNext(i, key)]
<1>1. current_ # NULL
  BY DEF Next
<1>2. /\ data \in Contents /\ current_ \in Child /\ key \in data[current_] /\ key \in Int
      /\ \A i \in Others : i \in Child /\ i # current_
  BY <1>1, CurrentIs
<1>3. PICK bad \in SUBSET (IF turn THEN Others ELSE {}) :
        \E worse \in SUBSET moved(bad) :
          Settle(q(bad, worse), bad \cup worse, "kForward", [fn |-> "Next", key |-> NULL])
  BY DEF Next
<1>4. PICK worse \in SUBSET moved(bad) :
        Settle(q(bad, worse), bad \cup worse, "kForward", [fn |-> "Next", key |-> NULL])
  BY <1>3
<1>5. bad \cup worse \in SUBSET Child
  BY <1>2 DEF Others
<1>6. ASSUME NEW i \in Child
      PROVE  /\ pp(bad)[i] \in data[i] \cup {NULL}
             /\ turn /\ i # current_ /\ i \notin bad => pp(bad)[i] = ChildNext(i, key - 1)
             /\ ~turn => pp(bad)[i] = pos[i]
  <2>1. pos[i] \in data[i] \cup {NULL} /\ key - 1 \in Int
    BY <1>2 DEF Inv, OnSource
  <2>2. ChildSeek(i, key) = ChildNext(i, key - 1) /\ ChildSeek(i, key) \in data[i] \cup {NULL}
    BY <1>2, ChildrenTyped
  <2>3. turn => SeekOthers(bad)[i] = IF i = current_ THEN pos[i]
                                     ELSE IF i \in bad THEN NULL ELSE ChildSeek(i, key)
    BY DEF SeekOthers
  <2> QED BY <2>1, <2>2, <2>3
<1> HIDE DEF pp
<1>7. \A i \in Child : q(bad, worse)[i] \in data[i] \cup {NULL}
  BY <1>2, <1>6, ChildrenTyped
<1>8. /\ q(bad, worse) = [i \in Child |-> q(bad, worse)[i]]
      /\ \A i \in Child : q(bad, worse)[i] = IF i \notin moved(bad) THEN pp(bad)[i]
                                             ELSE IF i \in worse THEN NULL
                                             ELSE ChildNext(i, key)
  OBVIOUS
<1> HIDE DEF q
<1>9. /\ Moves("kForward", [fn |-> "Next", key |-> NULL]) /\ pos' = q(bad, worse)
      /\ status' => bad \cup worse = {}
  BY <1>4, <1>5, <1>7, <1>8, Settles
<1>10. ASSUME status' PROVE Ahead(pos', key) /\ pos'[current_] = ChildNext(current_, key)
  <2>1. bad = {} /\ worse = {} /\ status
    BY <1>9, <1>10 DEF Moves
  <2>2. pos'[current_] = ChildNext(current_, key)
    BY <1>2, <1>8, <1>9, <2>1
  <2>3. ASSUME NEW i \in Child, i # current_
        PROVE  pos'[i] = ChildNext(i, key) \/ (pos'[i] = key /\ key \in data[i])
    <3>1. i \in Others
      BY <2>3 DEF Others
    <3>2. CASE ~turn
      <4>1. i \notin moved(bad) /\ pos'[i] = pos[i]
        BY <1>6, <1>8, <1>9, <2>3, <3>2
      <4>2. pos[i] = ChildNext(i, key) \/ pos[i] = key
        BY <1>1, <2>1, <3>1, <3>2 DEF Inv, ChildrenWait
      <4>3. pos[i] = key => key \in data[i]
        BY <1>1 DEF Inv, OnSource
      <4> QED BY <4>1, <4>2, <4>3
    <3>3. CASE turn /\ pp(bad)[i] = key
      BY <1>8, <1>9, <2>1, <3>1, <3>3
    <3>4. CASE turn /\ pp(bad)[i] # key
      <4>1. pos'[i] = ChildNext(i, key - 1) /\ pos'[i] # key
        BY <1>6, <1>8, <1>9, <2>1, <2>3, <3>4
      <4>2. key - 1 \in Int /\ data[i] \in SUBSET Nat
        BY <1>2, DataTyped
      <4>3. \/ pos'[i] = NULL /\ \A k \in data[i] : k <= key
            \/ pos'[i] \in data[i] /\ pos'[i] > key /\ \A k \in data[i] : k > key => pos'[i] <= k
        BY <1>2, <4>1, <4>2, NextIs
      <4> QED BY <1>2, <4>3, NextUnique
    <3> QED BY <3>2, <3>3, <3>4
  <2> QED BY <1>2, <2>2, <2>3 DEF Ahead
<1> QED BY <1>1, <1>9, <1>10

(* Prev() leaves every child at its last key before key(), or on another   *)
(* copy of key().                                                          *)
LEMMA PrevMoves ==
  ASSUME Inv, Prev
  PROVE  /\ current_ # NULL /\ Moves("kReverse", [fn |-> "Prev", key |-> NULL])
         /\ status' => Behind(pos', key) /\ pos'[current_] = ChildPrev(current_, key)
<1> DEFINE turn == direction_ # "kReverse"
           moved == IF turn THEN Child ELSE {current_}
           pp(bad) == IF turn THEN SeekOthers(bad) ELSE pos
           q(bad, worse) == [i \in Child |-> IF i \notin moved THEN pp(bad)[i]
                                            ELSE IF i \in worse THEN NULL
                                            ELSE IF pp(bad)[i] # NULL THEN ChildPrev(i, pp(bad)[i])
                                            ELSE ChildLast(i)]
<1>1. current_ # NULL
  BY DEF Prev
<1>2. /\ data \in Contents /\ current_ \in Child /\ key \in data[current_] /\ key \in Int
      /\ \A i \in Others : i \in Child /\ i # current_
  BY <1>1, CurrentIs
<1>3. PICK bad \in SUBSET (IF turn THEN Others ELSE {}), worse \in SUBSET moved :
        Settle(q(bad, worse), bad \cup worse, "kReverse", [fn |-> "Prev", key |-> NULL])
  BY DEF Prev
<1>4. bad \cup worse \in SUBSET Child
  BY <1>2 DEF Others
<1>5. ASSUME NEW i \in Child
      PROVE  /\ pp(bad)[i] \in data[i] \cup {NULL}
             /\ i = current_ \/ ~turn => pp(bad)[i] = pos[i]
             /\ turn /\ i # current_ /\ i \notin bad => pp(bad)[i] = ChildNext(i, key - 1)
  <2>1. pos[i] \in data[i] \cup {NULL} /\ key - 1 \in Int
    BY <1>2 DEF Inv, OnSource
  <2>2. ChildSeek(i, key) = ChildNext(i, key - 1) /\ ChildSeek(i, key) \in data[i] \cup {NULL}
    BY <1>2, ChildrenTyped
  <2>3. turn => SeekOthers(bad)[i] = IF i = current_ THEN pos[i]
                                     ELSE IF i \in bad THEN NULL ELSE ChildSeek(i, key)
    BY DEF SeekOthers
  <2> QED BY <2>1, <2>2, <2>3
<1> HIDE DEF pp
<1>6. \A i \in Child : q(bad, worse)[i] \in data[i] \cup {NULL}
  <2> TAKE i \in Child
  <2>1. data[i] \in SUBSET Nat
    BY <1>2, DataTyped
  <2>2. pp(bad)[i] # NULL => ChildPrev(i, pp(bad)[i]) \in data[i] \cup {NULL}
    BY <1>2, <1>5, <2>1, ChildrenTyped
  <2>3. ChildLast(i) \in data[i] \cup {NULL}
    BY <1>2, ChildrenTyped
  <2> QED BY <1>5, <2>2, <2>3
<1>7. /\ q(bad, worse) = [i \in Child |-> q(bad, worse)[i]]
      /\ \A i \in Child : q(bad, worse)[i] = IF i \notin moved THEN pp(bad)[i]
                                            ELSE IF i \in worse THEN NULL
                                            ELSE IF pp(bad)[i] # NULL THEN ChildPrev(i, pp(bad)[i])
                                            ELSE ChildLast(i)
  OBVIOUS
<1> HIDE DEF q
<1>8. /\ Moves("kReverse", [fn |-> "Prev", key |-> NULL]) /\ pos' = q(bad, worse)
      /\ status' => bad \cup worse = {}
  BY <1>3, <1>4, <1>6, <1>7, Settles
<1>9. ASSUME status' PROVE Behind(pos', key) /\ pos'[current_] = ChildPrev(current_, key)
  <2>1. bad = {} /\ worse = {} /\ status
    BY <1>8, <1>9 DEF Moves
  <2>2. pos'[current_] = ChildPrev(current_, key)
    <3>1. pp(bad)[current_] = key /\ key # NULL
      BY <1>2, <1>5, DataTyped DEF key
    <3> QED BY <1>2, <1>7, <1>8, <2>1, <3>1
  <2>3. ASSUME NEW i \in Child, i # current_
        PROVE  pos'[i] = ChildPrev(i, key) \/ (pos'[i] = key /\ key \in data[i])
    <3>1. i \in Others
      BY <2>3 DEF Others
    <3>2. CASE ~turn
      <4>1. i \notin moved /\ pos'[i] = pos[i]
        BY <1>5, <1>7, <1>8, <2>3, <3>2
      <4>2. pos[i] = ChildPrev(i, key) \/ pos[i] = key
        BY <1>1, <2>1, <3>1, <3>2 DEF Inv, ChildrenWait, TypeOK
      <4>3. pos[i] = key => key \in data[i]
        BY <1>1 DEF Inv, OnSource
      <4> QED BY <4>1, <4>2, <4>3
    <3>3. CASE turn
      <4>0. /\ pp(bad)[i] = ChildNext(i, key - 1) /\ key - 1 \in Int /\ i \in moved
            /\ data[i] \in SUBSET Nat /\ NULL \notin data[i]
        BY <1>2, <1>5, <2>1, <2>3, <3>3, DataTyped
      <4>1. CASE pp(bad)[i] # NULL
        <5>1. pos'[i] = ChildPrev(i, pp(bad)[i])
          BY <1>7, <1>8, <2>1, <4>0, <4>1
        <5>2. /\ pp(bad)[i] \in data[i] /\ pp(bad)[i] > key - 1
              /\ \A k \in data[i] : k > key - 1 => pp(bad)[i] <= k
          BY <1>2, <4>0, <4>1, NextIs
        <5>3. \A k \in data[i] : k < pp(bad)[i] <=> k < key
          BY <1>2, <4>0, <5>2
        <5>4. {j \in data[i] : j < pp(bad)[i]} = {j \in data[i] : j < key}
          BY <5>3
        <5> QED BY <5>1, <5>4 DEF ChildPrev
      <4>2. CASE pp(bad)[i] = NULL
        <5>1. pos'[i] = ChildLast(i)
          BY <1>7, <1>8, <2>1, <4>0, <4>2
        <5>2. \A k \in data[i] : k <= key - 1
          BY <1>2, <4>0, <4>2, NextIs
        <5>3. {j \in data[i] : j < key} = data[i]
          BY <1>2, <4>0, <5>2
        <5> QED BY <5>1, <5>3 DEF ChildLast, ChildPrev
      <4> QED BY <4>1, <4>2
    <3> QED BY <3>2, <3>3
  <2> QED BY <1>2, <2>2, <2>3 DEF Behind
<1> QED BY <1>1, <1>8, <1>9

-----------------------------------------------------------------------------
(* The invariant                                                           *)

LEMMA InitInv == Init => Inv
<1> SUFFICES ASSUME Init PROVE Inv
  OBVIOUS
<1>1. TypeOK /\ current_ = NULL /\ \A i \in Child : pos[i] = NULL
  BY DEF Init, TypeOK
<1> QED BY <1>1 DEF Inv, ChildrenWait, OnSource

LEMMA TypesKept ==
  ASSUME Inv, NEW dir \in {"kForward", "kReverse"}, NEW op, Moves(dir, op)
  PROVE  TypeOK' /\ OnSource'
<1>1. data' \in Contents /\ data' = data /\ pos' \in Positions
  BY DEF Inv, ChildrenWait, TypeOK, Moves
<1>2. /\ current_' \in Child \cup {NULL}
      /\ current_' # NULL => pos'[current_'] # NULL
  BY <1>1, SmallestIs, LargestIs DEF Moves
<1> QED BY <1>1, <1>2 DEF Moves, TypeOK, OnSource, Positions, key

LEMMA ForwardInv ==
  ASSUME Inv, NEW op, Moves("kForward", op), status' => \E L \in Int : Ahead(pos', L)
  PROVE  Inv'
<1>1. TypeOK' /\ OnSource'
  BY TypesKept
<1>2. ASSUME status', current_' # NULL, NEW i \in Others'
      PROVE  \/ pos'[i] = ChildNext(i, pos'[current_'])
             \/ pos'[i] = pos'[current_'] /\ i > current_'
  <2>1. PICK L \in Int : Ahead(pos', L)
    BY <1>2
  <2>2. data \in Contents /\ pos' \in Positions /\ current_' = FindSmallest(pos')
    BY DEF Inv, ChildrenWait, TypeOK, Moves
  <2>3. i \in Child \ {current_'}
    BY <1>2 DEF Others
  <2> QED BY <1>2, <2>1, <2>2, <2>3, Forward
<1>3. data' = data /\ direction_' = "kForward"
  BY DEF Moves
<1> QED BY <1>1, <1>2, <1>3 DEF Inv, ChildrenWait, ChildNext, key

LEMMA ReverseInv ==
  ASSUME Inv, NEW op, Moves("kReverse", op), status' => \E L \in Int : Behind(pos', L)
  PROVE  Inv'
<1>1. TypeOK' /\ OnSource'
  BY TypesKept
<1>2. ASSUME status', current_' # NULL, NEW i \in Others'
      PROVE  \/ pos'[i] = ChildPrev(i, pos'[current_'])
             \/ pos'[i] = pos'[current_'] /\ i < current_'
  <2>1. PICK L \in Int : Behind(pos', L)
    BY <1>2
  <2>2. data \in Contents /\ pos' \in Positions /\ current_' = FindLargest(pos')
    BY DEF Inv, ChildrenWait, TypeOK, Moves
  <2>3. i \in Child \ {current_'}
    BY <1>2 DEF Others
  <2> QED BY <1>2, <2>1, <2>2, <2>3, Backward
<1>3. data' = data /\ direction_' = "kReverse"
  BY DEF Moves
<1> QED BY <1>1, <1>2, <1>3 DEF Inv, ChildrenWait, ChildPrev, key

LEMMA NextInv == Inv /\ [Step]_vars => Inv'
<1> SUFFICES ASSUME Inv, [Step]_vars PROVE Inv'
  OBVIOUS
<1>1. CASE SeekToFirst
  <2>1. -1 \in Int
    OBVIOUS
  <2> QED BY <1>1, <2>1, SeekToFirstMoves, ForwardInv
<1>2. CASE SeekToLast
  BY <1>2, SeekToLastMoves, ReverseInv
<1>3. ASSUME NEW target \in Key, Seek(target) PROVE Inv'
  <2>1. target - 1 \in Int
    BY KeyAssumption
  <2> QED BY <1>3, <2>1, SeekMoves, ForwardInv
<1>4. CASE Next
  <2>1. current_ # NULL
    BY <1>4 DEF Next
  <2>2. key \in Int
    BY <2>1, CurrentIs
  <2> QED BY <1>4, <2>2, NextMoves, ForwardInv
<1>5. CASE Prev
  <2>1. current_ # NULL
    BY <1>5 DEF Prev
  <2>2. key \in Int
    BY <2>1, CurrentIs
  <2> QED BY <1>5, <2>2, PrevMoves, ReverseInv
<1>6. CASE UNCHANGED vars
  BY <1>6 DEF vars, Inv, ChildrenWait, TypeOK, OnSource, status, Others, key, ChildNext, ChildPrev
<1> QED BY <1>1, <1>2, <1>3, <1>4, <1>5, <1>6 DEF Step

LEMMA Invariance == Spec => []Inv
BY InitInv, NextInv, PTL DEF Spec

(* For any number of children: while status() is OK, the children that are *)
(* not shown wait on the far side of key(), in either direction and after  *)
(* any mix of calls (table/merger.cpp, lines 31-109).                      *)
THEOREM OthersWait == Spec => []ChildrenWait
<1>1. Inv => ChildrenWait
  BY DEF Inv
<1> QED BY <1>1, Invariance, PTL

-----------------------------------------------------------------------------
(* The action property                                                     *)

SkipsNone ==
  (status' /\ current_ # NULL /\ last'.fn \in {"Next", "Prev"}) =>
    \A i \in Child : \A k \in data[i] :
      IF last'.fn = "Next"
        THEN /\ k > key => current_' # NULL /\ key' <= k
             /\ current_' # NULL => key' >= key
        ELSE /\ k < key => current_' # NULL /\ key' >= k
             /\ current_' # NULL => key' <= key

LEMMA StepSkipsNone == Inv /\ Step => SkipsNone
<1> SUFFICES ASSUME Inv, Step, status', current_ # NULL, last'.fn \in {"Next", "Prev"},
                    NEW i \in Child, NEW k \in data[i]
             PROVE  IF last'.fn = "Next"
                      THEN /\ k > key => current_' # NULL /\ key' <= k
                           /\ current_' # NULL => key' >= key
                      ELSE /\ k < key => current_' # NULL /\ key' >= k
                           /\ current_' # NULL => key' <= key
  BY DEF SkipsNone
<1>0. data \in Contents /\ key \in Nat /\ key \in Int
  BY CurrentIs
<1>a. k \in Nat /\ \A j \in Child : data[j] \in SUBSET Nat
  BY <1>0, DataTyped
<1>1. CASE Next
  <2>1. Moves("kForward", [fn |-> "Next", key |-> NULL]) /\ Ahead(pos', key)
    BY <1>1, NextMoves
  <2>2. pos' \in Positions /\ current_' = FindSmallest(pos') /\ last'.fn = "Next"
    BY <2>1 DEF Moves
  <2>3. /\ current_' = NULL => k <= key
        /\ current_' # NULL => /\ current_' \in Child /\ pos'[current_'] \in data[current_']
                              /\ pos'[current_'] >= key /\ (k > key => pos'[current_'] <= k)
    BY <1>0, <2>1, <2>2, Forward
  <2> QED BY <1>0, <1>a, <2>2, <2>3 DEF key
<1>2. CASE Prev
  <2>1. Moves("kReverse", [fn |-> "Prev", key |-> NULL]) /\ Behind(pos', key)
    BY <1>2, PrevMoves
  <2>2. pos' \in Positions /\ current_' = FindLargest(pos') /\ last'.fn = "Prev"
    BY <2>1 DEF Moves
  <2>3. /\ current_' = NULL => k >= key
        /\ current_' # NULL => /\ current_' \in Child /\ pos'[current_'] \in data[current_']
                              /\ pos'[current_'] <= key /\ (k < key => k <= pos'[current_'])
    BY <1>0, <2>1, <2>2, Backward
  <2> QED BY <1>0, <1>a, <2>2, <2>3 DEF key
<1>3. CASE SeekToFirst \/ SeekToLast \/ \E target \in Key : Seek(target)
  <2>1. last'.fn \in {"SeekToFirst", "SeekToLast", "Seek"}
    BY <1>3, SeekToFirstMoves, SeekToLastMoves, SeekMoves DEF Moves
  <2> QED BY <2>1
<1> QED BY <1>1, <1>2, <1>3 DEF Step

(* Next() and Prev() step over no key of any child and do not turn round,  *)
(* even where children share keys (table/merger.cpp, lines 55-109).        *)
THEOREM SkipsNoKey == Spec => NoKeySkipped
<1>1. Inv /\ [Step]_vars => [SkipsNone]_vars
  BY StepSkipsNone
<1>2. Spec => [][SkipsNone]_vars
  BY <1>1, Invariance, PTL DEF Spec
<1> QED BY <1>2, PTL DEF NoKeySkipped, SkipsNone

-----------------------------------------------------------------------------
(* The refinement                                                          *)

UnionKeys == UNION {data[i] : i \in Child}
UnionAt == IF current_ = NULL THEN NULL ELSE key
UnionOk == status /\ Disjoint(data)

(* After a forward call the iterator shows the first key of the union that *)
(* is behind the bound, if no child is left on the bound itself.           *)
LEMMA FirstOfUnion ==
  ASSUME Inv, NEW op, Moves("kForward", op), NEW L \in Int, Ahead(pos', L),
         current_' # NULL => pos'[current_'] # L
  PROVE  Union!IsLeast(UnionAt', {k \in UnionKeys : k > L})
<1>1. data \in Contents /\ pos' \in Positions /\ current_' = FindSmallest(pos')
  BY DEF Inv, ChildrenWait, TypeOK, Moves
<1>2. /\ current_' = NULL => \A i \in Child : \A k \in data[i] : k <= L
      /\ current_' # NULL =>
           /\ current_' \in Child /\ pos'[current_'] \in data[current_'] /\ pos'[current_'] >= L
           /\ \A i \in Child : \A k \in data[i] : k > L => pos'[current_'] <= k
  BY <1>1, Forward
<1>3. \A i \in Child : data[i] \in SUBSET Nat
  BY <1>1, DataTyped
<1>4. CASE current_' = NULL
  <2>1. {k \in UnionKeys : k > L} = {}
    BY <1>2, <1>3, <1>4 DEF UnionKeys
  <2> QED BY <1>4, <2>1 DEF UnionAt, Union!IsLeast
<1>5. CASE current_' # NULL
  <2>1. pos'[current_'] \in UnionKeys /\ pos'[current_'] > L
    BY <1>2, <1>3, <1>5 DEF UnionKeys
  <2>2. \A k \in UnionKeys : k > L => pos'[current_'] <= k
    BY <1>2, <1>5 DEF UnionKeys
  <2> QED BY <1>5, <2>1, <2>2 DEF UnionAt, Union!IsLeast, key
<1> QED BY <1>4, <1>5

LEMMA LastOfUnion ==
  ASSUME Inv, NEW op, Moves("kReverse", op), NEW L \in Int, Behind(pos', L),
         current_' # NULL => pos'[current_'] # L
  PROVE  Union!IsGreatest(UnionAt', {k \in UnionKeys : k < L})
<1>1. data \in Contents /\ pos' \in Positions /\ current_' = FindLargest(pos')
  BY DEF Inv, ChildrenWait, TypeOK, Moves
<1>2. /\ current_' = NULL => \A i \in Child : \A k \in data[i] : k >= L
      /\ current_' # NULL =>
           /\ current_' \in Child /\ pos'[current_'] \in data[current_'] /\ pos'[current_'] <= L
           /\ \A i \in Child : \A k \in data[i] : k < L => k <= pos'[current_']
  BY <1>1, Backward
<1>3. \A i \in Child : data[i] \in SUBSET Nat
  BY <1>1, DataTyped
<1>4. CASE current_' = NULL
  <2>1. {k \in UnionKeys : k < L} = {}
    BY <1>2, <1>3, <1>4 DEF UnionKeys
  <2> QED BY <1>4, <2>1 DEF UnionAt, Union!IsGreatest
<1>5. CASE current_' # NULL
  <2>1. pos'[current_'] \in UnionKeys /\ pos'[current_'] < L
    BY <1>2, <1>3, <1>5 DEF UnionKeys
  <2>2. \A k \in UnionKeys : k < L => k <= pos'[current_']
    BY <1>2, <1>5 DEF UnionKeys
  <2> QED BY <1>5, <2>1, <2>2 DEF UnionAt, Union!IsGreatest, key
<1> QED BY <1>4, <1>5

LEMMA KeysAre ==
  data \in Contents => UnionKeys \in SUBSET Nat /\ UnionKeys \in SUBSET Key
BY DataTyped DEF UnionKeys

(* Every call gives the cursor's answer.                                   *)
LEMMA StepAnswers ==
  ASSUME Inv, Step, status', Disjoint(data)
  PROVE  Union!IsAnswer(last', UnionAt')
<1>0. data \in Contents /\ UnionKeys \in SUBSET Nat /\ UnionKeys \in SUBSET Key
  BY KeysAre DEF Inv, ChildrenWait, TypeOK
<1>a. \A q \in Positions : \A i \in Child : q[i] # NULL => q[i] \in Key /\ q[i] \in Nat
  BY KeyAssumption DEF Positions
<1>1. CASE SeekToFirst
  <2>1. Moves("kForward", [fn |-> "SeekToFirst", key |-> NULL]) /\ Ahead(pos', -1)
    BY <1>1, SeekToFirstMoves
  <2>2. current_' # NULL => pos'[current_'] # -1
    BY <2>1, SmallestIs, <1>a DEF Moves
  <2>3. Union!IsLeast(UnionAt', {k \in UnionKeys : k > -1})
    BY <2>1, <2>2, FirstOfUnion
  <2>4. {k \in UnionKeys : k > -1} = UnionKeys
    <3>1. \A k \in UnionKeys : k > -1
      <4> SUFFICES ASSUME NEW k \in UnionKeys PROVE k > -1
        OBVIOUS
      <4>1. k \in Nat
        BY <1>0
      <4> QED BY <4>1
    <3> QED BY <3>1
  <2> QED BY <2>1, <2>3, <2>4 DEF Moves, Union!IsAnswer, UnionKeys
<1>2. CASE SeekToLast
  <2>1. Moves("kReverse", [fn |-> "SeekToLast", key |-> NULL])
    BY <1>2, SeekToLastMoves
  <2>2. PICK L \in Int : Behind(pos', L) /\ \A k \in Key : k < L
    BY <1>2, SeekToLastMoves
  <2>3. current_' # NULL => pos'[current_'] # L
    BY <1>a, <2>1, <2>2, LargestIs DEF Moves
  <2>4. Union!IsGreatest(UnionAt', {k \in UnionKeys : k < L})
    BY <2>1, <2>2, <2>3, LastOfUnion
  <2>5. {k \in UnionKeys : k < L} = UnionKeys
    BY <1>0, <2>2
  <2> QED BY <2>1, <2>4, <2>5 DEF Moves, Union!IsAnswer, UnionKeys
<1>3. ASSUME NEW target \in Key, Seek(target) PROVE Union!IsAnswer(last', UnionAt')
  <2>0. target \in Nat /\ target - 1 \in Int
    BY KeyAssumption
  <2>1. Moves("kForward", [fn |-> "Seek", key |-> target]) /\ Ahead(pos', target - 1)
    BY <1>3, SeekMoves
  <2>2. current_' # NULL => pos'[current_'] # target - 1
    <3> SUFFICES ASSUME current_' # NULL PROVE pos'[current_'] # target - 1
      OBVIOUS
    <3>1. current_' \in Child
      BY <2>1, SmallestIs DEF Moves
    <3>2. \/ pos'[current_'] = ChildSeek(current_', target)
          \/ pos'[current_'] = NULL
      BY <1>3, <3>1 DEF Seek, Settle
    <3>3. pos'[current_'] # NULL
      BY <2>1, <3>1, SmallestIs DEF Moves
    <3>4. pos'[current_'] = ChildNext(current_', target - 1)
      BY <1>0, <2>0, <3>1, <3>2, <3>3, ChildrenTyped
    <3>5. pos'[current_'] > target - 1
      BY <1>0, <2>0, <3>1, <3>3, <3>4, NextIs
    <3> QED BY <2>0, <3>5
  <2>3. Union!IsLeast(UnionAt', {k \in UnionKeys : k > target - 1})
    BY <2>0, <2>1, <2>2, FirstOfUnion
  <2>4. {k \in UnionKeys : k > target - 1} = {k \in UnionKeys : k >= target}
    <3>1. \A k \in UnionKeys : (k > target - 1) <=> (k >= target)
      <4> SUFFICES ASSUME NEW k \in UnionKeys PROVE (k > target - 1) <=> (k >= target)
        OBVIOUS
      <4>1. k \in Nat
        BY <1>0
      <4> QED BY <2>0, <4>1
    <3> QED BY <3>1
  <2> QED BY <2>1, <2>3, <2>4 DEF Moves, Union!IsAnswer, UnionKeys
<1>4. CASE Next
  <2>1. /\ current_ # NULL /\ Moves("kForward", [fn |-> "Next", key |-> NULL])
        /\ Ahead(pos', key) /\ pos'[current_] = ChildNext(current_, key)
    BY <1>4, NextMoves
  <2>2. current_ \in Child /\ key \in data[current_] /\ key \in Int /\ key # NULL
    BY <2>1, CurrentIs, DataTyped
  <2>3. current_' # NULL => pos'[current_'] # key
    <3> SUFFICES ASSUME current_' # NULL, pos'[current_'] = key PROVE FALSE
      OBVIOUS
    <3>1. current_' \in Child /\ key \in data[current_']
      BY <1>0, <2>1, <2>2, Forward DEF Moves
    <3>2. current_' = current_
      BY <2>2, <3>1 DEF Disjoint
    <3> QED BY <1>0, <2>1, <2>2, <3>2, NextIs
  <2>4. Union!IsLeast(UnionAt', {k \in UnionKeys : k > key})
    BY <2>1, <2>2, <2>3, FirstOfUnion
  <2>5. UnionAt = key
    BY <2>1 DEF UnionAt
  <2> QED BY <2>1, <2>2, <2>4, <2>5 DEF Moves, Union!IsAnswer, UnionKeys, UnionAt
<1>5. CASE Prev
  <2>1. /\ current_ # NULL /\ Moves("kReverse", [fn |-> "Prev", key |-> NULL])
        /\ Behind(pos', key) /\ pos'[current_] = ChildPrev(current_, key)
    BY <1>5, PrevMoves
  <2>2. current_ \in Child /\ key \in data[current_] /\ key \in Int /\ key # NULL
    BY <2>1, CurrentIs, DataTyped
  <2>3. current_' # NULL => pos'[current_'] # key
    <3> SUFFICES ASSUME current_' # NULL, pos'[current_'] = key PROVE FALSE
      OBVIOUS
    <3>1. current_' \in Child /\ key \in data[current_']
      BY <1>0, <2>1, <2>2, Backward DEF Moves
    <3>2. current_' = current_
      BY <2>2, <3>1 DEF Disjoint
    <3> QED BY <1>0, <2>1, <2>2, <3>2, PrevIs
  <2>4. Union!IsGreatest(UnionAt', {k \in UnionKeys : k < key})
    BY <2>1, <2>2, <2>3, LastOfUnion
  <2>5. UnionAt = key
    BY <2>1 DEF UnionAt
  <2> QED BY <2>1, <2>2, <2>4, <2>5 DEF Moves, Union!IsAnswer, UnionKeys, UnionAt
<1> QED BY <1>1, <1>2, <1>3, <1>4, <1>5 DEF Step

(* Every call is a step of the cursor.                                     *)
LEMMA StepRefines ==
  ASSUME Inv, Inv', Step
  PROVE  Union!Next
<1>1. data' = data /\ (status' => status)
  BY DEF Step, SeekToFirst, SeekToLast, Seek, Next, Prev, Settle, status
<1>2. UnionAt' \in UnionKeys \cup {NULL}
  BY <1>1 DEF Inv, ChildrenWait, TypeOK, OnSource, UnionAt, UnionKeys, key
<1>3. UnionOk' => UnionOk /\ Union!IsAnswer(last', UnionAt')
  BY <1>1, StepAnswers DEF UnionOk, Disjoint
<1> QED BY <1>1, <1>2, <1>3 DEF Union!Next, Union!Position, UnionKeys, UnionAt, UnionOk

(* While no child has failed and no key is in two of them, the merging     *)
(* iterator is a cursor in the sorted union of its children, for every     *)
(* number of children, every contents and every mix of calls               *)
(* (table/merger.h, lines 10-11).                                          *)
THEOREM Refinement == Spec => ImplementsCursor
<1>1. Init => Union!Init
  BY DEF Init, Union!Init, status, Disjoint
<1>2. Inv /\ Inv' /\ [Step]_vars => [Union!Next]_(Union!vars)
  <2>1. Inv /\ Inv' /\ Step => Union!Next
    BY StepRefines
  <2>2. UNCHANGED vars => UNCHANGED Union!vars
    BY DEF vars, Union!vars, status, Disjoint, key
  <2> QED BY <2>1, <2>2
<1> QED BY <1>1, <1>2, Invariance, PTL DEF Spec, ImplementsCursor, Union!Spec
=============================================================================
