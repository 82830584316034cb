--------------------------- MODULE LRUCacheProofs ---------------------------
(***************************************************************************)
(* References are exact and list and table agree, for every set of keys,   *)
(* of addresses and of charges, every hash function, length of the first   *)
(* table and capacity.                                                     *)
(*                                                                         *)
(* A chain, the circular list and the sum of the charges are each given by *)
(* what they are (IsChain, Linked, Total), and a lemma for each operation  *)
(* says what it makes of them; a step of the cache is a few of these.      *)
(***************************************************************************)
EXTENDS LRUCache, FiniteSetTheorems, SequenceTheorems, WellFoundedInduction, TLAPS

(* A set of numbers has a least one.                                       *)
LEMMA LeastOf ==
  ASSUME NEW S \in SUBSET Nat, S # {}
  PROVE  \E k \in S : \A j \in Nat : j < k => j \notin S
<1> DEFINE Lt == {ss \in Nat \X Nat : ss[1] < ss[2]}
<1>1. IsWellFoundedOn(Lt, Nat)
  BY NatLessThanWellFounded, Zenon DEF OpToRel
<1>2. \A j, k \in Nat : <<j, k>> \in Lt <=> j < k
  OBVIOUS
<1> HIDE DEF Lt
<1>3. PICK k \in S : \A j \in S : ~(<<j, k>> \in Lt)
  BY <1>1, WFMin
<1> QED BY <1>2, <1>3

-----------------------------------------------------------------------------
(* The recursive functions of HandleTable: the walk along a chain and the  *)
(* doubling of new_length.                                                 *)

LoopStep(p, c) ==
  IF p.kind = "chain"
    THEN LET h == IF c = <<>> THEN p.t.list[p.i] ELSE p.t.next_hash[Last(c)]
         IN  IF h = NULL THEN c ELSE Append(c, h)
    ELSE IF c < p.elems THEN 2 * c ELSE c

(* h has the first n + 1 values of a loop that starts with a.              *)
Upto(p, a, n, h) ==
  /\ h = [i \in 0 .. n |-> h[i]]
  /\ h[0] = a
  /\ \A i \in 1 .. n : h[i] = LoopStep(p, h[i - 1])

LEMMA UptoExists ==
  ASSUME NEW p, NEW a, NEW n \in Nat
  PROVE  \E h : Upto(p, a, n, h)
<1> DEFINE Bad == {m \in Nat : ~\E h : Upto(p, a, m, h)}
<1> SUFFICES ASSUME Bad # {} PROVE FALSE
  OBVIOUS
<1>1. PICK m \in Bad : \A j \in Nat : j < m => j \notin Bad
  BY LeastOf
<1>2. m # 0
  <2> DEFINE f == [i \in 0 .. 0 |-> a]
  <2>1. f = [i \in 0 .. 0 |-> f[i]] /\ f[0] = a /\ \A i \in 1 .. 0 : f[i] = LoopStep(p, f[i - 1])
    OBVIOUS
  <2> HIDE DEF f
  <2>2. Upto(p, a, 0, f)
    BY <2>1 DEF Upto
  <2> QED BY <2>2
<1>3. PICK h : Upto(p, a, m - 1, h)
  <2>1. m - 1 \in Nat /\ m - 1 < m
    BY <1>2
  <2> QED BY <1>1, <2>1
<1> DEFINE f == [i \in 0 .. m |-> IF i = m THEN LoopStep(p, h[m - 1]) ELSE h[i]]
<1>4. /\ f = [i \in 0 .. m |-> f[i]]
      /\ f[0] = h[0]
      /\ f[m] = LoopStep(p, h[m - 1])
      /\ \A i \in 0 .. m - 1 : f[i] = h[i]
  BY <1>2
<1> HIDE DEF f
<1>5. ASSUME NEW i \in 1 .. m PROVE f[i] = LoopStep(p, f[i - 1])
  <2>1. CASE i = m
    <3>1. m - 1 \in 0 .. m - 1
      BY <1>2
    <3> QED BY <1>4, <2>1, <3>1
  <2>2. CASE i # m
    <3>1. i \in 1 .. m - 1 /\ i \in 0 .. m - 1 /\ i - 1 \in 0 .. m - 1
      BY <2>2
    <3> QED BY <1>3, <1>4, <3>1 DEF Upto
  <2> QED BY <2>1, <2>2
<1>6. Upto(p, a, m, f)
  BY <1>3, <1>4, <1>5 DEF Upto
<1> QED BY <1>6

LEMMA UptoUnique ==
  ASSUME NEW p, NEW a, NEW n \in Nat, NEW m \in Nat, NEW h, NEW f,
         Upto(p, a, n, h), Upto(p, a, m, f), NEW i \in Nat, i <= n, i <= m
  PROVE  h[i] = f[i]
<1> DEFINE Bad == {j \in Nat : j <= n /\ j <= m /\ h[j] # f[j]}
<1> SUFFICES ASSUME Bad # {} PROVE FALSE
  OBVIOUS
<1>1. PICK j \in Bad : \A k \in Nat : k < j => k \notin Bad
  BY LeastOf
<1>2. j # 0
  BY DEF Upto
<1>3. j - 1 \in Nat /\ j - 1 < j /\ j - 1 <= n /\ j - 1 <= m /\ j \in 1 .. n /\ j \in 1 .. m
  BY <1>2
<1>4. h[j - 1] = f[j - 1]
  BY <1>1, <1>3
<1> QED BY <1>3, <1>4 DEF Upto

(* g has all the values of the loop.                                       *)
IsLoop(p, a, g) == g = [n \in Nat |-> IF n = 0 THEN a ELSE LoopStep(p, g[n - 1])]

LEMMA LoopExists ==
  ASSUME NEW p, NEW a
  PROVE  \E g : IsLoop(p, a, g)
<1> DEFINE H(n) == CHOOSE h : Upto(p, a, n, h)
           g == [n \in Nat |-> H(n)[n]]
<1>1. \A n \in Nat : Upto(p, a, n, H(n))
  BY UptoExists
<1>2. \A n \in Nat : g[n] = H(n)[n]
  OBVIOUS
<1>3. g = [n \in Nat |-> g[n]]
  OBVIOUS
<1> HIDE DEF H, g
<1>4. ASSUME NEW n \in Nat PROVE g[n] = IF n = 0 THEN a ELSE LoopStep(p, g[n - 1])
  <2>1. CASE n = 0
    BY <1>1, <1>2, <2>1 DEF Upto
  <2>2. CASE n # 0
    <3>1. n - 1 \in Nat /\ n - 1 <= n - 1 /\ n - 1 <= n /\ n \in 1 .. n
      BY <2>2
    <3>2. H(n)[n - 1] = H(n - 1)[n - 1]
      BY <1>1, <3>1, UptoUnique
    <3>3. H(n)[n] = LoopStep(p, H(n)[n - 1])
      BY <1>1, <3>1 DEF Upto
    <3> QED BY <1>2, <2>2, <3>1, <3>2, <3>3
  <2> QED BY <2>1, <2>2
<1>5. IsLoop(p, a, g)
  BY <1>3, <1>4 DEF IsLoop
<1> QED BY <1>5

-----------------------------------------------------------------------------
(* Chains.                                                                 *)

(* s is what a walk along bucket i meets.                                  *)
IsChain(t, i, s) ==
  /\ s \in Seq(Handle)
  /\ \A a, b \in 1 .. Len(s) : s[a] = s[b] => a = b
  /\ t.list[i] = IF Len(s) = 0 THEN NULL ELSE s[1]
  /\ \A j \in 1 .. Len(s) : t.next_hash[s[j]] = IF j = Len(s) THEN NULL ELSE s[j + 1]

LEMMA LengthBound ==
  ASSUME NEW s \in Seq(Handle), \A a, b \in 1 .. Len(s) : s[a] = s[b] => a = b
  PROVE  Len(s) <= Cardinality(Handle) /\ Cardinality(Handle) \in Nat
<1>1. IsFiniteSet(Handle)
  BY HashAssumption
<1>2. PICK n \in Nat : n = Len(s)
  OBVIOUS
<1>3. s \in [1 .. n -> Handle]
  BY <1>2
<1>4. IsInjective(s)
  BY <1>2, <1>3 DEF IsInjective
<1>5. s \in Injection(1 .. n, Handle)
  BY <1>3, <1>4 DEF Injection
<1>6. IsFiniteSet(1 .. n) /\ Cardinality(1 .. n) = n
  <2>1. IsFiniteSet(1 .. n) /\ Cardinality(1 .. n) = IF 1 > n THEN 0 ELSE n - 1 + 1
    BY FS_Interval
  <2> QED BY <1>2, <2>1
<1>7. Cardinality(1 .. n) <= Cardinality(Handle)
  BY <1>1, <1>5, FS_Injection
<1> QED BY <1>1, <1>2, <1>6, <1>7, FS_CardinalityType

LEMMA ChainIs ==
  ASSUME NEW t, NEW i, NEW s, IsChain(t, i, s)
  PROVE  Chain(t, i) = s
<1> DEFINE Is(g) ==
      g = [n \in Nat |->
             IF n = 0 THEN <<>>
             ELSE LET c == g[n - 1]
                      h == IF c = <<>> THEN t.list[i] ELSE t.next_hash[Last(c)]
                  IN  IF h = NULL THEN c ELSE Append(c, h)]
           first == CHOOSE g : Is(g)
<1>1. Chain(t, i) = first[Cardinality(Handle)]
  BY DEF Chain
<1>2. PICK p : p.kind = "chain" /\ p.t = t /\ p.i = i
  <2> DEFINE q == [kind |-> "chain", t |-> t, i |-> i]
  <2> QED BY q.kind = "chain" /\ q.t = t /\ q.i = i
<1>3. ASSUME NEW g PROVE Is(g) <=> IsLoop(p, <<>>, g)
  BY <1>2 DEF IsLoop, LoopStep
<1>4. PICK g : IsLoop(p, <<>>, g)
  BY LoopExists
<1> HIDE DEF Is
<1>5. Is(first)
  BY <1>3, <1>4
<1> HIDE DEF first
<1>6. IsLoop(p, <<>>, first)
  BY <1>3, <1>5
<1>7. PICK l \in Nat : l = Len(s)
  BY DEF IsChain
<1>8. s \in [1 .. l -> Handle] /\ s \in Seq(Handle) /\ NULL \notin Handle
  BY <1>7, HashAssumption DEF IsChain
<1> DEFINE T(n) == [j \in 1 .. (IF n < l THEN n ELSE l) |-> s[j]]
           Bad == {n \in Nat : first[n] # T(n)}
<1>9. Bad = {}
  <2> SUFFICES ASSUME Bad # {} PROVE FALSE
    OBVIOUS
  <2>1. PICK n \in Bad : \A j \in Nat : j < n => j \notin Bad
    BY LeastOf
  <2>2. n \in Nat
    OBVIOUS
  <2>3. CASE n = 0
    <3>1. first[n] = <<>>
      BY <1>6, <2>3 DEF IsLoop
    <3>2. T(n) = <<>>
      BY <1>7, <2>3
    <3> QED BY <3>1, <3>2
  <2>4. CASE n # 0
    <3>1. n - 1 \in Nat /\ n - 1 < n
      BY <2>2, <2>4
    <3>2. first[n - 1] = T(n - 1)
      BY <2>1, <3>1
    <3>3. first[n] = LoopStep(p, first[n - 1])
      BY <1>6, <2>2, <2>4 DEF IsLoop
    <3>4. PICK c : c = T(n - 1)
      OBVIOUS
    <3>5. CASE n - 1 < l
      <4>1. c = [j \in 1 .. n - 1 |-> s[j]] /\ n \in 1 .. l
        BY <1>7, <2>2, <2>4, <3>4, <3>5
      <4>2. c \in Seq(Handle) /\ Len(c) = n - 1
        BY <1>8, <2>2, <3>1, <3>5, <4>1
      <4>3. (IF c = <<>> THEN t.list[i] ELSE t.next_hash[Last(c)]) = s[n]
        <5>1. CASE n = 1
          <6>1. c = <<>>
            BY <4>2, <5>1
          <6> QED BY <1>7, <4>1, <5>1, <6>1 DEF IsChain
        <5>2. CASE n # 1
          <6>1. c # <<>> /\ Last(c) = s[n - 1] /\ n - 1 \in 1 .. l /\ n - 1 # l
            BY <2>2, <2>4, <3>1, <3>5, <4>1, <4>2, <5>2 DEF Last
          <6> QED BY <1>7, <2>2, <6>1 DEF IsChain
        <5> QED BY <5>1, <5>2
      <4>4. s[n] # NULL
        BY <1>8, <4>1
      <4>5. LoopStep(p, c) = Append(c, s[n])
        BY <1>2, <4>3, <4>4 DEF LoopStep
      <4>6. Append(c, s[n]) = T(n)
        BY <1>7, <1>8, <2>2, <3>5, <4>1, <4>2
      <4> QED BY <3>2, <3>3, <3>4, <4>5, <4>6
    <3>6. CASE ~(n - 1 < l)
      <4>1. c = s /\ T(n) = s
        BY <1>7, <1>8, <2>2, <3>1, <3>4, <3>6
      <4>2. (IF s = <<>> THEN t.list[i] ELSE t.next_hash[Last(s)]) = NULL
        <5>1. CASE l = 0
          BY <1>7, <1>8, <5>1 DEF IsChain
        <5>2. CASE l # 0
          <6>1. s # <<>> /\ Last(s) = s[l] /\ l \in 1 .. l
            BY <1>7, <1>8, <5>2 DEF Last
          <6> QED BY <1>7, <6>1 DEF IsChain
        <5> QED BY <5>1, <5>2
      <4>3. LoopStep(p, c) = c
        BY <1>2, <4>1, <4>2 DEF LoopStep
      <4> QED BY <3>2, <3>3, <3>4, <4>1, <4>3
    <3> QED BY <3>5, <3>6
  <2> QED BY <2>3, <2>4
<1>10. PICK n \in Nat : n = Cardinality(Handle) /\ l <= n
  BY <1>7, LengthBound DEF IsChain
<1>11. first[n] = T(n)
  BY <1>9
<1>12. T(n) = s
  BY <1>7, <1>8, <1>10
<1> QED BY <1>1, <1>10, <1>11, <1>12

(* The chains of t hold the handles of D, each in the bucket of its hash.  *)
Buckets(t) == 0 .. Length(t) - 1

TableType(t) ==
  /\ t = [list |-> t.list, next_hash |-> t.next_hash, elems |-> t.elems]
  /\ Length(t) \in Nat \ {0}
  /\ t.list \in [Buckets(t) -> Handle \cup {NULL}]
  /\ t.next_hash \in [Handle -> Handle \cup {NULL}]

Bucket(t, k) == hash[k] % Length(t)

Chains(t, ky, D) ==
  /\ TableType(t)
  /\ D \subseteq Handle
  /\ \A e \in D : ky[e] \in Key /\ e \in Range(Chain(t, Bucket(t, ky[e])))
  /\ \A i \in Buckets(t) :
       /\ IsChain(t, i, Chain(t, i))
       /\ \A j \in 1 .. Len(Chain(t, i)) : Chain(t, i)[j] \in D /\ Bucket(t, ky[Chain(t, i)[j]]) = i

LEMMA BucketIs ==
  ASSUME NEW t, TableType(t), NEW k \in Key
  PROVE  Bucket(t, k) \in Buckets(t)
<1>1. PICK h \in Nat : h = hash[k]
  BY HashAssumption
<1>2. PICK l \in Nat \ {0} : l = Length(t)
  BY DEF TableType
<1>3. h % l \in 0 .. l - 1
  OBVIOUS
<1> QED BY <1>1, <1>2, <1>3 DEF Bucket, Buckets

LEMMA RangeIs ==
  ASSUME NEW s \in Seq(Handle)
  PROVE  \A e : e \in Range(s) <=> \E j \in 1 .. Len(s) : s[j] = e
BY DEF Range

(* The chain in which n entries, or all, are passed without finding k.     *)
Slot(i, c, n) == IF n = 1 THEN i ELSE c[n - 1]

LEMMA FindIs ==
  ASSUME NEW t, NEW ky, NEW D, Chains(t, ky, D), NEW k \in Key,
         NEW i, i = Bucket(t, k), NEW c, c = Chain(t, i)
  PROVE  \E n \in 1 .. Len(c) + 1 :
           /\ FindPointer(t, ky, k) = Slot(i, c, n)
           /\ Deref(t, FindPointer(t, ky, k)) = IF n = Len(c) + 1 THEN NULL ELSE c[n]
           /\ n = Len(c) + 1 => \A e \in D : ky[e] # k
           /\ n # Len(c) + 1 => c[n] \in D /\ ky[c[n]] = k
<1>1. i \in Buckets(t) /\ IsChain(t, i, c) /\ TableType(t)
  BY BucketIs DEF Chains
<1>2. PICK l \in Nat : l = Len(c)
  BY <1>1 DEF IsChain
<1> DEFINE S == {j \in 1 .. l : ky[c[j]] = k} \cup {l + 1}
<1>3. S \in SUBSET Nat /\ S # {}
  OBVIOUS
<1>4. PICK n \in S : \A j \in Nat : j < n => j \notin S
  BY <1>3, LeastOf
<1>5. n \in Nat /\ \A j \in S : n <= j
  BY <1>3, <1>4
<1>6. Min(S) = n
  <2>1. Min(S) \in S /\ \A j \in S : Min(S) <= j
    BY <1>4, <1>5 DEF Min
  <2> QED BY <1>3, <1>4, <1>5, <2>1
<1>7. n \in 1 .. l + 1 /\ (n # l + 1 => ky[c[n]] = k)
  BY <1>4
<1>8. FindPointer(t, ky, k) = Slot(i, c, n)
  BY <1>2, <1>6 DEF FindPointer, Slot, Bucket
<1>9. c \in [1 .. l -> Handle]
  BY <1>1, <1>2 DEF IsChain
<1>10. Deref(t, Slot(i, c, n)) = IF n = l + 1 THEN NULL ELSE c[n]
  <2>1. CASE n = 1
    <3>1. i \notin Handle
      BY <1>1, HashAssumption DEF Buckets, TableType
    <3>2. t.list[i] = IF l = 0 THEN NULL ELSE c[1]
      BY <1>1, <1>2 DEF IsChain
    <3> QED BY <2>1, <3>1, <3>2, <1>2 DEF Deref, Slot
  <2>2. CASE n # 1
    <3>1. n - 1 \in 1 .. l /\ (n - 1) + 1 = n
      BY <1>7, <2>2
    <3>2. c[n - 1] \in Handle
      BY <1>9, <3>1
    <3>3. t.next_hash[c[n - 1]] = IF n - 1 = l THEN NULL ELSE c[n]
      BY <1>1, <1>2, <3>1 DEF IsChain
    <3>4. n - 1 = l <=> n = l + 1
      BY <1>2, <1>5
    <3> QED BY <2>2, <3>2, <3>3, <3>4 DEF Deref, Slot
  <2> QED BY <2>1, <2>2
<1>11. n # l + 1 => c[n] \in D
  BY <1>1, <1>2, <1>7 DEF Chains
<1>12. ASSUME n = l + 1, NEW e \in D, ky[e] = k PROVE FALSE
  <2>1. e \in Range(c) /\ c \in Seq(Handle)
    BY <1>1, <1>12 DEF Chains, IsChain
  <2>2. PICK j \in 1 .. l : c[j] = e
    BY <1>2, <2>1, RangeIs
  <2>3. j \in S
    BY <1>12, <2>2
  <2>4. j \in Nat /\ j < n
    BY <1>2, <1>12
  <2> QED BY <1>4, <2>3, <2>4
<1> QED BY <1>2, <1>7, <1>8, <1>10, <1>11, <1>12

LEMMA LengthIs ==
  ASSUME NEW n \in Nat
  PROVE  Cardinality(0 .. n - 1) = n
<1>1. Cardinality(0 .. n - 1) = IF 0 > n - 1 THEN 0 ELSE n - 1 - 0 + 1
  BY FS_Interval
<1> QED BY <1>1

(* u is t after *ptr = y.                                                  *)
Stored(t, ptr, y, u) ==
  /\ TableType(u) /\ Length(u) = Length(t) /\ u.elems = t.elems
  /\ \A b \in Buckets(t) : u.list[b] = IF b = ptr THEN y ELSE t.list[b]
  /\ \A e \in Handle : u.next_hash[e] = IF e = ptr THEN y ELSE t.next_hash[e]

LEMMA StoreIs ==
  ASSUME NEW t, TableType(t), NEW ptr \in Handle \cup Buckets(t), NEW y \in Handle \cup {NULL},
         NEW u, u = Store(t, ptr, y)
  PROVE  Stored(t, ptr, y, u)
<1>1. \A b \in Buckets(t) : b \notin Handle
  BY HashAssumption DEF Buckets, TableType
<1>2. PICK l \in Nat \ {0} : l = Length(t)
  BY DEF TableType
<1>3. PICK B : B = Buckets(t)
  OBVIOUS
<1>0. PICK elems : elems = t.elems
  OBVIOUS
<1>4. PICK list \in [B -> Handle \cup {NULL}], nh \in [Handle -> Handle \cup {NULL}] :
        t = [list |-> list, next_hash |-> nh, elems |-> elems]
  BY <1>0, <1>3 DEF TableType
<1>5. t.list = list /\ t.next_hash = nh /\ t.elems = elems
  BY <1>4
<1>6. CASE ptr \in Handle
  <2>1. PICK g \in [Handle -> Handle \cup {NULL}] : g = [nh EXCEPT ![ptr] = y]
    BY <1>6
  <2>2. u = [list |-> list, next_hash |-> g, elems |-> elems]
    BY <1>4, <1>6, <2>1 DEF Store
  <2>3. u.list = list /\ u.next_hash = g /\ u.elems = elems
    BY <2>2
  <2>4. Length(u) = Length(t)
    BY <1>5, <2>3 DEF Length
  <2>5. TableType(u)
    BY <1>2, <1>3, <2>2, <2>3, <2>4 DEF TableType, Buckets
  <2>6. \A e \in Handle : g[e] = IF e = ptr THEN y ELSE nh[e]
    BY <2>1
  <2>7. \A b \in Buckets(t) : b # ptr
    BY <1>1, <1>6
  <2> QED BY <1>5, <2>3, <2>4, <2>5, <2>6, <2>7 DEF Stored
<1>7. CASE ptr \notin Handle
  <2>1. PICK g \in [B -> Handle \cup {NULL}] : g = [list EXCEPT ![ptr] = y]
    BY <1>3, <1>7
  <2>2. u = [list |-> g, next_hash |-> nh, elems |-> elems]
    BY <1>4, <1>7, <2>1 DEF Store
  <2>3. u.list = g /\ u.next_hash = nh /\ u.elems = elems
    BY <2>2
  <2>4. Length(u) = Length(t)
    BY <1>5, <2>3 DEF Length
  <2>5. TableType(u)
    BY <1>2, <1>3, <2>2, <2>3, <2>4 DEF TableType, Buckets
  <2>6. \A b \in Buckets(t) : g[b] = IF b = ptr THEN y ELSE list[b]
    BY <1>3, <2>1
  <2>7. \A e \in Handle : e # ptr
    BY <1>7
  <2> QED BY <1>5, <2>3, <2>4, <2>5, <2>6, <2>7 DEF Stored
<1> QED BY <1>6, <1>7

(* A change to bucket i and to next_hash of handles in no other bucket.    *)
LEMMA OneChain ==
  ASSUME NEW t, NEW ky, NEW D, Chains(t, ky, D), NEW D2 \in SUBSET Handle,
         NEW u, TableType(u), Length(u) = Length(t),
         NEW i \in Buckets(t), NEW c, IsChain(u, i, c),
         \A b \in Buckets(t) : b # i => u.list[b] = t.list[b],
         \A e \in D : Bucket(t, ky[e]) # i => e \in D2 /\ u.next_hash[e] = t.next_hash[e],
         \A e \in D2 : /\ ky[e] \in Key
                       /\ IF Bucket(t, ky[e]) = i THEN e \in Range(c) ELSE e \in D,
         \A j \in 1 .. Len(c) : c[j] \in D2 /\ Bucket(t, ky[c[j]]) = i
  PROVE  Chains(u, ky, D2) /\ Chain(u, i) = c
<1>1. Chain(u, i) = c
  BY ChainIs
<1>2. \A k : Bucket(u, k) = Bucket(t, k)
  BY DEF Bucket
<1>3. Buckets(u) = Buckets(t)
  BY DEF Buckets
<1>4. ASSUME NEW b \in Buckets(t), b # i
      PROVE  IsChain(u, b, Chain(t, b)) /\ Chain(u, b) = Chain(t, b)
  <2>1. PICK s : s = Chain(t, b)
    OBVIOUS
  <2>2. IsChain(t, b, s) /\ \A j \in 1 .. Len(s) : s[j] \in D /\ Bucket(t, ky[s[j]]) = b
    BY <2>1 DEF Chains
  <2>3. u.list[b] = t.list[b] /\ \A j \in 1 .. Len(s) : u.next_hash[s[j]] = t.next_hash[s[j]]
    BY <1>4, <2>2
  <2>4. IsChain(u, b, s)
    BY <2>2, <2>3 DEF IsChain
  <2> QED BY <2>1, <2>4, ChainIs
<1>5. ASSUME NEW e \in D2 PROVE ky[e] \in Key /\ e \in Range(Chain(u, Bucket(u, ky[e])))
  <2>1. CASE Bucket(t, ky[e]) = i
    BY <1>1, <1>2, <2>1
  <2>2. CASE Bucket(t, ky[e]) # i
    <3>1. e \in D /\ ky[e] \in Key /\ TableType(t)
      BY <2>2 DEF Chains
    <3>2. Bucket(t, ky[e]) \in Buckets(t)
      BY <3>1, BucketIs
    <3>3. e \in Range(Chain(t, Bucket(t, ky[e])))
      BY <3>1 DEF Chains
    <3> QED BY <1>2, <1>4, <2>2, <3>1, <3>2, <3>3
  <2> QED BY <2>1, <2>2
<1>6. ASSUME NEW b \in Buckets(u)
      PROVE  /\ IsChain(u, b, Chain(u, b))
             /\ \A j \in 1 .. Len(Chain(u, b)) :
                  Chain(u, b)[j] \in D2 /\ Bucket(u, ky[Chain(u, b)[j]]) = b
  <2>1. CASE b = i
    BY <1>1, <1>2, <2>1
  <2>2. CASE b # i
    <3>1. PICK s : s = Chain(t, b)
      OBVIOUS
    <3>2. Chain(u, b) = s /\ IsChain(u, b, s)
      BY <1>3, <1>4, <2>2, <3>1
    <3>3. \A j \in 1 .. Len(s) : s[j] \in D /\ Bucket(t, ky[s[j]]) = b
      BY <1>3, <3>1 DEF Chains
    <3>4. \A j \in 1 .. Len(s) : s[j] \in D2 /\ Bucket(u, ky[s[j]]) = b
      BY <1>2, <2>2, <3>3
    <3> QED BY <3>2, <3>4
  <2> QED BY <2>1, <2>2
<1>7. Chains(u, ky, D2)
  BY <1>5, <1>6 DEF Chains
<1> QED BY <1>1, <1>7

(* elems_ and the keys of other handles do not matter to the chains.       *)
LEMMA SameChains ==
  ASSUME NEW t, NEW ky, NEW D, Chains(t, ky, D),
         NEW u, u = [list |-> u.list, next_hash |-> u.next_hash, elems |-> u.elems],
         u.list = t.list, u.next_hash = t.next_hash,
         NEW kz, \A e \in D : kz[e] = ky[e]
  PROVE  Chains(u, kz, D)
<1>1. Length(u) = Length(t)
  BY DEF Length
<1>2. Buckets(u) = Buckets(t) /\ \A k : Bucket(u, k) = Bucket(t, k)
  BY <1>1 DEF Buckets, Bucket
<1>3. TableType(u) /\ D \subseteq Handle
  BY <1>1, <1>2 DEF Chains, TableType
<1>4. ASSUME NEW b \in Buckets(t) PROVE IsChain(u, b, Chain(t, b)) /\ Chain(u, b) = Chain(t, b)
  <2>1. IsChain(t, b, Chain(t, b))
    BY DEF Chains
  <2>2. IsChain(u, b, Chain(t, b))
    BY <2>1 DEF IsChain
  <2> QED BY <2>2, ChainIs
<1>5. ASSUME NEW e \in D PROVE kz[e] \in Key /\ e \in Range(Chain(u, Bucket(u, kz[e])))
  <2>1. ky[e] \in Key /\ e \in Range(Chain(t, Bucket(t, ky[e]))) /\ TableType(t)
    BY DEF Chains
  <2>2. Bucket(t, ky[e]) \in Buckets(t)
    BY <2>1, BucketIs
  <2> QED BY <1>2, <1>4, <2>1, <2>2
<1>6. ASSUME NEW b \in Buckets(u)
      PROVE  /\ IsChain(u, b, Chain(u, b))
             /\ \A j \in 1 .. Len(Chain(u, b)) :
                  Chain(u, b)[j] \in D /\ Bucket(u, kz[Chain(u, b)[j]]) = b
  <2>1. PICK s : s = Chain(t, b)
    OBVIOUS
  <2>2. Chain(u, b) = s /\ IsChain(u, b, s)
    BY <1>2, <1>4, <2>1
  <2>3. \A j \in 1 .. Len(s) : s[j] \in D /\ Bucket(t, ky[s[j]]) = b
    BY <1>2, <2>1 DEF Chains
  <2> QED BY <1>2, <2>2, <2>3
<1> QED BY <1>3, <1>5, <1>6 DEF Chains

-----------------------------------------------------------------------------
(* Insert() and Remove() of HandleTable, without Resize().                 *)

KeysDiffer(ky, D) == \A a, b \in D : ky[a] = ky[b] => a = b

(* h takes the place of the entry with its key, or the end of the chain.   *)
LEMMA LinkIs ==
  ASSUME NEW t, NEW ky, NEW D, Chains(t, ky, D), KeysDiffer(ky, D),
         NEW h \in Handle, h \notin D, ky[h] \in Key,
         NEW ptr, ptr = FindPointer(t, ky, ky[h]), NEW old, old = Deref(t, ptr),
         NEW x, x = (IF old = NULL THEN NULL ELSE t.next_hash[old]),
         NEW u, u = Store(Store(t, h, x), ptr, h)
  PROVE  /\ Chains(u, ky, (D \ {old}) \cup {h})
         /\ u.elems = t.elems /\ Length(u) = Length(t)
<1>1. PICK i : i = Bucket(t, ky[h])
  OBVIOUS
<1>2. PICK c : c = Chain(t, i)
  OBVIOUS
<1>3. PICK n \in 1 .. Len(c) + 1 :
        /\ ptr = Slot(i, c, n)
        /\ old = IF n = Len(c) + 1 THEN NULL ELSE c[n]
        /\ n = Len(c) + 1 => \A e \in D : ky[e] # ky[h]
        /\ n # Len(c) + 1 => c[n] \in D /\ ky[c[n]] = ky[h]
  BY <1>1, <1>2, FindIs
<1>4. TableType(t) /\ D \subseteq Handle
  BY DEF Chains
<1>5. i \in Buckets(t) /\ i \notin Handle
  BY <1>1, <1>4, BucketIs, HashAssumption DEF Buckets, TableType
<1>6. IsChain(t, i, c) /\ \A j \in 1 .. Len(c) : c[j] \in D /\ Bucket(t, ky[c[j]]) = i
  BY <1>2, <1>5 DEF Chains
<1>7. PICK l \in Nat : l = Len(c)
  BY <1>6 DEF IsChain
<1>8. c \in [1 .. l -> Handle] /\ NULL \notin Handle
  BY <1>6, <1>7, HashAssumption DEF IsChain
<1>9. x = IF n < l THEN c[n + 1] ELSE NULL
  <2>1. CASE n = l + 1
    BY <1>3, <1>7, <2>1
  <2>2. CASE n # l + 1
    <3>1. n \in 1 .. l /\ old = c[n]
      BY <1>3, <1>7, <2>2
    <3>2. old # NULL
      BY <1>8, <3>1
    <3>3. t.next_hash[c[n]] = IF n = l THEN NULL ELSE c[n + 1]
      BY <1>6, <1>7, <3>1 DEF IsChain
    <3> QED BY <3>1, <3>2, <3>3
  <2> QED BY <2>1, <2>2
<1>10. x \in Handle \cup {NULL}
  BY <1>3, <1>7, <1>8, <1>9
<1>11. PICK v : v = Store(t, h, x)
  OBVIOUS
<1>12. /\ TableType(v) /\ Length(v) = Length(t) /\ v.elems = t.elems
       /\ \A b \in Buckets(t) : v.list[b] = IF b = h THEN x ELSE t.list[b]
       /\ \A e \in Handle : v.next_hash[e] = IF e = h THEN x ELSE t.next_hash[e]
  <2>1. h \in Handle \cup Buckets(t)
    OBVIOUS
  <2>2. Stored(t, h, x, v)
    BY <1>4, <1>10, <1>11, <2>1, StoreIs
  <2> QED BY <2>2 DEF Stored
<1>13. Buckets(v) = Buckets(t)
  BY <1>12 DEF Buckets
<1>14. ptr \in Handle \cup Buckets(v) /\ (n # 1 => n - 1 \in 1 .. l /\ ptr = c[n - 1])
       /\ (n = 1 => ptr = i)
  BY <1>3, <1>5, <1>7, <1>8, <1>13 DEF Slot
<1>15. /\ TableType(u) /\ Length(u) = Length(v) /\ u.elems = v.elems
       /\ \A b \in Buckets(v) : u.list[b] = IF b = ptr THEN h ELSE v.list[b]
       /\ \A e \in Handle : u.next_hash[e] = IF e = ptr THEN h ELSE v.next_hash[e]
  <2>1. h \in Handle \cup {NULL} /\ u = Store(v, ptr, h)
    BY <1>11
  <2>2. Stored(v, ptr, h, u)
    BY <1>12, <1>14, <2>1, StoreIs
  <2> QED BY <2>2 DEF Stored
<1>16. ptr # h
  BY <1>5, <1>6, <1>7, <1>14
<1>17. /\ \A b \in Buckets(t) : u.list[b] = IF b = ptr THEN h ELSE t.list[b]
       /\ u.next_hash[h] = x
       /\ \A e \in Handle \ {h} : u.next_hash[e] = IF e = ptr THEN h ELSE t.next_hash[e]
  <2>1. \A b \in Buckets(t) : b # h
    BY <1>4, HashAssumption DEF Buckets, TableType
  <2> QED BY <1>12, <1>13, <1>15, <1>16, <2>1, SMTT(20)
<1>18. PICK m \in Nat : m = IF n = l + 1 THEN n ELSE l
  BY <1>7, <1>3
<1>19. PICK d \in [1 .. m -> Handle] : d = [j \in 1 .. m |-> IF j = n THEN h ELSE c[j]]
  <2>1. \A j \in 1 .. m : j # n => j \in 1 .. l
    BY <1>3, <1>7, <1>18
  <2>2. \A j \in 1 .. m : j # n => c[j] \in Handle
    BY <1>8, <2>1
  <2>3. \A j \in 1 .. m : (IF j = n THEN h ELSE c[j]) \in Handle
    BY <2>2
  <2> QED BY <2>3
<1>20. d \in Seq(Handle) /\ Len(d) = m /\ n \in 1 .. m
  BY <1>3, <1>7, <1>18, <1>19
<1>21. \A j \in 1 .. m : IF j = n THEN d[j] = h ELSE j \in 1 .. l /\ d[j] = c[j] /\ d[j] # h
  BY <1>3, <1>6, <1>7, <1>18, <1>19
<1>22. \A a, b \in 1 .. l : c[a] = c[b] => a = b
  BY <1>6, <1>7 DEF IsChain
<1>23. \A a, b \in 1 .. m : d[a] = d[b] => a = b
  BY <1>21, <1>22
<1>24. u.list[i] = d[1]
  <2>1. CASE n = 1
    BY <1>5, <1>14, <1>17, <1>20, <1>21, <2>1
  <2>2. CASE n # 1
    <3>1. ptr # i /\ l # 0 /\ 1 \in 1 .. m
      BY <1>5, <1>7, <1>8, <1>14, <1>20, <2>2
    <3>2. u.list[i] = t.list[i] /\ t.list[i] = c[1]
      BY <1>5, <1>6, <1>7, <1>17, <3>1 DEF IsChain
    <3> QED BY <1>21, <2>2, <3>1, <3>2
  <2> QED BY <2>1, <2>2
<1>25. ASSUME NEW j \in 1 .. m PROVE u.next_hash[d[j]] = IF j = m THEN NULL ELSE d[j + 1]
  <2>1. CASE j = n
    <3>1. u.next_hash[d[j]] = x
      BY <1>17, <1>21, <2>1
    <3>2. n < l <=> j # m
      BY <1>3, <1>7, <1>18, <2>1
    <3>3. n < l => j + 1 \in 1 .. m /\ j + 1 # n
      BY <1>3, <1>7, <1>18, <2>1
    <3> QED BY <1>9, <1>21, <2>1, <3>1, <3>2, <3>3
  <2>2. CASE j = n - 1
    <3>1. j + 1 = n /\ n # 1 /\ j # n /\ j # m
      BY <1>3, <1>18, <1>20, <2>2
    <3>2. d[j] = ptr /\ d[j] \in Handle \ {h}
      BY <1>14, <1>19, <1>21, <2>2, <3>1
    <3> QED BY <1>17, <1>20, <1>21, <3>1, <3>2
  <2>3. CASE j # n /\ j # n - 1
    <3>1. j \in 1 .. l /\ d[j] = c[j] /\ d[j] \in Handle \ {h}
      BY <1>19, <1>21, <2>3
    <3>2. d[j] # ptr
      BY <1>5, <1>8, <1>14, <1>22, <2>3, <3>1
    <3>3. t.next_hash[c[j]] = IF j = l THEN NULL ELSE c[j + 1]
      BY <1>6, <1>7, <3>1 DEF IsChain
    <3>4. (j = m <=> j = l) /\ (j # l => j + 1 \in 1 .. m /\ j + 1 # n)
      BY <1>3, <1>7, <1>18, <2>3, <3>1
    <3> QED BY <1>17, <1>21, <3>1, <3>2, <3>3, <3>4
  <2> QED BY <2>1, <2>2, <2>3
<1>26. IsChain(u, i, d)
  BY ONLY <1>20, <1>23, <1>24, <1>25 DEF IsChain
<1>27. PICK D2 \in SUBSET Handle : D2 = (D \ {old}) \cup {h}
  BY <1>4
<1>28. \A b \in Buckets(t) : b # i => u.list[b] = t.list[b]
  BY <1>4, <1>8, <1>14, <1>17, HashAssumption DEF Buckets, TableType
<1>29. ASSUME NEW e \in D, Bucket(t, ky[e]) # i PROVE e \in D2 /\ u.next_hash[e] = t.next_hash[e]
  <2>1. e \in Handle /\ e # h
    BY <1>4
  <2>2. e # ptr
    BY <1>5, <1>6, <1>7, <1>14, <1>29, <2>1
  <2>3. e # old
    BY <1>1, <1>3, <1>4, <1>8, <1>29
  <2> QED BY <1>17, <1>27, <2>1, <2>2, <2>3
<1>30. ASSUME NEW e \in D2
       PROVE  ky[e] \in Key /\ IF Bucket(t, ky[e]) = i THEN e \in Range(d) ELSE e \in D
  <2>1. CASE e = h
    <3>1. e \in Range(d)
      BY <1>20, <1>21, <2>1, RangeIs
    <3> QED BY <1>1, <2>1, <3>1
  <2>2. CASE e # h
    <3>1. e \in D /\ e # old /\ ky[e] \in Key
      BY <1>27, <2>2 DEF Chains
    <3>2. ASSUME Bucket(t, ky[e]) = i PROVE e \in Range(d)
      <4>1. e \in Range(c) /\ c \in Seq(Handle)
        BY <1>2, <1>6, <3>1, <3>2 DEF Chains, IsChain
      <4>2. PICK j \in 1 .. l : c[j] = e
        BY <1>7, <4>1, RangeIs
      <4>3. j # n
        BY <1>3, <1>7, <3>1, <4>2
      <4>4. j \in 1 .. m /\ d[j] = e
        BY <1>7, <1>18, <1>19, <4>2, <4>3
      <4> QED BY <1>20, <4>4, RangeIs
    <3> QED BY <3>1, <3>2
  <2> QED BY <2>1, <2>2
<1>31. ASSUME NEW j \in 1 .. m PROVE d[j] \in D2 /\ Bucket(t, ky[d[j]]) = i
  <2>1. CASE j = n
    BY <1>1, <1>21, <1>27, <2>1
  <2>2. CASE j # n
    <3>1. j \in 1 .. l /\ d[j] = c[j]
      BY <1>21, <2>2
    <3>2. c[j] # old
      BY <1>3, <1>7, <1>8, <1>22, <2>2, <3>1
    <3> QED BY <1>6, <1>7, <1>27, <3>1, <3>2
  <2> QED BY <2>1, <2>2
<1>32. Length(u) = Length(t) /\ u.elems = t.elems
  BY <1>12, <1>15
<1>33. Chains(u, ky, D2)
  <2>1. Chains(t, ky, D) /\ TableType(u) /\ i \in Buckets(t) /\ Len(d) = m
    BY <1>5, <1>15, <1>20
  <2> QED BY ONLY <2>1, <1>26, <1>27, <1>28, <1>29, <1>30, <1>31, <1>32, OneChain, SMTT(40)
<1> QED BY <1>27, <1>32, <1>33

(* The entry of k is passed over.                                          *)
LEMMA UnlinkIs ==
  ASSUME NEW t, NEW ky, NEW D, Chains(t, ky, D), KeysDiffer(ky, D), NEW k \in Key,
         NEW ptr, ptr = FindPointer(t, ky, k), NEW old, old = Deref(t, ptr), old # NULL,
         NEW u, u = Store(t, ptr, t.next_hash[old])
  PROVE  /\ Chains(u, ky, D \ {old}) /\ old \in D /\ ky[old] = k
         /\ u.elems = t.elems /\ Length(u) = Length(t)
<1>1. PICK i : i = Bucket(t, k)
  OBVIOUS
<1>2. PICK c : c = Chain(t, i)
  OBVIOUS
<1>3. PICK n \in 1 .. Len(c) + 1 :
        /\ ptr = Slot(i, c, n)
        /\ old = IF n = Len(c) + 1 THEN NULL ELSE c[n]
        /\ n # Len(c) + 1 => c[n] \in D /\ ky[c[n]] = k
  BY <1>1, <1>2, FindIs
<1>4. TableType(t) /\ D \subseteq Handle
  BY DEF Chains
<1>5. i \in Buckets(t) /\ i \notin Handle
  BY <1>1, <1>4, BucketIs, HashAssumption DEF Buckets, TableType
<1>6. IsChain(t, i, c) /\ \A j \in 1 .. Len(c) : c[j] \in D /\ Bucket(t, ky[c[j]]) = i
  BY <1>2, <1>5 DEF Chains
<1>7. PICK l \in Nat : l = Len(c)
  BY <1>6 DEF IsChain
<1>8. c \in [1 .. l -> Handle] /\ NULL \notin Handle
  BY <1>6, <1>7, HashAssumption DEF IsChain
<1>9. n \in 1 .. l /\ old = c[n] /\ old \in D /\ ky[old] = k
  BY <1>3, <1>7
<1>10. PICK x : x = t.next_hash[old]
  OBVIOUS
<1>11. x = IF n = l THEN NULL ELSE c[n + 1]
  BY <1>6, <1>7, <1>9, <1>10 DEF IsChain
<1>12. x \in Handle \cup {NULL}
  BY <1>8, <1>9, <1>11
<1>13. ptr \in Handle \cup Buckets(t) /\ (n # 1 => n - 1 \in 1 .. l /\ ptr = c[n - 1])
       /\ (n = 1 => ptr = i)
  BY <1>3, <1>5, <1>7, <1>8 DEF Slot
<1>14. Stored(t, ptr, x, u)
  BY <1>4, <1>10, <1>12, <1>13, StoreIs
<1>15. /\ TableType(u) /\ Length(u) = Length(t) /\ u.elems = t.elems
       /\ \A b \in Buckets(t) : u.list[b] = IF b = ptr THEN x ELSE t.list[b]
       /\ \A e \in Handle : u.next_hash[e] = IF e = ptr THEN x ELSE t.next_hash[e]
  BY <1>14 DEF Stored
<1>16. PICK m \in Nat : m = l - 1
  BY <1>7, <1>9
<1>17. PICK d \in [1 .. m -> Handle] : d = [j \in 1 .. m |-> IF j < n THEN c[j] ELSE c[j + 1]]
  <2>1. \A j \in 1 .. m : j \in 1 .. l /\ j + 1 \in 1 .. l
    BY <1>7, <1>16
  <2>2. \A j \in 1 .. m : (IF j < n THEN c[j] ELSE c[j + 1]) \in Handle
    BY <1>8, <2>1
  <2> QED BY <2>2
<1>18. d \in Seq(Handle) /\ Len(d) = m
  BY <1>17
<1>19. \A j \in 1 .. m : /\ j < n => j \in 1 .. l /\ d[j] = c[j]
                         /\ ~(j < n) => j + 1 \in 1 .. l /\ d[j] = c[j + 1]
  BY <1>7, <1>16, <1>17
<1>20. \A a, b \in 1 .. l : c[a] = c[b] => a = b
  BY <1>6, <1>7 DEF IsChain
<1>21. \A a, b \in 1 .. m : d[a] = d[b] => a = b
  <2> TAKE a, b \in 1 .. m
  <2> HAVE d[a] = d[b]
  <2>1. PICK a2, b2 \in 1 .. l : /\ a2 = (IF a < n THEN a ELSE a + 1) /\ b2 = (IF b < n THEN b ELSE b + 1)
                                 /\ c[a2] = d[a] /\ c[b2] = d[b]
    BY <1>19
  <2>2. a2 = b2
    BY <1>20, <2>1
  <2> QED BY <1>9, <2>1, <2>2
<1>22. u.list[i] = IF m = 0 THEN NULL ELSE d[1]
  <2>1. CASE n = 1
    <3>1. u.list[i] = x
      BY <1>5, <1>13, <1>15, <2>1
    <3>2. m # 0 => d[1] = c[2] /\ n # l
      BY <1>7, <1>9, <1>16, <1>19, <2>1
    <3>3. m = 0 => n = l
      BY <1>9, <1>16, <2>1
    <3> QED BY <1>11, <2>1, <3>1, <3>2, <3>3
  <2>2. CASE n # 1
    <3>1. ptr # i /\ l # 0 /\ m # 0
      BY <1>5, <1>7, <1>8, <1>9, <1>13, <1>16, <2>2
    <3>2. u.list[i] = t.list[i] /\ t.list[i] = c[1]
      BY <1>5, <1>6, <1>7, <1>15, <3>1 DEF IsChain
    <3>3. 1 \in 1 .. m /\ 1 < n
      BY <1>9, <1>16, <2>2, <3>1
    <3> QED BY <1>19, <3>1, <3>2, <3>3
  <2> QED BY <2>1, <2>2
<1>23. ASSUME NEW j \in 1 .. m PROVE u.next_hash[d[j]] = IF j = m THEN NULL ELSE d[j + 1]
  <2>1. CASE j = n - 1
    <3>1. j < n /\ j + 1 = n /\ n # 1 /\ d[j] = c[j]
      BY <1>9, <1>19, <2>1
    <3>2. d[j] = ptr /\ d[j] \in Handle
      BY <1>13, <1>17, <2>1, <3>1
    <3>3. j = m <=> n = l
      BY <1>7, <1>9, <1>16, <2>1
    <3>4. j # m => j + 1 \in 1 .. m /\ d[j + 1] = c[n + 1]
      BY <1>9, <1>16, <1>19, <3>1
    <3> QED BY <1>11, <1>15, <3>2, <3>3, <3>4
  <2>2. CASE j # n - 1
    <3>1. PICK a \in 1 .. l : a = (IF j < n THEN j ELSE j + 1) /\ d[j] = c[a]
      BY <1>19
    <3>2. a # n - 1
      BY <1>9, <2>2, <3>1
    <3>3. d[j] # ptr /\ d[j] \in Handle
      BY <1>5, <1>8, <1>13, <1>17, <1>20, <3>1, <3>2
    <3>4. t.next_hash[c[a]] = IF a = l THEN NULL ELSE c[a + 1]
      BY <1>6, <1>7, <3>1 DEF IsChain
    <3>5. a = l <=> j = m
      BY <1>9, <1>16, <2>2, <3>1
    <3>6. j # m => j + 1 \in 1 .. m /\ d[j + 1] = c[a + 1]
      BY <1>9, <1>16, <1>19, <2>2, <3>1
    <3> QED BY <1>15, <3>1, <3>3, <3>4, <3>5, <3>6
  <2> QED BY <2>1, <2>2
<1>24. IsChain(u, i, d)
  BY <1>18, <1>21, <1>22, <1>23 DEF IsChain
<1>25. PICK D2 \in SUBSET Handle : D2 = D \ {old}
  BY <1>4
<1>26. \A b \in Buckets(t) : b # i => u.list[b] = t.list[b]
  BY <1>4, <1>8, <1>13, <1>15, HashAssumption DEF Buckets, TableType
<1>27. ASSUME NEW e \in D, Bucket(t, ky[e]) # i PROVE e \in D2 /\ u.next_hash[e] = t.next_hash[e]
  <2>1. e \in Handle
    BY <1>4
  <2>2. e # ptr
    BY <1>5, <1>6, <1>7, <1>13, <1>27, <2>1
  <2>3. e # old
    BY <1>1, <1>9, <1>27
  <2> QED BY <1>15, <1>25, <2>1, <2>2, <2>3
<1>28. ASSUME NEW e \in D2
       PROVE  ky[e] \in Key /\ IF Bucket(t, ky[e]) = i THEN e \in Range(d) ELSE e \in D
  <2>1. e \in D /\ e # old /\ ky[e] \in Key
    BY <1>25 DEF Chains
  <2>2. ASSUME Bucket(t, ky[e]) = i PROVE e \in Range(d)
    <3>1. e \in Range(c) /\ c \in Seq(Handle)
      BY <1>2, <1>6, <2>1, <2>2 DEF Chains, IsChain
    <3>2. PICK j \in 1 .. l : c[j] = e
      BY <1>7, <3>1, RangeIs
    <3>3. j # n
      BY <1>9, <2>1, <3>2
    <3>4. PICK a \in 1 .. m : a = IF j < n THEN j ELSE j - 1
      BY <1>7, <1>9, <1>16, <3>3
    <3>5. d[a] = e
      BY <1>9, <1>19, <3>2, <3>3, <3>4
    <3> QED BY <1>18, <3>4, <3>5, RangeIs
  <2> QED BY <2>1, <2>2
<1>29. ASSUME NEW j \in 1 .. m PROVE d[j] \in D2 /\ Bucket(t, ky[d[j]]) = i
  <2>1. PICK a \in 1 .. l : a # n /\ d[j] = c[a]
    BY <1>9, <1>19
  <2>2. c[a] # old
    BY <1>9, <1>20, <2>1
  <2> QED BY <1>6, <1>7, <1>25, <2>1, <2>2
<1>30. Chains(u, ky, D2)
  BY <1>5, <1>15, <1>18, <1>24, <1>26, <1>27, <1>28, <1>29, OneChain
<1> QED BY <1>9, <1>15, <1>25, <1>30

-----------------------------------------------------------------------------
(* Resize().                                                               *)

LEMMA NewLengthIs ==
  ASSUME NEW elems \in Nat
  PROVE  NewLength(elems) \in Nat \ {0}
<1> DEFINE Is(g) ==
      g = [n \in Nat |-> IF n = 0 THEN InitialLength
                         ELSE IF g[n - 1] < elems THEN 2 * g[n - 1] ELSE g[n - 1]]
           new_length == CHOOSE g : Is(g)
<1>1. NewLength(elems) = new_length[elems]
  BY DEF NewLength
<1>2. PICK p : p.kind = "double" /\ p.elems = elems
  <2> DEFINE q == [kind |-> "double", elems |-> elems]
  <2> QED BY q.kind = "double" /\ q.elems = elems
<1>3. ASSUME NEW g PROVE Is(g) <=> IsLoop(p, InitialLength, g)
  BY <1>2 DEF IsLoop, LoopStep
<1>4. PICK g : IsLoop(p, InitialLength, g)
  BY LoopExists
<1> HIDE DEF Is
<1>5. Is(new_length)
  BY <1>3, <1>4
<1> HIDE DEF new_length
<1>6. IsLoop(p, InitialLength, new_length)
  BY <1>3, <1>5
<1> DEFINE Bad == {n \in Nat : new_length[n] \notin Nat \ {0}}
<1>7. Bad = {}
  <2> SUFFICES ASSUME Bad # {} PROVE FALSE
    OBVIOUS
  <2>1. PICK n \in Bad : \A j \in Nat : j < n => j \notin Bad
    BY LeastOf
  <2>2. n # 0
    BY <1>6, HashAssumption DEF IsLoop
  <2>3. n - 1 \in Nat /\ n - 1 < n
    BY <2>2
  <2>4. PICK l \in Nat \ {0} : l = new_length[n - 1]
    BY <2>1, <2>3
  <2>5. new_length[n] = LoopStep(p, l)
    BY <1>6, <2>2, <2>4 DEF IsLoop
  <2>6. new_length[n] = IF l < elems THEN 2 * l ELSE l
    BY <1>2, <2>5 DEF LoopStep
  <2> QED BY <2>4, <2>6
<1> QED BY <1>1, <1>7

Push(ky, length, r, h) ==
  LET i == hash[ky[h]] % length
  IN  [r EXCEPT !.next_hash[h] = r.list[i], !.list[i] = h]

LEMMA PushIs ==
  ASSUME NEW r, NEW ky, NEW D, Chains(r, ky, D), NEW length, length = Length(r),
         NEW h \in Handle, h \notin D, ky[h] \in Key, NEW u, u = Push(ky, length, r, h)
  PROVE  Chains(u, ky, D \cup {h}) /\ u.elems = r.elems /\ Length(u) = length
<1>1. PICK i : i = Bucket(r, ky[h])
  OBVIOUS
<1>2. TableType(r) /\ D \subseteq Handle
  BY DEF Chains
<1>3. i \in Buckets(r) /\ i \notin Handle
  BY <1>1, <1>2, BucketIs, HashAssumption DEF Buckets, TableType
<1>4. PICK c : c = Chain(r, i)
  OBVIOUS
<1>5. IsChain(r, i, c) /\ \A j \in 1 .. Len(c) : c[j] \in D /\ Bucket(r, ky[c[j]]) = i
  BY <1>3, <1>4 DEF Chains
<1>6. PICK l \in Nat : l = Len(c)
  BY <1>5 DEF IsChain
<1>7. c \in [1 .. l -> Handle] /\ NULL \notin Handle
  BY <1>5, <1>6, HashAssumption DEF IsChain
<1>8. PICK x : x = r.list[i]
  OBVIOUS
<1>9. x = (IF l = 0 THEN NULL ELSE c[1]) /\ x \in Handle \cup {NULL}
  BY <1>5, <1>6, <1>7, <1>8 DEF IsChain
<1>10. PICK v : v = Store(r, h, x)
  OBVIOUS
<1>11. Stored(r, h, x, v)
  BY <1>2, <1>9, <1>10, StoreIs
<1>12. Buckets(v) = Buckets(r) /\ TableType(v)
  BY <1>11 DEF Buckets, Stored
<1>13. u = Store(v, i, h)
  <2>1. PICK list, nh, elems : r = [list |-> list, next_hash |-> nh, elems |-> elems]
    BY <1>2 DEF TableType
  <2>2. r.list = list /\ r.next_hash = nh /\ r.elems = elems
    BY <2>1
  <2>3. v = [list |-> list, next_hash |-> [nh EXCEPT ![h] = x], elems |-> elems]
    BY <1>10, <2>1 DEF Store
  <2>4. Store(v, i, h) = [list |-> [list EXCEPT ![i] = h], next_hash |-> [nh EXCEPT ![h] = x], elems |-> elems]
    BY <1>3, <2>3 DEF Store
  <2>5. u = [list |-> [list EXCEPT ![i] = h], next_hash |-> [nh EXCEPT ![h] = x], elems |-> elems]
    BY <1>1, <1>8, <2>1, <2>2 DEF Push, Bucket
  <2> QED BY <2>4, <2>5
<1>14. Stored(v, i, h, u)
  <2>1. i \in Handle \cup Buckets(v) /\ h \in Handle \cup {NULL}
    BY <1>3, <1>12
  <2> QED BY <1>12, <1>13, <2>1, StoreIs
<1>15. /\ TableType(u) /\ Length(u) = Length(r) /\ u.elems = r.elems
       /\ \A b \in Buckets(r) : u.list[b] = IF b = i THEN h ELSE r.list[b]
       /\ \A e \in Handle : u.next_hash[e] = IF e = h THEN x ELSE r.next_hash[e]
  <2>1. \A b \in Buckets(r) : b # h
    BY <1>2, HashAssumption DEF Buckets, TableType
  <2> QED BY <1>3, <1>11, <1>12, <1>14, <2>1 DEF Stored
<1>16. PICK d \in [1 .. l + 1 -> Handle] : d = [j \in 1 .. l + 1 |-> IF j = 1 THEN h ELSE c[j - 1]]
  <2>1. \A j \in 1 .. l + 1 : j # 1 => j - 1 \in 1 .. l
    BY <1>6
  <2>2. \A j \in 1 .. l + 1 : (IF j = 1 THEN h ELSE c[j - 1]) \in Handle
    BY <1>7, <2>1
  <2> QED BY <2>2
<1>17. d \in Seq(Handle) /\ Len(d) = l + 1
  BY <1>6, <1>16
<1>18. \A j \in 1 .. l + 1 : IF j = 1 THEN d[j] = h ELSE j - 1 \in 1 .. l /\ d[j] = c[j - 1] /\ d[j] # h
  BY <1>5, <1>6, <1>16
<1>19. \A a, b \in 1 .. l : c[a] = c[b] => a = b
  BY <1>5, <1>6 DEF IsChain
<1>20. \A a, b \in 1 .. l + 1 : d[a] = d[b] => a = b
  BY <1>18, <1>19
<1>21. u.list[i] = d[1] /\ l + 1 # 0
  BY <1>3, <1>6, <1>15, <1>18
<1>22. ASSUME NEW j \in 1 .. l + 1 PROVE u.next_hash[d[j]] = IF j = l + 1 THEN NULL ELSE d[j + 1]
  <2>1. CASE j = 1
    <3>1. u.next_hash[d[j]] = x
      BY <1>15, <1>18, <2>1
    <3>2. j = l + 1 <=> l = 0
      BY <2>1, <1>6
    <3>3. l # 0 => d[j + 1] = c[1]
      BY <1>6, <1>18, <2>1
    <3> QED BY <1>9, <3>1, <3>2, <3>3
  <2>2. CASE j # 1
    <3>1. j - 1 \in 1 .. l /\ d[j] = c[j - 1] /\ d[j] # h /\ d[j] \in Handle
      BY <1>16, <1>18, <2>2
    <3>2. r.next_hash[c[j - 1]] = IF j - 1 = l THEN NULL ELSE c[(j - 1) + 1]
      BY <1>5, <1>6, <3>1 DEF IsChain
    <3>3. (j - 1) + 1 = j /\ (j - 1 = l <=> j = l + 1)
      BY <1>6
    <3>4. j # l + 1 => d[j + 1] = c[j]
      BY <1>6, <1>18, <2>2
    <3> QED BY <1>15, <3>1, <3>2, <3>3, <3>4
  <2> QED BY <2>1, <2>2
<1>23. IsChain(u, i, d)
  BY <1>17, <1>20, <1>21, <1>22 DEF IsChain
<1>24. PICK D2 \in SUBSET Handle : D2 = D \cup {h}
  BY <1>2
<1>25. \A b \in Buckets(r) : b # i => u.list[b] = r.list[b]
  BY <1>15
<1>26. \A e \in D : Bucket(r, ky[e]) # i => e \in D2 /\ u.next_hash[e] = r.next_hash[e]
  BY <1>2, <1>15, <1>24
<1>27. ASSUME NEW e \in D2
       PROVE  ky[e] \in Key /\ IF Bucket(r, ky[e]) = i THEN e \in Range(d) ELSE e \in D
  <2>1. CASE e = h
    <3>1. 1 \in 1 .. l + 1
      BY <1>6
    <3>2. e \in Range(d)
      BY <1>17, <1>18, <2>1, <3>1, RangeIs
    <3> QED BY <1>1, <2>1, <3>2
  <2>2. CASE e # h
    <3>1. e \in D /\ ky[e] \in Key
      BY <1>24, <2>2 DEF Chains
    <3>2. ASSUME Bucket(r, ky[e]) = i PROVE e \in Range(d)
      <4>1. e \in Range(c) /\ c \in Seq(Handle)
        BY <1>4, <1>5, <3>1, <3>2 DEF Chains, IsChain
      <4>2. PICK j \in 1 .. l : c[j] = e
        BY <1>6, <4>1, RangeIs
      <4>3. j + 1 \in 1 .. l + 1 /\ d[j + 1] = e
        BY <1>6, <1>16, <4>2
      <4> QED BY <1>17, <4>3, RangeIs
    <3> QED BY <3>1, <3>2
  <2> QED BY <2>1, <2>2
<1>28. \A j \in 1 .. l + 1 : d[j] \in D2 /\ Bucket(r, ky[d[j]]) = i
  BY <1>1, <1>5, <1>6, <1>18, <1>24
<1>29. Chains(u, ky, D2)
  BY <1>3, <1>15, <1>17, <1>23, <1>25, <1>26, <1>27, <1>28, OneChain
<1> QED BY <1>15, <1>24, <1>29

LEMMA GreatestOf ==
  ASSUME NEW S \in SUBSET Nat, S # {}, NEW b \in Nat, \A j \in S : j <= b
  PROVE  Max(S) \in S /\ \A j \in S : j <= Max(S)
<1> DEFINE Bounds == {u \in Nat : \A j \in S : j <= u}
<1>1. PICK u \in Bounds : \A v \in Nat : v < u => v \notin Bounds
  BY LeastOf
<1>2. u \in S
  <2> SUFFICES ASSUME u \notin S PROVE FALSE
    OBVIOUS
  <2>1. \A j \in S : j \in Nat /\ j < u
    BY <1>1
  <2>2. u \in Nat /\ u > 0
    <3>1. PICK j : j \in S
      OBVIOUS
    <3> QED BY <1>1, <2>1, <3>1
  <2>3. u - 1 \in Bounds /\ u - 1 < u
    BY <2>1, <2>2
  <2> QED BY <1>1, <2>3
<1>3. \E k \in S : \A j \in S : k >= j
  BY <1>2
<1>4. Max(S) \in S /\ \A j \in S : Max(S) >= j
  BY <1>3 DEF Max
<1> QED BY <1>4

(* All handles of s are pushed.                                            *)
PushAll(ky, length, r, s) ==
  LET push(q, h) == Push(ky, length, q, h)
  IN  FoldLeft(push, r, s)

(* The step of the inner fold of Resize(), and of the outer one.           *)
FoldStep(p, r, x) ==
  IF p.kind = "push" THEN Push(p.ky, p.length, r, x)
                     ELSE PushAll(p.ky, p.length, r, Chain(p.t, x - 1))

(* The fold over a set of indices of s.                                    *)
Folds(p, a, s, n, h) ==
  h = [t \in SUBSET (1 .. n) |-> IF t = {} THEN a ELSE FoldStep(p, h[t \ {Max(t)}], s[Max(t)])]

LEMMA MaxIs ==
  ASSUME NEW n \in Nat, NEW t \in SUBSET (1 .. n), t # {}
  PROVE  Max(t) \in t /\ Max(t) \in Nat /\ \A j \in t : j <= Max(t)
<1>1. t \in SUBSET Nat /\ \A j \in t : j <= n
  OBVIOUS
<1> QED BY <1>1, GreatestOf

LEMMA FoldExists ==
  ASSUME NEW p, NEW a, NEW s, NEW n \in Nat
  PROVE  \E h : Folds(p, a, s, n, h)
<1> DEFINE Bad == {m \in Nat : ~\E h : Folds(p, a, s, m, h)}
<1> SUFFICES ASSUME Bad # {} PROVE FALSE
  OBVIOUS
<1>1. PICK m \in Bad : \A j \in Nat : j < m => j \notin Bad
  BY LeastOf
<1>2. m \in Nat /\ m # 0
  <2> DEFINE h == [t \in SUBSET (1 .. 0) |-> a]
  <2>1. h = [t \in SUBSET (1 .. 0) |->
               IF t = {} THEN a ELSE FoldStep(p, h[t \ {Max(t)}], s[Max(t)])]
    <3>1. \A t \in SUBSET (1 .. 0) : t = {}
      OBVIOUS
    <3> QED BY <3>1
  <2> HIDE DEF h
  <2>2. Folds(p, a, s, 0, h)
    BY <2>1 DEF Folds
  <2> QED BY <1>1, <2>2
<1>3. PICK h : Folds(p, a, s, m - 1, h)
  <2>1. m - 1 \in Nat /\ m - 1 < m
    BY <1>2
  <2> QED BY <1>1, <2>1
<1> DEFINE f == [t \in SUBSET (1 .. m) |-> IF m \in t THEN FoldStep(p, h[t \ {m}], s[m]) ELSE h[t]]
<1>4. /\ \A t \in SUBSET (1 .. m) : f[t] = IF m \in t THEN FoldStep(p, h[t \ {m}], s[m]) ELSE h[t]
      /\ f = [t \in SUBSET (1 .. m) |-> f[t]]
  OBVIOUS
<1> HIDE DEF f
<1>5. ASSUME NEW t \in SUBSET (1 .. m), m \notin t PROVE t \in SUBSET (1 .. m - 1) /\ f[t] = h[t]
  <2>1. \A j \in t : j \in 1 .. m /\ j # m
    BY <1>5
  <2>2. \A j \in 1 .. m : j # m => j \in 1 .. m - 1
    BY <1>2
  <2>3. \A j \in t : j \in 1 .. m - 1
    BY <2>1, <2>2
  <2> QED BY <1>4, <1>5, <2>3
<1>6. ASSUME NEW t \in SUBSET (1 .. m)
      PROVE  f[t] = IF t = {} THEN a ELSE FoldStep(p, f[t \ {Max(t)}], s[Max(t)])
  <2>1. CASE m \in t
    <3>1. Max(t) = m
      <4>1. Max(t) \in t /\ Max(t) \in Nat /\ m <= Max(t)
        BY <1>2, <2>1, MaxIs
      <4>2. Max(t) <= m
        BY <4>1
      <4> QED BY <1>2, <4>1, <4>2
    <3>2. f[t \ {m}] = h[t \ {m}]
      <4>1. t \ {m} \in SUBSET (1 .. m) /\ m \notin t \ {m}
        OBVIOUS
      <4> QED BY <1>5, <4>1
    <3> QED BY <1>4, <2>1, <3>1, <3>2
  <2>2. CASE m \notin t
    <3>1. t \in SUBSET (1 .. m - 1) /\ f[t] = h[t]
      BY <1>5, <2>2
    <3>2. h[t] = IF t = {} THEN a ELSE FoldStep(p, h[t \ {Max(t)}], s[Max(t)])
      BY <1>3, <3>1 DEF Folds
    <3>3. f[t \ {Max(t)}] = h[t \ {Max(t)}]
      <4>1. PICK u : u = t \ {Max(t)}
        OBVIOUS
      <4>2. u \in SUBSET (1 .. m) /\ m \notin u
        BY <2>2, <4>1
      <4> QED BY <1>5, <4>1, <4>2
    <3> QED BY <3>1, <3>2, <3>3
  <2> QED BY <2>1, <2>2
<1>7. Folds(p, a, s, m, f)
  BY <1>4, <1>6 DEF Folds
<1> QED BY <1>1, <1>7


(* f has the results for the first elements of s, one after the other.     *)
Runs(p, a, s, n, f) ==
  /\ f[0] = a
  /\ \A m \in 1 .. n : f[m] = FoldStep(p, f[m - 1], s[m])

LEMMA FoldRuns ==
  ASSUME NEW p, NEW a, NEW s, NEW n \in Nat, NEW h, Folds(p, a, s, n, h)
  PROVE  \E f : Runs(p, a, s, n, f) /\ f[n] = h[1 .. n]
<1>1. PICK f : f = [m \in 0 .. n |-> h[1 .. m]]
  OBVIOUS
<1>2. f[0] = a
  <2>1. 1 .. 0 = {} /\ {} \in SUBSET (1 .. n)
    OBVIOUS
  <2>2. h[{}] = a
    BY <2>1 DEF Folds
  <2> QED BY <1>1, <2>1, <2>2
<1>3. ASSUME NEW m \in 1 .. n PROVE f[m] = FoldStep(p, f[m - 1], s[m])
  <2>1. m \in Nat /\ 1 .. m \in SUBSET (1 .. n) /\ m \in 1 .. m
    OBVIOUS
  <2>2. h[1 .. m] = FoldStep(p, h[(1 .. m) \ {Max(1 .. m)}], s[Max(1 .. m)])
    <3>1. 1 .. m # {}
      BY <2>1
    <3> QED BY <2>1, <3>1 DEF Folds
  <2>3. Max(1 .. m) = m
    <3>1. PICK t : t = 1 .. m
      OBVIOUS
    <3>2. Max(t) \in t /\ Max(t) \in Nat /\ \A j \in t : j <= Max(t)
      BY <2>1, <3>1, MaxIs
    <3>3. Max(t) <= m /\ m <= Max(t)
      BY <2>1, <3>1, <3>2
    <3> QED BY <2>1, <3>1, <3>2, <3>3
  <2>4. (1 .. m) \ {m} = 1 .. m - 1
    OBVIOUS
  <2>5. f[m] = h[1 .. m] /\ f[m - 1] = h[1 .. m - 1]
    BY <1>1
  <2> QED BY <2>2, <2>3, <2>4, <2>5
<1>4. f[n] = h[1 .. n]
  BY <1>1
<1> QED BY <1>2, <1>3, <1>4 DEF Runs

LEMMA PushAllRuns ==
  ASSUME NEW ky, NEW length, NEW r, NEW s, NEW n \in Nat, DOMAIN s = 1 .. n,
         NEW p, p.kind = "push", p.ky = ky, p.length = length
  PROVE  \E f : Runs(p, r, s, n, f) /\ f[n] = PushAll(ky, length, r, s)
<1> DEFINE Is(h) ==
      h = [t \in SUBSET (DOMAIN s) |->
             IF t = {} THEN r ELSE Push(ky, length, h[t \ {Max(t)}], s[Max(t)])]
           fold == CHOOSE h : Is(h)
<1>1. PushAll(ky, length, r, s) = fold[DOMAIN s]
  BY DEF PushAll, FoldLeft, MapThenFoldSet
<1>2. ASSUME NEW h PROVE Is(h) <=> Folds(p, r, s, n, h)
  BY DEF Folds, FoldStep
<1>3. PICK h : Folds(p, r, s, n, h)
  BY FoldExists
<1> HIDE DEF Is
<1>4. Is(fold)
  BY <1>2, <1>3
<1> HIDE DEF fold
<1>5. Folds(p, r, s, n, fold)
  BY <1>2, <1>4
<1> QED BY <1>1, <1>5, FoldRuns

LEMMA PushAllIs ==
  ASSUME NEW r, NEW ky, NEW D, Chains(r, ky, D), NEW length, length = Length(r),
         NEW s \in Seq(Handle), \A a, b \in 1 .. Len(s) : s[a] = s[b] => a = b,
         \A j \in 1 .. Len(s) : s[j] \notin D /\ ky[s[j]] \in Key,
         NEW u, u = PushAll(ky, length, r, s)
  PROVE  Chains(u, ky, D \cup Range(s)) /\ u.elems = r.elems /\ Length(u) = length
<1>1. PICK n \in Nat : n = Len(s) /\ DOMAIN s = 1 .. n
  OBVIOUS
<1>2. PICK p : p.kind = "push" /\ p.ky = ky /\ p.length = length
  <2> DEFINE q == [kind |-> "push", ky |-> ky, length |-> length]
  <2> QED BY q.kind = "push" /\ q.ky = ky /\ q.length = length
<1>3. PICK f : Runs(p, r, s, n, f) /\ f[n] = u
  BY <1>1, <1>2, PushAllRuns
<1> DEFINE Upto1(m) == D \cup {s[j] : j \in 1 .. m}
           Good(m) == Chains(f[m], ky, Upto1(m)) /\ f[m].elems = r.elems /\ Length(f[m]) = length
           Bad == {m \in Nat : m <= n /\ ~Good(m)}
<1>4. Bad = {}
  <2> SUFFICES ASSUME Bad # {} PROVE FALSE
    OBVIOUS
  <2>1. PICK m \in Bad : \A j \in Nat : j < m => j \notin Bad
    <3> HIDE DEF Good
    <3> QED BY LeastOf
  <2>2. m \in Nat /\ m <= n
    OBVIOUS
  <2>3. CASE m = 0
    <3>1. Upto1(0) = D
      OBVIOUS
    <3>2. f[0] = r
      BY <1>3 DEF Runs
    <3> QED BY <2>3, <3>1, <3>2
  <2>4. CASE m # 0
    <3>1. m - 1 \in Nat /\ m - 1 < m /\ m - 1 <= n /\ m \in 1 .. n
      BY <1>1, <2>2, <2>4
    <3>2. Good(m - 1)
      <4> HIDE DEF Good
      <4> QED BY <2>1, <3>1
    <3>3. f[m] = Push(ky, length, f[m - 1], s[m])
      BY <1>2, <1>3, <3>1 DEF Runs, FoldStep
    <3>4. s[m] \in Handle /\ ky[s[m]] \in Key /\ s[m] \notin D
      BY <1>1, <3>1
    <3>5. s[m] \notin Upto1(m - 1)
      <4>1. \A j \in 1 .. m - 1 : s[j] # s[m]
        BY <1>1, <2>2, <3>1
      <4> QED BY <3>4, <4>1
    <3>6. Upto1(m) = Upto1(m - 1) \cup {s[m]}
      <4>1. \A j \in 1 .. m : j \in 1 .. m - 1 \/ j = m
        BY <2>2
      <4>2. \A j \in 1 .. m - 1 : j \in 1 .. m
        BY <2>2
      <4>3. m \in 1 .. m
        BY <3>1
      <4> QED BY <4>1, <4>2, <4>3
    <3>7. PICK E : E = Upto1(m - 1)
      OBVIOUS
    <3>8. Chains(f[m], ky, E \cup {s[m]}) /\ f[m].elems = f[m - 1].elems /\ Length(f[m]) = length
      <4>1. Chains(f[m - 1], ky, E) /\ length = Length(f[m - 1]) /\ s[m] \notin E
        BY <3>2, <3>5, <3>7
      <4>2. PICK q, h, v : q = f[m - 1] /\ h = s[m] /\ v = f[m]
        OBVIOUS
      <4> HIDE DEF Upto1, Good
      <4>3. h \in Handle /\ h \notin E /\ ky[h] \in Key /\ v = Push(ky, length, q, h)
        BY <3>3, <3>4, <4>1, <4>2
      <4>4. Chains(v, ky, E \cup {h}) /\ v.elems = q.elems /\ Length(v) = length
        BY <4>1, <4>2, <4>3, PushIs
      <4> QED BY <4>2, <4>4
    <3> HIDE DEF Upto1
    <3> QED BY <3>2, <3>6, <3>7, <3>8
  <2> QED BY <2>3, <2>4
<1>5. Good(n)
  <2> HIDE DEF Good
  <2>1. n \in Nat /\ n <= n
    BY <1>1
  <2> QED BY <1>4, <2>1
<1>6. Upto1(n) = D \cup Range(s)
  BY <1>1 DEF Range
<1> HIDE DEF Upto1
<1> QED BY <1>3, <1>5, <1>6

(* An empty table of the new length.                                       *)
LEMMA EmptyIs ==
  ASSUME NEW t, TableType(t), NEW length \in Nat \ {0}, NEW ky,
         NEW u, u = [t EXCEPT !.list = EmptyList(length)]
  PROVE  Chains(u, ky, {}) /\ u.elems = t.elems /\ Length(u) = length
<1>1. PICK list : list = EmptyList(length)
  OBVIOUS
<1>2. list \in [0 .. length - 1 -> Handle \cup {NULL}] /\ \A i \in 0 .. length - 1 : list[i] = NULL
  BY <1>1 DEF EmptyList
<1>3. u = [list |-> list, next_hash |-> t.next_hash, elems |-> t.elems]
  <2>1. PICK l, nh, elems : t = [list |-> l, next_hash |-> nh, elems |-> elems]
    BY DEF TableType
  <2>2. t.next_hash = nh /\ t.elems = elems
    BY <2>1
  <2>3. u = [list |-> list, next_hash |-> nh, elems |-> elems]
    BY <1>1, <2>1
  <2> QED BY <2>2, <2>3
<1>4. u.list = list /\ u.next_hash = t.next_hash /\ u.elems = t.elems
  BY <1>3
<1>5. DOMAIN list = 0 .. length - 1
  BY <1>2
<1>6. Length(u) = length
  BY <1>4, <1>5, LengthIs DEF Length
<1>7. TableType(u) /\ Buckets(u) = 0 .. length - 1
  BY <1>2, <1>3, <1>4, <1>6 DEF TableType, Buckets
<1>8. ASSUME NEW i \in Buckets(u) PROVE IsChain(u, i, <<>>) /\ Chain(u, i) = <<>>
  <2>1. IsChain(u, i, <<>>)
    BY <1>2, <1>4, <1>7 DEF IsChain
  <2> QED BY <2>1, ChainIs
<1>9. Chains(u, ky, {})
  BY <1>7, <1>8 DEF Chains
<1> QED BY <1>4, <1>6, <1>9

Emptied(t, length) == [t EXCEPT !.list = EmptyList(length)]
Indices(n) == [i \in 1 .. n |-> i]

LEMMA ResizeRuns ==
  ASSUME NEW t, NEW ky, NEW n \in Nat, n = Length(t), NEW length, length = NewLength(t.elems),
         NEW base, base = Emptied(t, length),
         NEW p, p.kind = "move", p.ky = ky, p.length = length, p.t = t,
         NEW s, s = Indices(n)
  PROVE  \E f : Runs(p, base, s, n, f) /\ f[n] = Resize(t, ky)
<1> DEFINE Is(h) ==
      h = [d \in SUBSET (DOMAIN s) |->
             IF d = {} THEN base
             ELSE PushAll(ky, length, h[d \ {Max(d)}], Chain(t, s[Max(d)] - 1))]
           fold == CHOOSE h : Is(h)
<1>0. DOMAIN s = 1 .. n
  BY DEF Indices
<1>1. Resize(t, ky) = fold[DOMAIN s]
  BY DEF Emptied, Indices, Resize, PushAll, Push, FoldLeft, MapThenFoldSet
<1>2. ASSUME NEW h PROVE Is(h) <=> Folds(p, base, s, n, h)
  BY <1>0 DEF Folds, FoldStep
<1>3. PICK h : Folds(p, base, s, n, h)
  BY FoldExists
<1> HIDE DEF Is
<1>4. Is(fold)
  BY <1>2, <1>3
<1> HIDE DEF fold
<1>5. Folds(p, base, s, n, fold)
  BY <1>2, <1>4
<1>6. PICK f : Runs(p, base, s, n, f) /\ f[n] = fold[1 .. n]
  <2>1. PICK a, c, g : a = base /\ c = s /\ g = fold
    OBVIOUS
  <2>2. Folds(p, a, c, n, g)
    BY <1>5, <2>1
  <2>3. \E f : Runs(p, a, c, n, f) /\ f[n] = g[1 .. n]
    BY ONLY <2>2, FoldRuns, n \in Nat
  <2> QED BY <2>1, <2>3
<1> QED BY <1>0, <1>1, <1>6

LEMMA ResizeIs ==
  ASSUME NEW t, NEW ky, NEW D, Chains(t, ky, D), t.elems \in Nat,
         NEW u, u = Resize(t, ky)
  PROVE  Chains(u, ky, D) /\ u.elems = t.elems
<1>1. TableType(t) /\ D \subseteq Handle
  BY DEF Chains
<1>2. PICK n \in Nat : n = Length(t)
  BY <1>1 DEF TableType
<1>3. PICK length \in Nat \ {0} : length = NewLength(t.elems)
  BY NewLengthIs
<1>4. PICK base : base = Emptied(t, length)
  OBVIOUS
<1>5. Chains(base, ky, {}) /\ base.elems = t.elems /\ Length(base) = length
  BY <1>1, <1>4, EmptyIs DEF Emptied
<1>6. PICK s : s = Indices(n)
  OBVIOUS
<1>7. PICK p : p.kind = "move" /\ p.ky = ky /\ p.length = length /\ p.t = t
  <2> DEFINE q == [kind |-> "move", ky |-> ky, length |-> length, t |-> t]
  <2> QED BY q.kind = "move" /\ q.ky = ky /\ q.length = length /\ q.t = t
<1>8. PICK f : Runs(p, base, s, n, f) /\ f[n] = u
  BY <1>2, <1>3, <1>4, <1>6, <1>7, ResizeRuns
<1> DEFINE Moved(m) == {e \in D : Bucket(t, ky[e]) < m}
           Good(m) == Chains(f[m], ky, Moved(m)) /\ f[m].elems = t.elems /\ Length(f[m]) = length
           Bad == {m \in Nat : m <= n /\ ~Good(m)}
<1>9. \A e \in D : ky[e] \in Key /\ Bucket(t, ky[e]) \in 0 .. n - 1
  BY <1>1, <1>2, BucketIs DEF Chains, Buckets
<1>10. Bad = {}
  <2> SUFFICES ASSUME Bad # {} PROVE FALSE
    OBVIOUS
  <2>1. PICK m \in Bad : \A j \in Nat : j < m => j \notin Bad
    <3> HIDE DEF Good
    <3> QED BY LeastOf
  <2>2. m \in Nat /\ m <= n
    OBVIOUS
  <2>3. CASE m = 0
    <3>1. Moved(0) = {}
      BY <1>9
    <3>2. f[0] = base
      BY <1>8 DEF Runs
    <3> QED BY <1>5, <2>3, <3>1, <3>2
  <2>4. CASE m # 0
    <3>1. m - 1 \in Nat /\ m - 1 < m /\ m - 1 <= n /\ m \in 1 .. n /\ m - 1 \in 0 .. n - 1
      BY <1>2, <2>2, <2>4
    <3>2. Good(m - 1)
      <4> HIDE DEF Good
      <4> QED BY <2>1, <3>1
    <3>3. PICK c : c = Chain(t, m - 1)
      OBVIOUS
    <3>4. f[m] = PushAll(ky, length, f[m - 1], c)
      BY <1>6, <1>7, <1>8, <3>1, <3>3 DEF Runs, FoldStep, Indices
    <3>5. m - 1 \in Buckets(t)
      BY <1>2, <3>1 DEF Buckets
    <3>6. IsChain(t, m - 1, c) /\ \A j \in 1 .. Len(c) : c[j] \in D /\ Bucket(t, ky[c[j]]) = m - 1
      BY <3>3, <3>5 DEF Chains
    <3>7. c \in Seq(Handle) /\ \A a, b \in 1 .. Len(c) : c[a] = c[b] => a = b
      BY <3>6 DEF IsChain
    <3>8. \A j \in 1 .. Len(c) : c[j] \notin Moved(m - 1) /\ ky[c[j]] \in Key
      BY <1>9, <3>1, <3>6
    <3>9. Moved(m) = Moved(m - 1) \cup Range(c)
      <4>1. \A e : e \in Range(c) <=> e \in D /\ Bucket(t, ky[e]) = m - 1
        <5>1. ASSUME NEW e, e \in Range(c) PROVE e \in D /\ Bucket(t, ky[e]) = m - 1
          BY <3>6, <3>7, <5>1, RangeIs
        <5>2. ASSUME NEW e \in D, Bucket(t, ky[e]) = m - 1 PROVE e \in Range(c)
          BY <3>3, <5>2 DEF Chains
        <5> QED BY <5>1, <5>2
      <4>2. \A e \in D : Bucket(t, ky[e]) < m <=> Bucket(t, ky[e]) < m - 1 \/ Bucket(t, ky[e]) = m - 1
        <5>1. \A b \in 0 .. n - 1 : b < m <=> b < m - 1 \/ b = m - 1
          BY <1>2, <2>2
        <5> QED BY <1>9, <5>1
      <4> QED BY <4>1, <4>2
    <3>10. PICK E, q, v : E = Moved(m - 1) /\ q = f[m - 1] /\ v = f[m]
      OBVIOUS
    <3>11. Chains(v, ky, E \cup Range(c)) /\ v.elems = q.elems /\ Length(v) = length
      <4>1. Chains(q, ky, E) /\ length = Length(q) /\ v = PushAll(ky, length, q, c)
        BY <3>2, <3>4, <3>10
      <4>2. \A j \in 1 .. Len(c) : c[j] \notin E /\ ky[c[j]] \in Key
        BY <3>8, <3>10
      <4> HIDE DEF Moved, Good
      <4> QED BY ONLY <3>7, <4>1, <4>2, PushAllIs, SMTT(40)
    <3> HIDE DEF Moved
    <3> QED BY <3>2, <3>9, <3>10, <3>11
  <2> QED BY <2>3, <2>4
<1>11. Good(n)
  <2> HIDE DEF Good
  <2>1. n \in Nat /\ n <= n
    BY <1>2
  <2> QED BY <1>10, <2>1
<1>12. Moved(n) = D
  BY <1>2, <1>9
<1> HIDE DEF Moved
<1> QED BY <1>8, <1>11, <1>12

-----------------------------------------------------------------------------
(* The operations of HandleTable.                                          *)

TableHolds(t, ky, D) ==
  Chains(t, ky, D) /\ KeysDiffer(ky, D) /\ t.elems = Cardinality(D)

LEMMA FiniteIs ==
  ASSUME NEW D \in SUBSET Handle
  PROVE  IsFiniteSet(D) /\ Cardinality(D) \in Nat
<1>1. IsFiniteSet(D)
  BY HashAssumption, FS_Subset
<1> QED BY <1>1, FS_CardinalityType

LEMMA LookupIs ==
  ASSUME NEW t, NEW ky, NEW D, TableHolds(t, ky, D), NEW k \in Key
  PROVE  IF TableLookup(t, ky, k) = NULL THEN \A e \in D : ky[e] # k
         ELSE TableLookup(t, ky, k) \in D /\ ky[TableLookup(t, ky, k)] = k
<1>1. PICK i : i = Bucket(t, k)
  OBVIOUS
<1>2. PICK c : c = Chain(t, i)
  OBVIOUS
<1>3. PICK n \in 1 .. Len(c) + 1 :
           /\ Deref(t, FindPointer(t, ky, k)) = IF n = Len(c) + 1 THEN NULL ELSE c[n]
           /\ n = Len(c) + 1 => \A e \in D : ky[e] # k
           /\ n # Len(c) + 1 => c[n] \in D /\ ky[c[n]] = k
  BY <1>1, <1>2, FindIs DEF TableHolds
<1>4. NULL \notin D
  BY HashAssumption DEF TableHolds, Chains
<1> QED BY <1>3, <1>4 DEF TableLookup

LEMMA LookupFinds ==
  ASSUME NEW t, NEW ky, NEW D, TableHolds(t, ky, D), NEW e \in D
  PROVE  TableLookup(t, ky, ky[e]) = e
<1>1. ky[e] \in Key
  BY DEF TableHolds, Chains
<1> QED BY <1>1, LookupIs DEF TableHolds, KeysDiffer

LEMMA InsertIs ==
  ASSUME NEW t, NEW ky, NEW D, TableHolds(t, ky, D),
         NEW h \in Handle, h \notin D, ky[h] \in Key,
         NEW old, old = TableLookup(t, ky, ky[h])
  PROVE  TableHolds(TableInsert(t, ky, h), ky, (D \ {old}) \cup {h})
<1>1. PICK ptr : ptr = FindPointer(t, ky, ky[h])
  OBVIOUS
<1>2. old = Deref(t, ptr)
  BY <1>1 DEF TableLookup
<1>3. PICK x : x = IF old = NULL THEN NULL ELSE t.next_hash[old]
  OBVIOUS
<1>4. PICK u : u = Store(Store(t, h, x), ptr, h)
  OBVIOUS
<1>5. Chains(u, ky, (D \ {old}) \cup {h}) /\ u.elems = t.elems /\ Length(u) = Length(t)
  BY <1>1, <1>2, <1>3, <1>4, LinkIs DEF TableHolds
<1>6. u = Store([t EXCEPT !.next_hash[h] = IF old = NULL THEN NULL ELSE t.next_hash[old]], ptr, h)
  BY <1>3, <1>4 DEF Store
<1>7. D \in SUBSET Handle /\ t.elems = Cardinality(D) /\ NULL \notin D /\ TableType(u)
  BY <1>5, HashAssumption DEF TableHolds, Chains
<1>8. IsFiniteSet(D) /\ Cardinality(D) \in Nat
  BY <1>7, FiniteIs
<1>9. PICK D2 : D2 = (D \ {old}) \cup {h}
  OBVIOUS
<1>10. KeysDiffer(ky, D2)
  BY <1>9, LookupIs DEF KeysDiffer, TableHolds
<1>11. CASE old # NULL
  <2>1. TableInsert(t, ky, h) = u
    BY <1>1, <1>2, <1>6, <1>11 DEF TableInsert
  <2>2. old \in D
    BY <1>11, LookupIs
  <2>3. IsFiniteSet(D \ {old}) /\ Cardinality(D \ {old}) = Cardinality(D) - 1
    BY <1>8, <2>2, FS_RemoveElement
  <2>4. Cardinality(D2) = (Cardinality(D) - 1) + 1
    <3>1. PICK E : E = D \ {old}
      OBVIOUS
    <3>2. h \notin E /\ D2 = E \cup {h} /\ IsFiniteSet(E) /\ Cardinality(E) = Cardinality(D) - 1
      BY <1>9, <2>3, <3>1
    <3>3. Cardinality(E \cup {h}) = Cardinality(E) + 1
      BY <3>2, FS_AddElement
    <3> QED BY <3>2, <3>3
  <2> QED BY <1>5, <1>7, <1>8, <1>9, <1>10, <2>1, <2>4 DEF TableHolds
<1>12. CASE old = NULL
  <2>1. PICK a : a = [u EXCEPT !.elems = @ + 1]
    OBVIOUS
  <2>2. TableInsert(t, ky, h) = IF a.elems > Length(t) THEN Resize(a, ky) ELSE a
    BY <1>1, <1>2, <1>6, <1>12, <2>1 DEF TableInsert
  <2>3. D2 = D \cup {h}
    BY <1>7, <1>9, <1>12
  <2>4. Cardinality(D2) = Cardinality(D) + 1
    BY <1>8, <2>3, FS_AddElement
  <2>5. a = [list |-> u.list, next_hash |-> u.next_hash, elems |-> t.elems + 1]
    <3>1. PICK l, nh, elems : u = [list |-> l, next_hash |-> nh, elems |-> elems]
      BY <1>7 DEF TableType
    <3>2. u.list = l /\ u.next_hash = nh /\ elems = t.elems
      BY <1>5, <3>1
    <3>3. a = [list |-> l, next_hash |-> nh, elems |-> elems + 1]
      BY <2>1, <3>1
    <3> QED BY <3>2, <3>3
  <2>6. Chains(a, ky, D2) /\ a.elems = Cardinality(D2) /\ a.elems \in Nat
    <3>1. a.list = u.list /\ a.next_hash = u.next_hash /\ a.elems = t.elems + 1
      BY <2>5
    <3>2. Chains(a, ky, D2)
      BY <1>5, <1>9, <2>5, <3>1, SameChains
    <3> QED BY <1>7, <1>8, <2>4, <3>1, <3>2
  <2>7. CASE a.elems > Length(t)
    <3>1. PICK r : r = Resize(a, ky)
      OBVIOUS
    <3>2. Chains(r, ky, D2) /\ r.elems = a.elems
      BY <2>6, <3>1, ResizeIs
    <3> QED BY <1>9, <1>10, <2>2, <2>6, <2>7, <3>1, <3>2 DEF TableHolds
  <2>8. CASE ~(a.elems > Length(t))
    BY <1>9, <1>10, <2>2, <2>6, <2>8 DEF TableHolds
  <2> QED BY <2>7, <2>8
<1> QED BY <1>11, <1>12

LEMMA RemoveIs ==
  ASSUME NEW t, NEW ky, NEW D, TableHolds(t, ky, D), NEW e \in D
  PROVE  TableHolds(TableRemove(t, ky, ky[e]), ky, D \ {e})
<1>1. PICK k \in Key : k = ky[e]
  BY DEF TableHolds, Chains
<1>2. PICK ptr : ptr = FindPointer(t, ky, k)
  OBVIOUS
<1>3. e = Deref(t, ptr)
  BY <1>1, <1>2, LookupFinds DEF TableLookup
<1>4. D \in SUBSET Handle /\ t.elems = Cardinality(D) /\ e # NULL
  BY HashAssumption DEF TableHolds, Chains
<1>5. PICK u : u = Store(t, ptr, t.next_hash[e])
  OBVIOUS
<1>6. Chains(u, ky, D \ {e}) /\ u.elems = t.elems
  BY <1>2, <1>3, <1>4, <1>5, UnlinkIs DEF TableHolds
<1>7. PICK a : a = [u EXCEPT !.elems = @ - 1]
  OBVIOUS
<1>8. TableRemove(t, ky, k) = a
  BY <1>2, <1>3, <1>4, <1>5, <1>7 DEF TableRemove
<1>9. a = [list |-> u.list, next_hash |-> u.next_hash, elems |-> t.elems - 1]
  <2>1. PICK l, nh, elems : u = [list |-> l, next_hash |-> nh, elems |-> elems]
    BY <1>6 DEF Chains, TableType
  <2>2. u.list = l /\ u.next_hash = nh /\ elems = t.elems
    BY <1>6, <2>1
  <2>3. a = [list |-> l, next_hash |-> nh, elems |-> elems - 1]
    BY <1>7, <2>1
  <2> QED BY <2>2, <2>3
<1>10. a.list = u.list /\ a.next_hash = u.next_hash /\ a.elems = t.elems - 1
  BY <1>9
<1>11. Chains(a, ky, D \ {e})
  BY <1>6, <1>9, <1>10, SameChains
<1>12. Cardinality(D \ {e}) = Cardinality(D) - 1
  BY <1>4, FiniteIs, FS_RemoveElement
<1>13. KeysDiffer(ky, D \ {e})
  BY DEF KeysDiffer, TableHolds
<1> QED BY <1>1, <1>4, <1>8, <1>10, <1>11, <1>12, <1>13 DEF TableHolds

-----------------------------------------------------------------------------
(* The circular list.                                                      *)

(* The j-th address, counted from lru_, in a list with the entries o.      *)
At(o, j) == IF j = 0 \/ j = Len(o) + 1 THEN lru_ ELSE o[j]

Linked(o, n, p) ==
  /\ o \in Seq(Handle)
  /\ \A a, b \in 1 .. Len(o) : o[a] = o[b] => a = b
  /\ n \in [Address -> Address] /\ p \in [Address -> Address]
  /\ \A j \in 0 .. Len(o) : n[At(o, j)] = At(o, j + 1) /\ p[At(o, j + 1)] = At(o, j)

(* The list has the entries of D.                                          *)
Lists(n, p, D) == \E o : Linked(o, n, p) /\ Range(o) = D

LEMMA AtIs ==
  ASSUME NEW o \in Seq(Handle), \A a, b \in 1 .. Len(o) : o[a] = o[b] => a = b
  PROVE  /\ \A j \in 0 .. Len(o) + 1 : At(o, j) \in Address
         /\ \A a, b \in 0 .. Len(o) : At(o, a) = At(o, b) => a = b
         /\ \A a, b \in 1 .. Len(o) + 1 : At(o, a) = At(o, b) => a = b
         /\ At(o, 0) = lru_ /\ At(o, Len(o) + 1) = lru_
         /\ \A j \in 1 .. Len(o) : At(o, j) = o[j] /\ o[j] \in Handle
<1>1. PICK l \in Nat : l = Len(o)
  OBVIOUS
<1>2. o \in [1 .. l -> Handle] /\ lru_ \notin Handle
  BY <1>1, CacheAssumption
<1>3. \A j \in 1 .. l : At(o, j) = o[j] /\ o[j] \in Handle
  BY <1>1, <1>2 DEF At
<1>4. At(o, 0) = lru_ /\ At(o, l + 1) = lru_
  BY <1>1 DEF At
<1>5. \A j \in 0 .. l + 1 : At(o, j) \in Address
  BY <1>1, <1>3, <1>4 DEF Address
<1>6. ASSUME NEW a \in 0 .. l, NEW b \in 0 .. l, At(o, a) = At(o, b) PROVE a = b
  <2>1. CASE a = 0 \/ b = 0
    BY <1>1, <1>2, <1>3, <1>4, <1>6, <2>1
  <2>2. CASE a # 0 /\ b # 0
    BY <1>1, <1>3, <1>6, <2>2
  <2> QED BY <2>1, <2>2
<1>7. ASSUME NEW a \in 1 .. l + 1, NEW b \in 1 .. l + 1, At(o, a) = At(o, b) PROVE a = b
  <2>1. CASE a = l + 1 \/ b = l + 1
    BY <1>1, <1>2, <1>3, <1>4, <1>7, <2>1
  <2>2. CASE a # l + 1 /\ b # l + 1
    BY <1>1, <1>3, <1>7, <2>2
  <2> QED BY <2>1, <2>2
<1> QED BY <1>1, <1>3, <1>4, <1>5, <1>6, <1>7

LEMMA ListRemove ==
  ASSUME NEW n, NEW p, NEW D, Lists(n, p, D), NEW e \in D
  PROVE  Lists(LRU_RemoveNext(n, p, e), LRU_RemovePrev(n, p, e), D \ {e})
<1>1. PICK o : Linked(o, n, p) /\ Range(o) = D
  BY DEF Lists
<1>2. o \in Seq(Handle) /\ \A a, b \in 1 .. Len(o) : o[a] = o[b] => a = b
  BY <1>1 DEF Linked
<1>3. PICK l \in Nat : l = Len(o)
  BY <1>2
<1>4. PICK m \in 1 .. l : o[m] = e
  BY <1>1, <1>2, <1>3, RangeIs
<1>5. /\ \A j \in 0 .. l + 1 : At(o, j) \in Address
      /\ \A a, b \in 0 .. l : At(o, a) = At(o, b) => a = b
      /\ \A a, b \in 1 .. l + 1 : At(o, a) = At(o, b) => a = b
      /\ At(o, 0) = lru_ /\ At(o, l + 1) = lru_
      /\ \A j \in 1 .. l : At(o, j) = o[j] /\ o[j] \in Handle
  BY <1>2, <1>3, AtIs
<1>6. \A j \in 0 .. l : n[At(o, j)] = At(o, j + 1) /\ p[At(o, j + 1)] = At(o, j)
  BY <1>1, <1>3 DEF Linked
<1>7. n[e] = At(o, m + 1) /\ p[e] = At(o, m - 1)
  <2>1. m \in 0 .. l /\ m - 1 \in 0 .. l /\ (m - 1) + 1 = m /\ At(o, m) = e
    BY <1>3, <1>4, <1>5
  <2> QED BY <1>6, <2>1
<1>8. PICK n2, p2 : n2 = LRU_RemoveNext(n, p, e) /\ p2 = LRU_RemovePrev(n, p, e)
  OBVIOUS
<1>9. m - 1 \in 0 .. l /\ m + 1 \in 1 .. l + 1 /\ m - 1 \in 0 .. l + 1 /\ m + 1 \in 0 .. l + 1
  BY <1>3, <1>4
<1>10. n \in [Address -> Address] /\ p \in [Address -> Address]
  BY <1>1 DEF Linked
<1>11. /\ n2 = [n EXCEPT ![At(o, m - 1)] = At(o, m + 1)]
       /\ p2 = [p EXCEPT ![At(o, m + 1)] = At(o, m - 1)]
  BY <1>7, <1>8 DEF LRU_RemoveNext, LRU_RemovePrev
<1>12. /\ n2 \in [Address -> Address] /\ p2 \in [Address -> Address]
       /\ \A a \in Address : n2[a] = IF a = At(o, m - 1) THEN At(o, m + 1) ELSE n[a]
       /\ \A a \in Address : p2[a] = IF a = At(o, m + 1) THEN At(o, m - 1) ELSE p[a]
  BY <1>5, <1>9, <1>10, <1>11
<1>13. PICK k \in Nat : k = l - 1
  BY <1>3, <1>4
<1>14. PICK d \in [1 .. k -> Handle] : d = [j \in 1 .. k |-> IF j < m THEN o[j] ELSE o[j + 1]]
  <2>1. \A j \in 1 .. k : j \in 1 .. l /\ j + 1 \in 1 .. l
    BY <1>3, <1>13
  <2>2. \A j \in 1 .. k : (IF j < m THEN o[j] ELSE o[j + 1]) \in Handle
    BY <1>5, <2>1
  <2> QED BY <2>2
<1>15. d \in Seq(Handle) /\ Len(d) = k
  BY <1>14
<1>16. \A j \in 0 .. k + 1 : /\ j < m => At(d, j) = At(o, j) /\ j \in 0 .. l
                             /\ ~(j < m) => At(d, j) = At(o, j + 1) /\ j + 1 \in 1 .. l + 1
  <2> TAKE j \in 0 .. k + 1
  <2>1. CASE j = 0
    BY <1>3, <1>4, <1>5, <2>1 DEF At
  <2>2. CASE j = k + 1
    <3>1. At(d, j) = lru_ /\ ~(j < m) /\ j + 1 = l + 1
      BY <1>3, <1>4, <1>13, <1>15, <2>2 DEF At
    <3> QED BY <1>3, <1>5, <3>1
  <2>3. CASE j # 0 /\ j # k + 1
    <3>1. j \in 1 .. k /\ At(d, j) = d[j]
      BY <1>13, <1>15, <2>3 DEF At
    <3>2. j \in 1 .. l /\ j + 1 \in 1 .. l
      BY <1>3, <1>13, <3>1
    <3> QED BY <1>5, <1>14, <3>1, <3>2
  <2> QED BY <2>1, <2>2, <2>3
<1>17. ASSUME NEW j \in 0 .. k
       PROVE  n2[At(d, j)] = At(d, j + 1) /\ p2[At(d, j + 1)] = At(d, j)
  <2>0. j \in 0 .. k + 1 /\ j + 1 \in 0 .. k + 1
    BY <1>13
  <2>1. CASE j + 1 < m
    <3>1. j < m /\ j \in 0 .. l /\ j # m - 1 /\ j + 1 \in 1 .. l + 1 /\ j + 1 # m + 1 /\ j \in 0 .. l + 1
          /\ j + 1 \in 0 .. l + 1
      BY <1>3, <1>4, <1>13, <2>1
    <3>2. At(d, j) = At(o, j) /\ At(d, j + 1) = At(o, j + 1)
      BY <1>16, <2>0, <2>1, <3>1
    <3>3. At(o, j) # At(o, m - 1) /\ At(o, j + 1) # At(o, m + 1)
      BY <1>5, <1>9, <3>1
    <3> QED BY <1>5, <1>6, <1>12, <3>1, <3>2, <3>3
  <2>2. CASE j + 1 = m
    <3>1. At(d, j) = At(o, m - 1) /\ At(d, j + 1) = At(o, m + 1)
      BY <1>4, <1>16, <2>0, <2>2
    <3> QED BY <1>5, <1>9, <1>12, <3>1
  <2>3. CASE ~(j + 1 < m) /\ j + 1 # m
    <3>1. ~(j < m) /\ j + 1 \in 0 .. l /\ j + 1 # m - 1 /\ (j + 1) + 1 \in 1 .. l + 1 /\ (j + 1) + 1 # m + 1
          /\ j + 1 \in 0 .. l + 1 /\ (j + 1) + 1 \in 0 .. l + 1
      BY <1>3, <1>4, <1>13, <2>3
    <3>2. At(d, j) = At(o, j + 1) /\ At(d, j + 1) = At(o, (j + 1) + 1)
      BY <1>16, <2>0, <2>3, <3>1
    <3>3. At(o, j + 1) # At(o, m - 1) /\ At(o, (j + 1) + 1) # At(o, m + 1)
      BY <1>5, <1>9, <3>1
    <3> QED BY <1>5, <1>6, <1>12, <3>1, <3>2, <3>3
  <2> QED BY <2>1, <2>2, <2>3
<1>18. \A j \in 1 .. k : /\ j < m => j \in 1 .. l /\ d[j] = o[j]
                         /\ ~(j < m) => j + 1 \in 1 .. l /\ d[j] = o[j + 1]
  BY <1>3, <1>13, <1>14
<1>19. \A a, b \in 1 .. k : d[a] = d[b] => a = b
  <2> TAKE a, b \in 1 .. k
  <2> HAVE d[a] = d[b]
  <2>1. PICK a2, b2 \in 1 .. l : /\ a2 = (IF a < m THEN a ELSE a + 1) /\ b2 = (IF b < m THEN b ELSE b + 1)
                                 /\ o[a2] = d[a] /\ o[b2] = d[b]
    BY <1>18
  <2>2. a2 = b2
    BY <1>2, <1>3, <2>1
  <2> QED BY <1>4, <2>1, <2>2
<1>20. Linked(d, n2, p2)
  BY <1>12, <1>15, <1>17, <1>19 DEF Linked
<1>21. Range(d) = D \ {e}
  <2>1. ASSUME NEW x \in Range(d) PROVE x \in D /\ x # e
    <3>1. PICK j \in 1 .. k : d[j] = x
      BY <1>15, RangeIs
    <3>2. PICK a \in 1 .. l : a # m /\ o[a] = x
      BY <1>4, <1>18, <3>1
    <3>3. x # e
      BY <1>2, <1>3, <1>4, <3>2
    <3> QED BY <1>1, <1>2, <1>3, <3>2, <3>3, RangeIs
  <2>2. ASSUME NEW x \in D, x # e PROVE x \in Range(d)
    <3>1. PICK a \in 1 .. l : o[a] = x
      BY <1>1, <1>2, <1>3, RangeIs
    <3>2. a # m
      BY <1>4, <2>2, <3>1
    <3>3. PICK j \in 1 .. k : j = IF a < m THEN a ELSE a - 1
      BY <1>3, <1>4, <1>13, <3>2
    <3>4. d[j] = x
      BY <1>4, <1>18, <3>1, <3>2, <3>3
    <3> QED BY <1>15, <3>3, <3>4, RangeIs
  <2> QED BY <2>1, <2>2
<1> QED BY <1>8, <1>20, <1>21 DEF Lists

LEMMA ListAppend ==
  ASSUME NEW n, NEW p, NEW D, Lists(n, p, D), NEW e \in Handle, e \notin D
  PROVE  Lists(LRU_AppendNext(n, p, e), LRU_AppendPrev(n, p, e), D \cup {e})
<1>1. PICK o : Linked(o, n, p) /\ Range(o) = D
  BY DEF Lists
<1>2. o \in Seq(Handle) /\ \A a, b \in 1 .. Len(o) : o[a] = o[b] => a = b
  BY <1>1 DEF Linked
<1>3. PICK l \in Nat : l = Len(o)
  BY <1>2
<1>4. /\ \A j \in 0 .. l + 1 : At(o, j) \in Address
      /\ \A a, b \in 0 .. l : At(o, a) = At(o, b) => a = b
      /\ \A a, b \in 1 .. l + 1 : At(o, a) = At(o, b) => a = b
      /\ At(o, 0) = lru_ /\ At(o, l + 1) = lru_
      /\ \A j \in 1 .. l : At(o, j) = o[j] /\ o[j] \in Handle
  BY <1>2, <1>3, AtIs
<1>5. \A j \in 0 .. l : n[At(o, j)] = At(o, j + 1) /\ p[At(o, j + 1)] = At(o, j)
  BY <1>1, <1>3 DEF Linked
<1>6. p[lru_] = At(o, l) /\ l \in 0 .. l /\ l \in 0 .. l + 1
  <2>1. l \in 0 .. l /\ l \in 0 .. l + 1
    BY <1>3
  <2> QED BY <1>4, <1>5, <2>1
<1>7. PICK n2, p2 : n2 = LRU_AppendNext(n, p, e) /\ p2 = LRU_AppendPrev(n, p, e)
  OBVIOUS
<1>8. n \in [Address -> Address] /\ p \in [Address -> Address] /\ e \in Address /\ lru_ \in Address /\ e # lru_
  BY <1>1, CacheAssumption DEF Linked, Address
<1>9. \A j \in 0 .. l + 1 : At(o, j) # e
  <2>1. \A j \in 1 .. l : o[j] # e
    BY <1>1, <1>2, <1>3, RangeIs
  <2> TAKE j \in 0 .. l + 1
  <2>2. j = 0 \/ j = l + 1 \/ j \in 1 .. l
    BY <1>3
  <2> QED BY <1>4, <1>8, <2>1, <2>2
<1>10. /\ n2 = [n EXCEPT ![e] = lru_, ![At(o, l)] = e]
       /\ p2 = [p EXCEPT ![e] = At(o, l), ![lru_] = e]
  BY <1>6, <1>7 DEF LRU_AppendNext, LRU_AppendPrev
<1>11. /\ n2 \in [Address -> Address] /\ p2 \in [Address -> Address]
       /\ \A a \in Address : n2[a] = IF a = At(o, l) THEN e ELSE IF a = e THEN lru_ ELSE n[a]
       /\ \A a \in Address : p2[a] = IF a = lru_ THEN e ELSE IF a = e THEN At(o, l) ELSE p[a]
  BY <1>4, <1>6, <1>8, <1>10
<1>12. PICK d : d = Append(o, e)
  OBVIOUS
<1>13. d \in Seq(Handle) /\ Len(d) = l + 1 /\ d[l + 1] = e /\ \A j \in 1 .. l : d[j] = o[j]
  BY <1>2, <1>3, <1>12
<1>14. /\ \A j \in 0 .. l : At(d, j) = At(o, j)
       /\ At(d, l + 1) = e /\ At(d, (l + 1) + 1) = lru_
  <2>1. At(d, l + 1) = e
    <3>1. l + 1 # 0 /\ l + 1 # (l + 1) + 1
      BY <1>3
    <3> QED BY <1>13, <3>1 DEF At
  <2>2. At(d, (l + 1) + 1) = lru_
    BY <1>13 DEF At
  <2>3. ASSUME NEW j \in 0 .. l PROVE At(d, j) = At(o, j)
    <3>1. CASE j = 0
      BY <3>1 DEF At
    <3>2. CASE j # 0
      <4>1. j \in 1 .. l /\ j # (l + 1) + 1
        BY <1>3, <3>2
      <4> QED BY <1>4, <1>13, <3>2, <4>1 DEF At
    <3> QED BY <3>1, <3>2
  <2> QED BY <2>1, <2>2, <2>3
<1>15. ASSUME NEW j \in 0 .. l + 1
       PROVE  n2[At(d, j)] = At(d, j + 1) /\ p2[At(d, j + 1)] = At(d, j)
  <2>1. CASE j = l + 1
    BY <1>6, <1>8, <1>9, <1>11, <1>14, <2>1
  <2>2. CASE j = l
    BY <1>4, <1>6, <1>8, <1>11, <1>14, <2>2
  <2>3. CASE j # l + 1 /\ j # l
    <3>1. j \in 0 .. l /\ j + 1 \in 0 .. l /\ j \in 0 .. l + 1 /\ j + 1 \in 0 .. l + 1 /\ j + 1 # 0
      BY <1>3, <2>3
    <3>2. At(d, j) = At(o, j) /\ At(d, j + 1) = At(o, j + 1)
      BY <1>14, <3>1
    <3>3. At(o, j) # At(o, l) /\ At(o, j) # e /\ At(o, j + 1) # e /\ At(o, j + 1) # lru_
      <4>1. 0 \in 0 .. l
        BY <1>3
      <4> QED BY <1>4, <1>6, <1>9, <2>3, <3>1, <4>1
    <3> QED BY <1>4, <1>5, <1>11, <3>1, <3>2, <3>3
  <2> QED BY <2>1, <2>2, <2>3
<1>16. \A a, b \in 1 .. l + 1 : d[a] = d[b] => a = b
  <2>1. \A a \in 1 .. l + 1 : a = l + 1 \/ a \in 1 .. l
    BY <1>3
  <2>2. \A a \in 1 .. l : o[a] # e
    BY <1>1, <1>2, <1>3, RangeIs
  <2> QED BY <1>2, <1>3, <1>13, <2>1, <2>2
<1>17. Linked(d, n2, p2)
  BY <1>11, <1>13, <1>15, <1>16 DEF Linked
<1>18. Range(d) = D \cup {e}
  <2>1. \A a \in 1 .. l + 1 : a = l + 1 \/ a \in 1 .. l
    BY <1>3
  <2>2. l + 1 \in 1 .. l + 1 /\ \A a \in 1 .. l : a \in 1 .. l + 1
    BY <1>3
  <2>3. \A x : x \in Range(d) <=> \E j \in 1 .. l + 1 : d[j] = x
    BY <1>13, RangeIs
  <2>4. \A x : x \in D <=> \E j \in 1 .. l : o[j] = x
    BY <1>1, <1>2, <1>3, RangeIs
  <2> QED BY <1>13, <2>1, <2>2, <2>3, <2>4
<1> QED BY <1>7, <1>17, <1>18 DEF Lists

-----------------------------------------------------------------------------
(* The charges.                                                            *)

(* u is the sum of the charges ch of the entries L: f sums any part of L.  *)
Total(ch, L, u) ==
  \E f \in [SUBSET L -> Nat] :
    /\ f[{}] = 0 /\ f[L] = u
    /\ \A S \in SUBSET L : \A e \in L \ S : f[S \cup {e}] = f[S] + ch[e]

LEMMA TotalAdd ==
  ASSUME NEW ch, NEW L, NEW u, Total(ch, L, u), NEW e, e \notin L, NEW c \in Nat,
         NEW cz, cz[e] = c, \A x \in L : cz[x] = ch[x] /\ ch[x] \in Nat
  PROVE  Total(cz, L \cup {e}, u + c)
<1>1. PICK f \in [SUBSET L -> Nat] :
        /\ f[{}] = 0 /\ f[L] = u
        /\ \A S \in SUBSET L : \A x \in L \ S : f[S \cup {x}] = f[S] + ch[x]
  BY DEF Total
<1>2. PICK M : M = L \cup {e}
  OBVIOUS
<1>3. \A S \in SUBSET M : S \ {e} \in SUBSET L /\ f[S \ {e}] \in Nat /\ f[S \ {e}] + c \in Nat
  <2> TAKE S \in SUBSET M
  <2>1. S \ {e} \in SUBSET L
    BY <1>2
  <2>2. f[S \ {e}] \in Nat
    BY <2>1
  <2> QED BY <2>1, <2>2
<1>4. PICK g : g = [S \in SUBSET M |-> IF e \in S THEN f[S \ {e}] + c ELSE f[S \ {e}]]
  OBVIOUS
<1>5. g \in [SUBSET M -> Nat]
  BY <1>3, <1>4
<1>6. \A S \in SUBSET M : g[S] = IF e \in S THEN f[S \ {e}] + c ELSE f[S \ {e}]
  BY <1>4
<1>7. g[{}] = 0
  <2>1. {} \in SUBSET M /\ {} \ {e} = {} /\ e \notin {}
    OBVIOUS
  <2> QED BY <1>1, <1>6, <2>1
<1>8. g[M] = u + c
  <2>1. M \in SUBSET M /\ M \ {e} = L /\ e \in M
    BY <1>2
  <2> QED BY <1>1, <1>6, <2>1
<1>9. ASSUME NEW S \in SUBSET M, NEW x \in M \ S PROVE g[S \cup {x}] = g[S] + cz[x]
  <2>1. S \cup {x} \in SUBSET M
    OBVIOUS
  <2>2. CASE x = e
    <3>1. e \in S \cup {x} /\ (S \cup {x}) \ {e} = S \ {e} /\ e \notin S
      BY <2>2
    <3>2. g[S \cup {x}] = f[S \ {e}] + c
      BY <1>6, <2>1, <3>1
    <3>3. g[S] = f[S \ {e}]
      BY <1>6, <3>1
    <3> QED BY <2>2, <3>2, <3>3
  <2>3. CASE x # e
    <3>1. PICK T \in SUBSET L : T = S \ {e}
      BY <1>3
    <3>2. (S \cup {x}) \ {e} = T \cup {x} /\ x \in L \ T /\ (e \in S \cup {x} <=> e \in S)
      BY <1>2, <2>3, <3>1
    <3>3. f[T \cup {x}] = f[T] + cz[x]
      BY <1>1, <3>2
    <3>4. f[T] \in Nat /\ f[T \cup {x}] \in Nat
      <4>1. T \cup {x} \in SUBSET L
        BY <3>2
      <4> QED BY <4>1
    <3>5. cz[x] \in Nat
      BY <3>2
    <3>6. g[S] = IF e \in S THEN f[T] + c ELSE f[T]
      BY <1>6, <3>1
    <3>7. g[S \cup {x}] = IF e \in S THEN f[T \cup {x}] + c ELSE f[T \cup {x}]
      BY <1>6, <2>1, <3>2
    <3> QED BY <3>3, <3>4, <3>5, <3>6, <3>7
  <2> QED BY <2>2, <2>3
<1>10. \A S \in SUBSET M : \A x \in M \ S : g[S \cup {x}] = g[S] + cz[x]
  BY <1>9
<1>11. PICK v : v = u + c
  OBVIOUS
<1>12. Total(cz, M, v)
  BY ONLY <1>5, <1>7, <1>8, <1>10, <1>11, Zenon DEF Total
<1> QED BY <1>2, <1>11, <1>12

LEMMA TotalRemove ==
  ASSUME NEW ch, NEW L, NEW u, Total(ch, L, u), NEW e \in L, ch[e] \in Nat
  PROVE  Total(ch, L \ {e}, u - ch[e]) /\ u - ch[e] \in Nat
<1>1. PICK f \in [SUBSET L -> Nat] :
        /\ f[{}] = 0 /\ f[L] = u
        /\ \A S \in SUBSET L : \A x \in L \ S : f[S \cup {x}] = f[S] + ch[x]
  BY DEF Total
<1>2. PICK M \in SUBSET L : M = L \ {e}
  OBVIOUS
<1>3. PICK g : g = [S \in SUBSET M |-> f[S]]
  OBVIOUS
<1>4. \A S \in SUBSET M : S \in SUBSET L /\ g[S] = f[S]
  BY <1>3
<1>5. g \in [SUBSET M -> Nat]
  BY <1>3, <1>4
<1>6. f[L] = f[M] + ch[e]
  <2>1. M \cup {e} = L /\ e \in L \ M
    BY <1>2
  <2> QED BY <1>1, <2>1
<1>7. f[M] \in Nat /\ g[M] = f[M] /\ g[{}] = f[{}]
  BY <1>4
<1>8. g[M] = u - ch[e]
  BY <1>1, <1>6, <1>7
<1>9. \A S \in SUBSET M : \A x \in M \ S : g[S \cup {x}] = g[S] + ch[x]
  <2> TAKE S \in SUBSET M
  <2> TAKE x \in M \ S
  <2>1. S \cup {x} \in SUBSET M /\ x \in L \ S
    OBVIOUS
  <2> QED BY <1>1, <1>4, <2>1
<1>10. PICK v : v = u - ch[e]
  OBVIOUS
<1>11. g[{}] = 0 /\ g[M] = v
  BY <1>1, <1>7, <1>8, <1>10
<1>12. Total(ch, M, v)
  BY ONLY <1>5, <1>9, <1>11, Zenon DEF Total
<1> QED BY <1>2, <1>5, <1>8, <1>10, <1>12

LEMMA TotalOfNone ==
  ASSUME NEW ch, NEW u, Total(ch, {}, u)
  PROVE  u = 0
BY DEF Total

-----------------------------------------------------------------------------
(* What the properties read of a table and of a list.                      *)

LEMMA ChainedIs ==
  ASSUME NEW t, NEW ky, NEW D, Chains(t, ky, D)
  PROVE  /\ DOMAIN t.list = Buckets(t)
         /\ UNION {Range(Chain(t, i)) : i \in DOMAIN t.list} = D
         /\ \A i \in DOMAIN t.list : \A e \in Range(Chain(t, i)) : hash[ky[e]] % Length(t) = i
<1>1. TableType(t)
  BY DEF Chains
<1>2. DOMAIN t.list = Buckets(t)
  BY <1>1 DEF TableType
<1>3. ASSUME NEW e \in D PROVE \E i \in Buckets(t) : e \in Range(Chain(t, i))
  <2>1. ky[e] \in Key /\ e \in Range(Chain(t, Bucket(t, ky[e])))
    BY DEF Chains
  <2> QED BY <1>1, <2>1, BucketIs
<1>4. ASSUME NEW i \in Buckets(t), NEW e \in Range(Chain(t, i))
      PROVE  e \in D /\ hash[ky[e]] % Length(t) = i
  <2>1. Chain(t, i) \in Seq(Handle)
    BY DEF Chains, IsChain
  <2>2. PICK j \in 1 .. Len(Chain(t, i)) : Chain(t, i)[j] = e
    BY <2>1, RangeIs
  <2> QED BY <2>2 DEF Chains, Bucket
<1> QED BY <1>2, <1>3, <1>4

LEMMA ListFirst ==
  ASSUME NEW n, NEW p, NEW D, Lists(n, p, D), n[lru_] # lru_
  PROVE  n[lru_] \in D
<1>1. PICK o : Linked(o, n, p) /\ Range(o) = D
  BY DEF Lists
<1>2. PICK l \in Nat : l = Len(o) /\ o \in Seq(Handle)
  BY <1>1 DEF Linked
<1>3. At(o, 0) = lru_ /\ 0 \in 0 .. l
  BY <1>2 DEF At
<1>4. n[lru_] = At(o, 0 + 1)
  BY <1>1, <1>2, <1>3 DEF Linked
<1>5. 1 \in 1 .. l /\ n[lru_] = o[1]
  BY <1>2, <1>4 DEF At
<1> QED BY <1>1, <1>2, <1>5, RangeIs

LEMMA ListNeighbours ==
  ASSUME NEW n, NEW p, NEW D, Lists(n, p, D), NEW nodes, nodes = D \cup {lru_}, NEW a \in nodes
  PROVE  /\ n[a] \in nodes /\ p[a] \in nodes
         /\ p[n[a]] = a /\ n[p[a]] = a
<1>1. PICK o : Linked(o, n, p) /\ Range(o) = D
  BY DEF Lists
<1>2. PICK l \in Nat : l = Len(o) /\ o \in Seq(Handle)
  BY <1>1 DEF Linked
<1>3. \A j \in 0 .. l : n[At(o, j)] = At(o, j + 1) /\ p[At(o, j + 1)] = At(o, j)
  BY <1>1, <1>2 DEF Linked
<1>4. \A j \in 0 .. l + 1 : At(o, j) \in nodes
  <2> TAKE j \in 0 .. l + 1
  <2>1. CASE j = 0 \/ j = l + 1
    BY <1>2, <2>1 DEF At
  <2>2. CASE j # 0 /\ j # l + 1
    <3>1. j \in 1 .. l /\ At(o, j) = o[j]
      BY <1>2, <2>2 DEF At
    <3> QED BY <1>1, <1>2, <3>1, RangeIs
  <2> QED BY <2>1, <2>2
<1>5. PICK i \in 0 .. l : At(o, i) = a
  <2>1. CASE a = lru_
    <3>1. At(o, 0) = lru_ /\ 0 \in 0 .. l
      BY <1>2 DEF At
    <3> QED BY <2>1, <3>1
  <2>2. CASE a \in D
    <3>1. PICK j \in 1 .. l : o[j] = a
      BY <1>1, <1>2, <2>2, RangeIs
    <3>2. j \in 0 .. l /\ At(o, j) = o[j]
      BY <1>2, <3>1 DEF At
    <3> QED BY <3>1, <3>2
  <2> QED BY <2>1, <2>2
<1>6. PICK k \in 0 .. l : At(o, k + 1) = a
  <2>1. CASE i = 0
    <3>1. At(o, l + 1) = lru_ /\ At(o, 0) = lru_ /\ l \in 0 .. l
      BY <1>2 DEF At
    <3> QED BY <1>5, <2>1, <3>1
  <2>2. CASE i # 0
    <3>1. i - 1 \in 0 .. l /\ (i - 1) + 1 = i
      BY <1>2, <2>2
    <3> QED BY <1>5, <3>1
  <2> QED BY <2>1, <2>2
<1>7. i + 1 \in 0 .. l + 1 /\ k \in 0 .. l + 1
  BY <1>2
<1> QED BY <1>3, <1>4, <1>5, <1>6, <1>7

-----------------------------------------------------------------------------
(* The inductive invariant.  D is the set of entries the cache itself      *)
(* refers to: the table and the list hold exactly these.                   *)

Counted(rf, hl, lv, D) ==
  \A e \in Handle :
    IF e \in lv THEN rf[e] = hl[e] + (IF e \in D THEN 1 ELSE 0) /\ rf[e] > 0
                ELSE hl[e] = 0 /\ e \notin D

Holds(D) ==
  TableHolds(table_, key, D) /\ Lists(next, prev, D) /\ Counted(refs, held, live, D)

(* The destructor has freed the first m - 1 entries of the list o.         *)
Freeing(o, m) ==
  /\ Linked(o, next, prev)
  /\ cur = At(o, m)
  /\ live = {o[j] : j \in m .. Len(o)}
  /\ \A e \in live : refs[e] = 1

CacheInv ==
  /\ TypeOK
  /\ Total(charge, live, usage_)
  /\ InUse => \E D : Holds(D)
  /\ mutex_ = "evict" => next[lru_] # lru_
  /\ mutex_ = "dtor" => \E o : \E m \in 1 .. Len(o) + 1 : Freeing(o, m)
  /\ mutex_ = "dead" => live = {}

LEMMA CacheInit == Init => CacheInv
<1> SUFFICES ASSUME Init PROVE CacheInv
  OBVIOUS
<1> USE DEF Init
<1>1. lru_ \in Address /\ \A h \in Handle : NULL \in Key \cup {NULL}
  BY DEF Address
<1>2. next \in [Address -> Address] /\ prev \in [Address -> Address]
  BY <1>1
<1>3. PICK list : list = EmptyList(InitialLength)
  OBVIOUS
<1>4. list \in [0 .. InitialLength - 1 -> Handle \cup {NULL}] /\ InitialLength \in Nat \ {0}
  BY <1>3, HashAssumption DEF EmptyList
<1>5. PICK nh \in [Handle -> Handle \cup {NULL}] : nh = [h \in Handle |-> NULL]
  OBVIOUS
<1>6. table_ = [list |-> list, next_hash |-> nh, elems |-> 0]
  BY <1>3, <1>5 DEF NewHandleTable
<1>7. table_.list = list /\ table_.next_hash = nh /\ table_.elems = 0
  BY <1>6
<1>8. Length(table_) = InitialLength
  <2>1. DOMAIN list = 0 .. InitialLength - 1
    BY <1>4
  <2> QED BY <1>4, <1>7, <2>1, LengthIs DEF Length
<1>9. TableType(table_)
  BY <1>4, <1>6, <1>7, <1>8 DEF TableType, Buckets
<1>10. TypeOK
  BY <1>1, <1>2, <1>7 DEF TypeOK
<1>11. Total(charge, live, usage_)
  <2>1. PICK f : f = [S \in SUBSET {} |-> 0]
    OBVIOUS
  <2>2. f \in [SUBSET {} -> Nat] /\ f[{}] = 0
    BY <2>1
  <2> QED BY <2>2 DEF Total
<1>12. TableHolds(table_, key, {})
  <2>1. table_ = [table_ EXCEPT !.list = EmptyList(InitialLength)]
    BY <1>3, <1>6
  <2>2. Chains(table_, key, {})
    BY <1>4, <1>9, <2>1, EmptyIs
  <2> QED BY <1>7, <2>2, FS_EmptySet DEF TableHolds, KeysDiffer
<1>13. Lists(next, prev, {})
  <2>1. PICK o : o = <<>>
    OBVIOUS
  <2>2. o \in Seq(Handle) /\ Len(o) = 0 /\ Range(o) = {}
    BY <2>1 DEF Range
  <2>3. \A j \in 0 .. 0 : next[At(o, j)] = At(o, j + 1) /\ prev[At(o, j + 1)] = At(o, j)
    BY <1>1, <2>2 DEF At
  <2>4. \A a, b \in 1 .. Len(o) : o[a] = o[b] => a = b
    BY <2>2
  <2>5. Linked(o, next, prev)
    BY <1>2, <2>2, <2>3, <2>4 DEF Linked
  <2> QED BY <2>2, <2>5 DEF Lists
<1>14. Counted(refs, held, live, {})
  BY DEF Counted
<1>15. Holds({})
  BY <1>12, <1>13, <1>14 DEF Holds
<1> QED BY <1>10, <1>11, <1>15 DEF CacheInv

(* Unref(e) of an entry e among the entries L with the charges ch.         *)
LEMMA UnrefTotal ==
  ASSUME NEW ch, NEW L, NEW u, Total(ch, L, u), NEW e \in L, ch[e] \in Nat, charge[e] = ch[e]
  PROVE  Total(ch, L \ Freed(e), u - Refund(e)) /\ u - Refund(e) \in Nat
<1>1. CASE refs[e] = 1
  BY <1>1, TotalRemove DEF Freed, Refund
<1>2. CASE refs[e] # 1
  <2>1. u \in Nat
    BY DEF Total
  <2>2. L \ Freed(e) = L /\ Refund(e) = 0
    BY <1>2 DEF Freed, Refund
  <2>3. u - Refund(e) = u
    BY <2>1, <2>2
  <2> QED BY <2>1, <2>2, <2>3
<1> QED BY <1>1, <1>2

LEMMA UnrefIs ==
  ASSUME TypeOK, Total(charge, live, usage_), NEW e \in live, refs[e] > 0, Unref(e),
         UNCHANGED charge
  PROVE  /\ refs' \in [Handle -> Nat] /\ live' \subseteq Handle /\ usage_' \in Nat
         /\ \A x \in Handle : refs'[x] = IF x = e THEN refs[x] - 1 ELSE refs[x]
         /\ \A x \in Handle : x \in live' <=> x \in live /\ (x = e => refs[e] # 1)
         /\ Total(charge, live, usage_)'
<1>1. e \in Handle /\ charge[e] \in Nat /\ refs \in [Handle -> Nat]
  BY DEF TypeOK
<1>2. Total(charge, live \ Freed(e), usage_ - Refund(e)) /\ usage_ - Refund(e) \in Nat
  BY <1>1, UnrefTotal
<1>3. Total(charge, live, usage_)' /\ usage_' \in Nat
  BY <1>2 DEF Unref
<1>4. refs' = [refs EXCEPT ![e] = @ - 1] /\ refs[e] - 1 \in Nat
  BY <1>1 DEF Unref
<1>5. /\ refs' \in [Handle -> Nat]
      /\ \A x \in Handle : refs'[x] = IF x = e THEN refs[x] - 1 ELSE refs[x]
  BY <1>1, <1>4
<1>6. /\ live' \subseteq Handle
      /\ \A x \in Handle : x \in live' <=> x \in live /\ (x = e => refs[e] # 1)
  BY DEF TypeOK, Unref, Freed
<1> QED BY <1>3, <1>5, <1>6

(* The mutex is given back, or the eviction loop has an entry to take.     *)
LEMMA LoopIs ==
  ASSUME EvictOrReturn
  PROVE  /\ mutex_' \in {"free", "evict"}
         /\ mutex_' = "evict" => next'[lru_] # lru_
BY DEF EvictOrReturn

LEMMA ListType ==
  ASSUME NEW n, NEW p, NEW D, Lists(n, p, D)
  PROVE  n \in [Address -> Address] /\ p \in [Address -> Address]
BY DEF Lists, Linked

(* The steps that leave the cache in use.                                  *)
LEMMA InUseStep ==
  ASSUME CacheInv, NEW D, Holds(D)',
         key' \in [Handle -> Key \cup {NULL}], charge' \in [Handle -> Nat],
         refs' \in [Handle -> Nat], held' \in [Handle -> Nat],
         live' \subseteq Handle, usage_' \in Nat, UNCHANGED cur,
         Total(charge, live, usage_)',
         mutex_' \in {"free", "evict"}, mutex_' = "evict" => next'[lru_] # lru_
  PROVE  CacheInv'
<1>1. next' \in [Address -> Address] /\ prev' \in [Address -> Address]
  BY ListType DEF Holds
<1>2. table_'.next_hash \in [Handle -> Handle \cup {NULL}]
  BY DEF Holds, TableHolds, Chains, TableType
<1>3. TypeOK'
  BY <1>1, <1>2 DEF CacheInv, TypeOK
<1>4. mutex_' # "dtor" /\ mutex_' # "dead"
  OBVIOUS
<1> QED BY <1>3, <1>4 DEF CacheInv

LEMMA InsertStep ==
  ASSUME CacheInv, NEW k \in Key, NEW c \in Charge, Insert(k, c)
  PROVE  CacheInv'
<1>1. PICK D : Holds(D)
  BY DEF CacheInv, Insert, InUse
<1>0. PICK old : old = TableLookup(table_, key, k)
  OBVIOUS
<1>2. PICK e \in Handle \ live :
        /\ key' = [key EXCEPT ![e] = k]
        /\ charge' = [charge EXCEPT ![e] = c]
        /\ held' = [held EXCEPT ![e] = 1]
        /\ table_' = TableInsert(table_, key', e)
        /\ old = NULL =>
             /\ next' = LRU_AppendNext(next, prev, e) /\ prev' = LRU_AppendPrev(next, prev, e)
             /\ refs' = [refs EXCEPT ![e] = 2]
             /\ live' = live \cup {e}
             /\ usage_' = usage_ + c
        /\ old # NULL =>
             /\ next' = LRU_RemoveNext(LRU_AppendNext(next, prev, e), LRU_AppendPrev(next, prev, e), old)
             /\ prev' = LRU_RemovePrev(LRU_AppendNext(next, prev, e), LRU_AppendPrev(next, prev, e), old)
             /\ refs' = [refs EXCEPT ![e] = 2, ![old] = @ - 1]
             /\ live' = (live \cup {e}) \ Freed(old)
             /\ usage_' = usage_ + c - Refund(old)
  BY <1>0 DEF Insert
<1>3. /\ key \in [Handle -> Key \cup {NULL}] /\ charge \in [Handle -> Nat]
      /\ refs \in [Handle -> Nat] /\ held \in [Handle -> Nat]
      /\ live \subseteq Handle /\ usage_ \in Nat /\ c \in Nat
  BY CacheAssumption DEF CacheInv, TypeOK
<1>4. /\ TableHolds(table_, key, D) /\ Lists(next, prev, D) /\ Counted(refs, held, live, D)
      /\ D \subseteq Handle
  BY <1>1 DEF Holds, TableHolds, Chains
<1>5. D \subseteq live /\ e \notin D
  BY <1>2, <1>4 DEF Counted
<1>6. key' \in [Handle -> Key \cup {NULL}] /\ key'[e] = k /\ \A x \in D : key'[x] = key[x]
  BY <1>2, <1>3, <1>4, <1>5
<1>7. /\ charge' \in [Handle -> Nat] /\ charge'[e] = c /\ \A x \in live : charge'[x] = charge[x]
      /\ held' \in [Handle -> Nat] /\ held'[e] = 1 /\ \A x \in Handle : x # e => held'[x] = held[x]
  BY <1>2, <1>3
<1>8. TableHolds(table_, key', D)
  <2>1. table_ = [list |-> table_.list, next_hash |-> table_.next_hash, elems |-> table_.elems]
    BY <1>4 DEF TableHolds, Chains, TableType
  <2>2. Chains(table_, key', D)
    BY <1>4, <1>6, <2>1, SameChains DEF TableHolds
  <2> QED BY <1>4, <1>6, <2>2 DEF TableHolds, KeysDiffer
<1>9. old = TableLookup(table_, key', key'[e])
  <2>1. PICK new : new = TableLookup(table_, key', k)
    OBVIOUS
  <2>2. IF new = NULL THEN \A x \in D : key'[x] # k ELSE new \in D /\ key'[new] = k
    BY <1>8, <2>1, LookupIs
  <2>3. IF old = NULL THEN \A x \in D : key[x] # k ELSE old \in D /\ key[old] = k
    BY <1>0, <1>4, LookupIs
  <2>4. new = old
    BY <1>4, <1>6, <2>2, <2>3 DEF TableHolds, KeysDiffer
  <2> QED BY <1>6, <2>1, <2>4
<1>10. PICK D2 : D2 = (D \ {old}) \cup {e}
  OBVIOUS
<1>11. TableHolds(table_, key, D2)'
  <2>1. TableHolds(TableInsert(table_, key', e), key', D2)
    BY <1>5, <1>6, <1>8, <1>9, <1>10, InsertIs
  <2> QED BY <1>2, <2>1
<1>12. Total(charge', live \cup {e}, usage_ + c)
  BY <1>2, <1>3, <1>7, TotalAdd DEF CacheInv
<1>13. PICK n, p : n = LRU_AppendNext(next, prev, e) /\ p = LRU_AppendPrev(next, prev, e)
  OBVIOUS
<1>14. Lists(n, p, D \cup {e})
  BY <1>4, <1>5, <1>13, ListAppend
<1>15. mutex_' \in {"free", "evict"} /\ (mutex_' = "evict" => next'[lru_] # lru_) /\ UNCHANGED cur
  BY LoopIs DEF Insert
<1>16. CASE old = NULL
  <2>1. D2 = D \cup {e}
    BY <1>4, <1>10, <1>16, HashAssumption
  <2>2. Lists(next, prev, D2)'
    BY <1>2, <1>13, <1>14, <1>16, <2>1
  <2>3. refs' \in [Handle -> Nat] /\ refs'[e] = 2 /\ \A x \in Handle : x # e => refs'[x] = refs[x]
    BY <1>2, <1>3, <1>16
  <2>4. live' \subseteq Handle /\ live' = live \cup {e}
    BY <1>2, <1>3, <1>16
  <2>5. Counted(refs, held, live, D2)'
    <3> SUFFICES ASSUME NEW x \in Handle
                 PROVE  IF x \in live' THEN refs'[x] = held'[x] + (IF x \in D2 THEN 1 ELSE 0) /\ refs'[x] > 0
                                       ELSE held'[x] = 0 /\ x \notin D2
      BY DEF Counted
    <3>1. CASE x = e
      BY <1>7, <2>1, <2>3, <2>4, <3>1
    <3>2. CASE x # e
      BY <1>4, <1>7, <2>1, <2>3, <2>4, <3>2 DEF Counted
    <3> QED BY <3>1, <3>2
  <2>6. Holds(D2)'
    BY <1>11, <2>2, <2>5 DEF Holds
  <2>7. Total(charge, live, usage_)' /\ usage_' \in Nat
    <3>1. live' = live \cup {e} /\ usage_' = usage_ + c /\ usage_ + c \in Nat
      BY <1>2, <1>3, <1>16
    <3> QED BY ONLY <1>12, <3>1
  <2> QED BY <1>6, <1>7, <1>15, <2>3, <2>4, <2>6, <2>7, InUseStep
<1>17. CASE old # NULL
  <2>1. old \in D /\ old \in live /\ old # e
    BY <1>0, <1>2, <1>4, <1>5, <1>17, LookupIs
  <2>2. D2 = (D \cup {e}) \ {old} /\ old \in D \cup {e}
    BY <1>10, <2>1
  <2>3. Lists(next, prev, D2)'
    <3>1. Lists(LRU_RemoveNext(n, p, old), LRU_RemovePrev(n, p, old), D2)
      BY <1>14, <2>2, ListRemove
    <3> QED BY <1>2, <1>13, <1>17, <3>1
  <2>4. refs[old] = held[old] + 1
    BY <1>3, <1>4, <2>1 DEF Counted
  <2>5. refs[old] - 1 \in Nat
    BY <1>3, <2>1, <2>4
  <2>6. /\ refs' \in [Handle -> Nat] /\ refs'[e] = 2 /\ refs'[old] = refs[old] - 1
        /\ \A x \in Handle : x # e /\ x # old => refs'[x] = refs[x]
    BY <1>2, <1>3, <1>17, <2>1, <2>5
  <2>7. /\ live' \subseteq Handle
        /\ \A x : x \in live' <=> (x \in live \/ x = e) /\ (x = old => refs[old] # 1)
    BY <1>2, <1>3, <1>17, <2>1 DEF Freed
  <2>8. Counted(refs, held, live, D2)'
    <3> SUFFICES ASSUME NEW x \in Handle
                 PROVE  IF x \in live' THEN refs'[x] = held'[x] + (IF x \in D2 THEN 1 ELSE 0) /\ refs'[x] > 0
                                       ELSE held'[x] = 0 /\ x \notin D2
      BY DEF Counted
    <3>1. CASE x = e
      BY <1>7, <2>1, <2>2, <2>6, <2>7, <3>1
    <3>2. CASE x = old
      BY <1>3, <1>7, <2>1, <2>2, <2>4, <2>6, <2>7, <3>2
    <3>3. CASE x # e /\ x # old
      BY <1>4, <1>7, <2>2, <2>6, <2>7, <3>3 DEF Counted
    <3> QED BY <3>1, <3>2, <3>3
  <2>9. Holds(D2)'
    BY <1>11, <2>3, <2>8 DEF Holds
  <2>10. Total(charge, live, usage_)' /\ usage_' \in Nat
    <3>1. charge[old] = charge'[old] /\ charge'[old] \in Nat /\ old \in live \cup {e}
      BY <1>3, <1>7, <2>1
    <3>2. PICK ch : ch = charge'
      OBVIOUS
    <3>3. /\ Total(ch, (live \cup {e}) \ Freed(old), (usage_ + c) - Refund(old))
          /\ (usage_ + c) - Refund(old) \in Nat
      BY <1>12, <3>1, <3>2, UnrefTotal
    <3>4. live' = (live \cup {e}) \ Freed(old) /\ usage_' = usage_ + (c - Refund(old))
      BY <1>2, <1>17
    <3>5. Refund(old) \in Nat
      BY <1>3, <2>1 DEF Refund
    <3>6. usage_' = (usage_ + c) - Refund(old)
      BY <1>3, <3>4, <3>5
    <3> QED BY ONLY <3>2, <3>3, <3>4, <3>6
  <2> QED BY <1>6, <1>7, <1>15, <2>6, <2>7, <2>9, <2>10, InUseStep
<1> QED BY <1>16, <1>17

(* Erase() and a round of the eviction loop: e leaves the table and the    *)
(* list and the cache gives its reference back.                            *)
LEMMA DropStep ==
  ASSUME CacheInv, NEW D, Holds(D), NEW e \in D,
         LRU_Remove(e), table_' = TableRemove(table_, key, key[e]), Unref(e),
         UNCHANGED <<entryVars, held, cur>>,
         mutex_' \in {"free", "evict"}, mutex_' = "evict" => next'[lru_] # lru_
  PROVE  CacheInv'
<1>1. /\ TableHolds(table_, key, D) /\ Lists(next, prev, D) /\ Counted(refs, held, live, D)
      /\ D \subseteq Handle
  BY DEF Holds, TableHolds, Chains
<1>2. /\ key \in [Handle -> Key \cup {NULL}] /\ charge \in [Handle -> Nat]
      /\ refs \in [Handle -> Nat] /\ held \in [Handle -> Nat] /\ TypeOK
      /\ UNCHANGED <<key, charge, held, cur>>
  BY DEF CacheInv, TypeOK, entryVars
<1>3. e \in live /\ refs[e] = held[e] + 1 /\ refs[e] > 0
  BY <1>1 DEF Counted
<1>4. /\ refs' \in [Handle -> Nat] /\ live' \subseteq Handle /\ usage_' \in Nat
      /\ \A x \in Handle : refs'[x] = IF x = e THEN refs[x] - 1 ELSE refs[x]
      /\ \A x \in Handle : x \in live' <=> x \in live /\ (x = e => refs[e] # 1)
      /\ Total(charge, live, usage_)'
  BY <1>2, <1>3, UnrefIs DEF CacheInv
<1>5. PICK D2 : D2 = D \ {e}
  OBVIOUS
<1>6. TableHolds(table_, key, D2)'
  <2>1. TableHolds(TableRemove(table_, key, key[e]), key, D2)
    BY <1>1, <1>5, RemoveIs
  <2> QED BY <1>2, <2>1
<1>7. Lists(next, prev, D2)'
  <2>1. Lists(LRU_RemoveNext(next, prev, e), LRU_RemovePrev(next, prev, e), D2)
    BY <1>1, <1>5, ListRemove
  <2> QED BY <2>1 DEF LRU_Remove
<1>8. Counted(refs, held, live, D2)'
  <2> SUFFICES ASSUME NEW x \in Handle
               PROVE  IF x \in live' THEN refs'[x] = held'[x] + (IF x \in D2 THEN 1 ELSE 0) /\ refs'[x] > 0
                                     ELSE held'[x] = 0 /\ x \notin D2
    BY DEF Counted
  <2>1. CASE x = e
    BY <1>2, <1>3, <1>4, <1>5, <2>1
  <2>2. CASE x # e
    BY <1>1, <1>2, <1>4, <1>5, <2>2 DEF Counted
  <2> QED BY <2>1, <2>2
<1>9. Holds(D2)'
  BY <1>6, <1>7, <1>8 DEF Holds
<1> QED BY <1>2, <1>4, <1>9, InUseStep

LEMMA EvictStep ==
  ASSUME CacheInv, EvictRound
  PROVE  CacheInv'
<1>1. PICK D : Holds(D)
  BY DEF CacheInv, EvictRound, InUse
<1>2. PICK old : old = next[lru_]
  OBVIOUS
<1>3. old \in D
  BY <1>1, <1>2, ListFirst DEF CacheInv, EvictRound, Holds
<1>4. mutex_' \in {"free", "evict"} /\ (mutex_' = "evict" => next'[lru_] # lru_)
  BY LoopIs DEF EvictRound
<1>5. /\ LRU_Remove(old) /\ table_' = TableRemove(table_, key, key[old]) /\ Unref(old)
      /\ UNCHANGED <<entryVars, held, cur>>
  BY <1>2 DEF EvictRound
<1> QED BY <1>1, <1>3, <1>4, <1>5, DropStep

LEMMA EraseStep ==
  ASSUME CacheInv, NEW k \in Key, Erase(k)
  PROVE  CacheInv'
<1>1. PICK D : Holds(D)
  BY DEF CacheInv, Erase, InUse
<1>2. PICK e : e = TableLookup(table_, key, k)
  OBVIOUS
<1>3. /\ e # NULL /\ mutex_ = "free" /\ LRU_Remove(e) /\ table_' = TableRemove(table_, key, k)
      /\ Unref(e) /\ UNCHANGED <<entryVars, held, mutex_, cur>>
  BY <1>2 DEF Erase
<1>4. e \in D /\ key[e] = k
  BY <1>1, <1>2, <1>3, LookupIs DEF Holds
<1> QED BY <1>1, <1>3, <1>4, DropStep

LEMMA LookupStep ==
  ASSUME CacheInv, NEW k \in Key, Lookup(k)
  PROVE  CacheInv'
<1>1. PICK D : Holds(D)
  BY DEF CacheInv, Lookup, InUse
<1>2. PICK e : e = TableLookup(table_, key, k)
  OBVIOUS
<1>3. /\ e # NULL /\ mutex_ = "free" /\ LRU_MoveToEnd(e)
      /\ refs' = [refs EXCEPT ![e] = @ + 1] /\ held' = [held EXCEPT ![e] = @ + 1]
      /\ UNCHANGED <<key, charge, live, table_, usage_, mutex_, cur>>
  BY <1>2 DEF Lookup, entryVars
<1>4. /\ TableHolds(table_, key, D) /\ Lists(next, prev, D) /\ Counted(refs, held, live, D)
      /\ D \subseteq Handle
  BY <1>1 DEF Holds, TableHolds, Chains
<1>5. e \in D
  BY <1>2, <1>3, <1>4, LookupIs
<1>6. /\ key \in [Handle -> Key \cup {NULL}] /\ charge \in [Handle -> Nat]
      /\ refs \in [Handle -> Nat] /\ held \in [Handle -> Nat]
      /\ live \subseteq Handle /\ usage_ \in Nat
  BY DEF CacheInv, TypeOK
<1>7. /\ refs' \in [Handle -> Nat] /\ held' \in [Handle -> Nat]
      /\ \A x \in Handle : refs'[x] = IF x = e THEN refs[x] + 1 ELSE refs[x]
      /\ \A x \in Handle : held'[x] = IF x = e THEN held[x] + 1 ELSE held[x]
  BY <1>3, <1>4, <1>5, <1>6
<1>8. Lists(next, prev, D)'
  <2>1. PICK n, p : n = LRU_RemoveNext(next, prev, e) /\ p = LRU_RemovePrev(next, prev, e)
    OBVIOUS
  <2>2. Lists(n, p, D \ {e})
    BY <1>4, <1>5, <2>1, ListRemove
  <2>3. PICK E : E = D \ {e}
    OBVIOUS
  <2>4. Lists(LRU_AppendNext(n, p, e), LRU_AppendPrev(n, p, e), E \cup {e})
    BY <1>4, <1>5, <2>2, <2>3, ListAppend
  <2>5. E \cup {e} = D
    BY <1>5, <2>3
  <2> QED BY <1>3, <2>1, <2>4, <2>5 DEF LRU_MoveToEnd
<1>9. Counted(refs, held, live, D)'
  <2> SUFFICES ASSUME NEW x \in Handle
               PROVE  IF x \in live THEN refs'[x] = held'[x] + (IF x \in D THEN 1 ELSE 0) /\ refs'[x] > 0
                                    ELSE held'[x] = 0 /\ x \notin D
    BY <1>3 DEF Counted
  <2>1. x = e => x \in live
    BY <1>4, <1>5 DEF Counted
  <2> QED BY <1>4, <1>6, <1>7, <2>1 DEF Counted
<1>10. Holds(D)'
  BY <1>3, <1>4, <1>8, <1>9 DEF Holds
<1>11. Total(charge, live, usage_)'
  BY <1>3 DEF CacheInv
<1> QED BY <1>3, <1>6, <1>7, <1>10, <1>11, InUseStep

LEMMA ReleaseStep ==
  ASSUME CacheInv, NEW e \in Handle, Release(e)
  PROVE  CacheInv'
<1>1. PICK D : Holds(D)
  BY DEF CacheInv, Release, InUse
<1>2. /\ mutex_ = "free" /\ held[e] > 0 /\ held' = [held EXCEPT ![e] = @ - 1] /\ Unref(e)
      /\ UNCHANGED <<key, charge, next, prev, table_, mutex_, cur>>
  BY DEF Release, entryVars
<1>3. /\ TableHolds(table_, key, D) /\ Lists(next, prev, D) /\ Counted(refs, held, live, D)
  BY <1>1 DEF Holds
<1>4. /\ key \in [Handle -> Key \cup {NULL}] /\ charge \in [Handle -> Nat]
      /\ refs \in [Handle -> Nat] /\ held \in [Handle -> Nat] /\ TypeOK
  BY DEF CacheInv, TypeOK
<1>5. e \in live /\ refs[e] > 0
  BY <1>2, <1>3, <1>4 DEF Counted
<1>6. /\ refs' \in [Handle -> Nat] /\ live' \subseteq Handle /\ usage_' \in Nat
      /\ \A x \in Handle : refs'[x] = IF x = e THEN refs[x] - 1 ELSE refs[x]
      /\ \A x \in Handle : x \in live' <=> x \in live /\ (x = e => refs[e] # 1)
      /\ Total(charge, live, usage_)'
  BY <1>2, <1>4, <1>5, UnrefIs DEF CacheInv
<1>7. held[e] - 1 \in Nat
  BY <1>2, <1>4
<1>8. /\ held' \in [Handle -> Nat]
      /\ \A x \in Handle : held'[x] = IF x = e THEN held[x] - 1 ELSE held[x]
  BY <1>2, <1>4, <1>7
<1>9. Counted(refs, held, live, D)'
  <2> SUFFICES ASSUME NEW x \in Handle
               PROVE  IF x \in live' THEN refs'[x] = held'[x] + (IF x \in D THEN 1 ELSE 0) /\ refs'[x] > 0
                                     ELSE held'[x] = 0 /\ x \notin D
    BY DEF Counted
  <2>1. CASE x = e
    <3>1. refs[e] = held[e] + (IF e \in D THEN 1 ELSE 0) /\ refs[e] \in Nat /\ held[e] \in Nat
      BY <1>3, <1>4, <1>5 DEF Counted
    <3> QED BY <1>2, <1>5, <1>6, <1>8, <2>1, <3>1
  <2>2. CASE x # e
    BY <1>3, <1>6, <1>8, <2>2 DEF Counted
  <2> QED BY <2>1, <2>2
<1>10. Holds(D)'
  BY <1>2, <1>3, <1>9 DEF Holds
<1> QED BY <1>2, <1>4, <1>6, <1>8, <1>10, InUseStep

(* No handle is held: every entry alive is in the list, with one           *)
(* reference.                                                              *)
LEMMA StartDestroyStep ==
  ASSUME CacheInv, StartDestroy
  PROVE  CacheInv'
<1>1. PICK D : Holds(D)
  BY DEF CacheInv, StartDestroy, InUse
<1>2. /\ \A e \in Handle : held[e] = 0
      /\ mutex_' = "dtor" /\ cur' = next[lru_]
      /\ UNCHANGED <<key, charge, refs, next, prev, live, table_, usage_, held>>
  BY DEF StartDestroy, entryVars
<1>3. PICK o : Linked(o, next, prev) /\ Range(o) = D
  BY <1>1 DEF Holds, Lists
<1>4. PICK l \in Nat : l = Len(o) /\ o \in Seq(Handle)
  BY <1>3 DEF Linked
<1>5. cur' = At(o, 1) /\ cur' \in Address
  <2>1. At(o, 0) = lru_ /\ 0 \in 0 .. l /\ 0 + 1 = 1
    BY <1>4 DEF At
  <2>2. next[lru_] \in Address
    BY DEF CacheInv, TypeOK, Address
  <2> QED BY <1>2, <1>3, <1>4, <2>1, <2>2 DEF Linked
<1>6. \A e \in Handle : IF e \in live THEN e \in D /\ refs[e] = 1 ELSE e \notin D
  BY <1>1, <1>2 DEF Holds, Counted
<1>7. live = D
  BY <1>1, <1>6 DEF Holds, TableHolds, Chains, CacheInv, TypeOK
<1>8. live = {o[j] : j \in 1 .. l}
  BY <1>3, <1>4, <1>7, RangeIs
<1>9. \A e \in live : refs[e] = 1
  BY <1>6 DEF CacheInv, TypeOK
<1>10. Freeing(o, 1)' /\ 1 \in 1 .. Len(o) + 1
  BY <1>2, <1>3, <1>4, <1>5, <1>8, <1>9 DEF Freeing
<1>11. TypeOK'
  BY <1>2, <1>5 DEF CacheInv, TypeOK
<1>12. Total(charge, live, usage_)'
  BY <1>2 DEF CacheInv
<1> QED BY <1>2, <1>10, <1>11, <1>12 DEF CacheInv, InUse

LEMMA DestroyStep ==
  ASSUME CacheInv, DestroyRound
  PROVE  CacheInv'
<1>1. PICK o : \E m \in 1 .. Len(o) + 1 : Freeing(o, m)
  BY DEF CacheInv, DestroyRound
<1>2. PICK l \in Nat : l = Len(o) /\ o \in Seq(Handle)
  BY <1>1 DEF Freeing, Linked
<1>3. PICK m \in 1 .. l + 1 : Freeing(o, m)
  BY <1>1, <1>2
<1>4. /\ cur # lru_ /\ mutex_' = "dtor" /\ cur' = next[cur] /\ Unref(cur)
      /\ UNCHANGED <<key, charge, next, prev, table_, held>>
  BY DEF DestroyRound, entryVars
<1>5. m \in 1 .. l /\ cur = o[m] /\ m \in m .. l
  BY <1>2, <1>3, <1>4 DEF Freeing, At
<1>6. cur \in live /\ refs[cur] = 1
  BY <1>2, <1>3, <1>5 DEF Freeing
<1>7. TypeOK /\ Total(charge, live, usage_)
  BY DEF CacheInv
<1>8. PICK e : e = cur
  OBVIOUS
<1>9. /\ refs' \in [Handle -> Nat] /\ live' \subseteq Handle /\ usage_' \in Nat
      /\ \A x \in Handle : refs'[x] = IF x = e THEN refs[x] - 1 ELSE refs[x]
      /\ \A x \in Handle : x \in live' <=> x \in live /\ (x = e => refs[e] # 1)
      /\ Total(charge, live, usage_)'
  BY <1>4, <1>6, <1>7, <1>8, UnrefIs
<1>10. live' = live \ {e}
  BY <1>6, <1>7, <1>8, <1>9 DEF TypeOK
<1>11. \A a, b \in 1 .. l : o[a] = o[b] => a = b
  BY <1>2, <1>3 DEF Freeing, Linked
<1>12. live = {o[j] : j \in m .. l}
  BY <1>2, <1>3 DEF Freeing
<1>13. live' = {o[j] : j \in m + 1 .. l}
  <2>1. \A j \in m .. l : j \in 1 .. l /\ (j = m \/ j \in m + 1 .. l)
    BY <1>2, <1>5
  <2>2. \A j \in m + 1 .. l : j \in m .. l /\ j \in 1 .. l /\ j # m
    BY <1>2, <1>5
  <2>3. ASSUME NEW x \in live' PROVE x \in {o[j] : j \in m + 1 .. l}
    BY <1>5, <1>8, <1>10, <1>12, <2>1
  <2>4. ASSUME NEW j \in m + 1 .. l PROVE o[j] \in live'
    BY <1>5, <1>8, <1>10, <1>11, <1>12, <2>2
  <2> QED BY <2>3, <2>4
<1>14. cur' = At(o, m + 1) /\ m + 1 \in 1 .. l + 1
  <2>1. m \in 0 .. l /\ At(o, m) = cur /\ m + 1 \in 1 .. l + 1
    BY <1>2, <1>3, <1>5 DEF Freeing
  <2> QED BY <1>2, <1>3, <1>4, <2>1 DEF Freeing, Linked
<1>15. \A x \in live' : refs'[x] = 1
  BY <1>3, <1>7, <1>9, <1>10 DEF Freeing, TypeOK
<1>16. Linked(o, next, prev)'
  BY <1>3, <1>4 DEF Freeing
<1>17. Freeing(o, m + 1)'
  BY <1>2, <1>13, <1>14, <1>15, <1>16 DEF Freeing
<1>18. \E k \in 1 .. Len(o) + 1 : Freeing(o, k)'
  BY <1>2, <1>14, <1>17
<1>19. TypeOK'
  <2>1. cur' \in Address
    BY <1>4, <1>6, <1>7 DEF TypeOK, Address
  <2> QED BY <1>4, <1>7, <1>9, <2>1 DEF TypeOK
<1> QED BY <1>4, <1>9, <1>18, <1>19 DEF CacheInv, InUse

LEMMA DestroyedStep ==
  ASSUME CacheInv, Destroyed
  PROVE  CacheInv'
<1>1. PICK o : \E m \in 1 .. Len(o) + 1 : Freeing(o, m)
  BY DEF CacheInv, Destroyed
<1>2. PICK l \in Nat : l = Len(o) /\ o \in Seq(Handle)
  BY <1>1 DEF Freeing, Linked
<1>3. PICK m \in 1 .. l + 1 : Freeing(o, m)
  BY <1>1, <1>2
<1>4. /\ cur = lru_ /\ mutex_' = "dead"
      /\ UNCHANGED <<key, charge, refs, next, prev, live, table_, usage_, held, cur>>
  BY DEF Destroyed, entryVars
<1>5. m = l + 1
  <2> SUFFICES ASSUME m # l + 1 PROVE FALSE
    OBVIOUS
  <2>1. m \in 1 .. l
    BY <1>2
  <2>2. cur = o[m] /\ o[m] \in Handle
    BY <1>2, <1>3, <2>1 DEF Freeing, At
  <2> QED BY <1>4, <2>2, CacheAssumption
<1>6. live = {}
  BY <1>2, <1>3, <1>5 DEF Freeing
<1>7. TypeOK' /\ Total(charge, live, usage_)'
  BY <1>4 DEF CacheInv, TypeOK
<1> QED BY <1>4, <1>6, <1>7 DEF CacheInv, InUse

LEMMA CacheNext == CacheInv /\ [Next]_vars => CacheInv'
<1> SUFFICES ASSUME CacheInv, [Next]_vars PROVE CacheInv'
  OBVIOUS
<1>1. CASE \E k \in Key, c \in Charge : Insert(k, c)
  BY <1>1, InsertStep
<1>2. CASE EvictRound
  BY <1>2, EvictStep
<1>3. CASE \E k \in Key : Lookup(k) \/ Erase(k)
  BY <1>3, LookupStep, EraseStep
<1>4. CASE \E e \in Handle : Release(e)
  BY <1>4, ReleaseStep
<1>5. CASE StartDestroy \/ DestroyRound \/ Destroyed
  BY <1>5, StartDestroyStep, DestroyStep, DestroyedStep
<1>6. CASE UNCHANGED vars
  BY <1>6 DEF CacheInv, vars, TypeOK, InUse, Holds, Freeing
<1> QED BY <1>1, <1>2, <1>3, <1>4, <1>5, <1>6 DEF Next

LEMMA AlwaysCacheInv == Spec => []CacheInv
<1> QED BY CacheInit, CacheNext, PTL DEF Spec

(* References are counted exactly, so that an entry is freed when the last *)
(* of them goes, however it left the cache, and the destructor leaves no   *)
(* entry and no charge (util/cache.cpp, Unref at lines 238-248, the        *)
(* destructor at lines 229-236 and the other callers of Unref).            *)
THEOREM ReferencesAlwaysExact == Spec => []RefsExact
<1>1. CacheInv => RefsExact
  <2> SUFFICES ASSUME CacheInv PROVE RefsExact
    OBVIOUS
  <2>1. ASSUME InUse, NEW e \in Handle
        PROVE  IF e \in live THEN /\ refs[e] = held[e] + (IF e \in Chained THEN 1 ELSE 0)
                                  /\ refs[e] > 0
                             ELSE held[e] = 0 /\ e \notin Chained
    <3>1. PICK D : Holds(D)
      BY <2>1 DEF CacheInv
    <3>2. Chained = D
      BY <3>1, ChainedIs DEF Holds, TableHolds, Chained
    <3> QED BY <3>1, <3>2 DEF Holds, Counted
  <2>2. mutex_ = "dead" => live = {} /\ usage_ = 0
    BY TotalOfNone DEF CacheInv
  <2> QED BY <2>1, <2>2 DEF RefsExact
<1> QED BY <1>1, AlwaysCacheInv, PTL

(* The hash chains and the circular list hold the same entries, each in    *)
(* the chain of its hash and found under its key, and elems_ counts them,  *)
(* through replacements, removals and Resize() (util/cache.cpp,            *)
(* HandleTable at lines 68-178).                                           *)
THEOREM ListAlwaysMatchesTable == Spec => []ListMatchesTable
<1>1. CacheInv => ListMatchesTable
  <2> SUFFICES ASSUME CacheInv PROVE ListMatchesTable
    OBVIOUS
  <2>1. TypeOK
    BY DEF CacheInv
  <2>2. ASSUME InUse
        PROVE  \E D :
                 /\ Chained = D
                 /\ \A a \in D \cup {lru_} : /\ next[a] \in D \cup {lru_} /\ prev[a] \in D \cup {lru_}
                                             /\ prev[next[a]] = a /\ next[prev[a]] = a
                 /\ \A e \in D : TableLookup(table_, key, key[e]) = e
                 /\ \A i \in DOMAIN table_.list : \A e \in Range(Chain(table_, i)) :
                      hash[key[e]] % Length(table_) = i
                 /\ table_.elems = Cardinality(D)
    <3>1. PICK D : Holds(D)
      BY <2>2 DEF CacheInv
    <3>2. Chained = D
      BY <3>1, ChainedIs DEF Holds, TableHolds, Chained
    <3>3. \A a \in D \cup {lru_} : /\ next[a] \in D \cup {lru_} /\ prev[a] \in D \cup {lru_}
                                   /\ prev[next[a]] = a /\ next[prev[a]] = a
      <4>1. PICK nodes : nodes = D \cup {lru_}
        OBVIOUS
      <4> QED BY <3>1, <4>1, ListNeighbours DEF Holds
    <3>4. \A e \in D : TableLookup(table_, key, key[e]) = e
      BY <3>1, LookupFinds DEF Holds
    <3>5. \A i \in DOMAIN table_.list : \A e \in Range(Chain(table_, i)) :
            hash[key[e]] % Length(table_) = i
      BY <3>1, ChainedIs DEF Holds, TableHolds
    <3>6. table_.elems = Cardinality(D)
      BY <3>1 DEF Holds, TableHolds
    <3> QED BY <3>2, <3>3, <3>4, <3>5, <3>6
  <2> QED BY <2>1, <2>2 DEF ListMatchesTable
<1> QED BY <1>1, AlwaysCacheInv, PTL
=============================================================================
