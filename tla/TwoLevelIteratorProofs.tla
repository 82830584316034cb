----------------------- MODULE TwoLevelIteratorProofs -----------------------
(***************************************************************************)
(* Block::Iter keeps to its restart points and TwoLevelIterator to its     *)
(* index entry, for any tables, restart intervals and unreadable blocks,   *)
(* and for damage to the header of any entry of a block that Block::Iter   *)
(* refuses (DamageAssumption).                                             *)
(*                                                                         *)
(* Block is written with recursive functions: the loops around             *)
(* ParseNextKey(), the binary search of Seek() and the fold over the keys  *)
(* of a block.  For each, a function with these values exists and there is *)
(* one only, or its values are in some set; both are shown by taking the   *)
(* least argument for which they are not (LeastOf).  LevelsAgree then      *)
(* follows from an invariant, LevelsInv, which says in the middle of a     *)
(* call too that each iterator stands on an entry of its block or at its   *)
(* end (Stands), and that the data iterator is of the block to which the   *)
(* index entry leads (DataIn).                                             *)
(***************************************************************************)
EXTENDS TwoLevelIterator, FiniteSetTheorems, SequenceTheorems, WellFoundedInduction, TLAPS

(* A set of numbers has a least one.                                       *)
LEMMA LeastOf ==
  ASSUME NEW S \in SUBSET Nat, S # {}
  PROVE  \E k \in S : \A j \in Nat : j < k => j \notin S
<1> DEFINE Lt == {ss \in Nat \X Nat : ss[1] < ss[2]}
<1>1. IsWellFoundedOn(Lt, Nat)
  BY NatLessThanWellFounded, Zenon DEF OpToRel
<1>2. \A j, k \in Nat : <<j, k>> \in Lt <=> j < k
  OBVIOUS
<1> HIDE DEF Lt
<1>3. PICK k \in S : \A j \in S : ~(<<j, k>> \in Lt)
  BY <1>1, WFMin
<1> QED BY <1>2, <1>3

-----------------------------------------------------------------------------
(* The loops around ParseNextKey().                                        *)

LoopStep(p, i) ==
  IF IterValid(p.b, i) /\ (IF p.kind = "next" THEN i.next < p.limit ELSE Less(i.key, p.target))
    THEN ParseNextKey(p.b, i) ELSE i

(* h has the first n + 1 values of a loop that starts with a.              *)
Upto(p, a, n, h) ==
  /\ h = [i \in 0 .. n |-> h[i]]
  /\ h[0] = a
  /\ \A i \in 1 .. n : h[i] = LoopStep(p, h[i - 1])

LEMMA UptoExists ==
  ASSUME NEW p, NEW a, NEW n \in Nat
  PROVE  \E h : Upto(p, a, n, h)
<1> DEFINE Bad == {m \in Nat : ~\E h : Upto(p, a, m, h)}
<1> SUFFICES ASSUME Bad # {} PROVE FALSE
  OBVIOUS
<1>1. PICK m \in Bad : \A j \in Nat : j < m => j \notin Bad
  BY LeastOf
<1>2. m # 0
  <2> DEFINE f == [i \in 0 .. 0 |-> a]
  <2>1. f = [i \in 0 .. 0 |-> f[i]] /\ f[0] = a /\ \A i \in 1 .. 0 : f[i] = LoopStep(p, f[i - 1])
    OBVIOUS
  <2> HIDE DEF f
  <2>2. Upto(p, a, 0, f)
    BY <2>1 DEF Upto
  <2> QED BY <2>2
<1>3. PICK h : Upto(p, a, m - 1, h)
  <2>1. m - 1 \in Nat /\ m - 1 < m
    BY <1>2
  <2> QED BY <1>1, <2>1
<1> DEFINE f == [i \in 0 .. m |-> IF i = m THEN LoopStep(p, h[m - 1]) ELSE h[i]]
<1>4. /\ f = [i \in 0 .. m |-> f[i]]
      /\ f[0] = h[0]
      /\ f[m] = LoopStep(p, h[m - 1])
      /\ \A i \in 0 .. m - 1 : f[i] = h[i]
  BY <1>2
<1> HIDE DEF f
<1>5. ASSUME NEW i \in 1 .. m PROVE f[i] = LoopStep(p, f[i - 1])
  <2>1. CASE i = m
    <3>1. m - 1 \in 0 .. m - 1
      BY <1>2
    <3> QED BY <1>4, <2>1, <3>1
  <2>2. CASE i # m
    <3>1. i \in 1 .. m - 1 /\ i \in 0 .. m - 1 /\ i - 1 \in 0 .. m - 1
      BY <2>2
    <3> QED BY <1>3, <1>4, <3>1 DEF Upto
  <2> QED BY <2>1, <2>2
<1>6. Upto(p, a, m, f)
  BY <1>3, <1>4, <1>5 DEF Upto
<1> QED BY <1>6

LEMMA UptoUnique ==
  ASSUME NEW p, NEW a, NEW n \in Nat, NEW m \in Nat, NEW h, NEW f,
         Upto(p, a, n, h), Upto(p, a, m, f), NEW i \in Nat, i <= n, i <= m
  PROVE  h[i] = f[i]
<1> DEFINE Bad == {j \in Nat : j <= n /\ j <= m /\ h[j] # f[j]}
<1> SUFFICES ASSUME Bad # {} PROVE FALSE
  OBVIOUS
<1>1. PICK j \in Bad : \A k \in Nat : k < j => k \notin Bad
  BY LeastOf
<1>2. j # 0
  BY DEF Upto
<1>3. j - 1 \in Nat /\ j - 1 < j /\ j - 1 <= n /\ j - 1 <= m /\ j \in 1 .. n /\ j \in 1 .. m
  BY <1>2
<1>4. h[j - 1] = f[j - 1]
  BY <1>1, <1>3
<1> QED BY <1>3, <1>4 DEF Upto

(* g has all the values of the loop.                                       *)
IsLoop(p, a, g) == g = [n \in Nat |-> IF n = 0 THEN a ELSE LoopStep(p, g[n - 1])]

LEMMA LoopExists ==
  ASSUME NEW p, NEW a
  PROVE  \E g : IsLoop(p, a, g)
<1> DEFINE H(n) == CHOOSE h : Upto(p, a, n, h)
           g == [n \in Nat |-> H(n)[n]]
<1>1. \A n \in Nat : Upto(p, a, n, H(n))
  BY UptoExists
<1>2. \A n \in Nat : g[n] = H(n)[n]
  OBVIOUS
<1>3. g = [n \in Nat |-> g[n]]
  OBVIOUS
<1> HIDE DEF H, g
<1>4. ASSUME NEW n \in Nat PROVE g[n] = IF n = 0 THEN a ELSE LoopStep(p, g[n - 1])
  <2>1. CASE n = 0
    BY <1>1, <1>2, <2>1 DEF Upto
  <2>2. CASE n # 0
    <3>1. n - 1 \in Nat /\ n - 1 <= n - 1 /\ n - 1 <= n /\ n \in 1 .. n
      BY <2>2
    <3>2. H(n)[n - 1] = H(n - 1)[n - 1]
      BY <1>1, <3>1, UptoUnique
    <3>3. H(n)[n] = LoopStep(p, H(n)[n - 1])
      BY <1>1, <3>1 DEF Upto
    <3> QED BY <1>2, <2>2, <3>1, <3>2, <3>3
  <2> QED BY <2>1, <2>2
<1>5. IsLoop(p, a, g)
  BY <1>3, <1>4 DEF IsLoop
<1> QED BY <1>5

-----------------------------------------------------------------------------
(* Block::Iter.                                                            *)

IsIter(i) ==
  i = [current |-> i.current, restart_index |-> i.restart_index, key |-> i.key,
       next |-> i.next, ok |-> i.ok]

BlockType(b) == b.restarts \in Seq(Nat) /\ Len(b.entries) \in Nat

(* ParseNextKey() may be called.                                           *)
Ready(b, i) ==
  /\ IsIter(i) /\ i.next \in Nat /\ i.restart_index \in Nat
  /\ i.restart_index < NumRestarts(b)
  /\ GetRestartPoint(b, i.restart_index) <= i.next

(* Between two calls.                                                      *)
Stands(b, i) ==
  /\ IsIter(i) /\ i.current \in Nat
  /\ RegionHolds(b, i)
  /\ IterValid(b, i) => i.next = i.current + 1 /\ i.restart_index \in Nat

LEMMA BlockIs ==
  ASSUME NEW b, BlockType(b)
  PROVE  /\ Restarts(b) \in Nat /\ NumRestarts(b) \in Nat
         /\ \A k \in Nat : k < NumRestarts(b) => GetRestartPoint(b, k) \in Nat
<1>1. b.restarts \in Seq(Nat)
  BY DEF BlockType
<1>2. Len(b.restarts) \in Nat /\ \A j \in 1 .. Len(b.restarts) : b.restarts[j] \in Nat
  BY <1>1
<1>3. \A k \in Nat : k < Len(b.restarts) => k + 1 \in 1 .. Len(b.restarts)
  BY <1>2
<1> QED BY <1>2, <1>3 DEF BlockType, Restarts, NumRestarts, GetRestartPoint

LEMMA GreatestOf ==
  ASSUME NEW S \in SUBSET Nat, S # {}, NEW b \in Nat, \A j \in S : j <= b
  PROVE  Max(S) \in S /\ \A j \in S : j <= Max(S)
<1> DEFINE Bounds == {u \in Nat : \A j \in S : j <= u}
<1>1. PICK u \in Bounds : \A v \in Nat : v < u => v \notin Bounds
  BY LeastOf
<1>2. u \in S
  <2> SUFFICES ASSUME u \notin S PROVE FALSE
    OBVIOUS
  <2>1. \A j \in S : j \in Nat /\ j < u
    BY <1>1
  <2>2. u \in Nat /\ u > 0
    <3>1. PICK j : j \in S
      OBVIOUS
    <3> QED BY <1>1, <2>1, <3>1
  <2>3. u - 1 \in Bounds /\ u - 1 < u
    BY <2>1, <2>2
  <2> QED BY <1>1, <2>3
<1>3. \E k \in S : \A j \in S : k >= j
  BY <1>2
<1>4. Max(S) \in S /\ \A j \in S : Max(S) >= j
  BY <1>3 DEF Max
<1> QED BY <1>4

LEMMA ExhaustedStands ==
  ASSUME NEW b, BlockType(b), NEW i, IsIter(i)
  PROVE  Stands(b, Exhausted(b, i)) /\ Stands(b, CorruptionError(b, i))
<1>1. Restarts(b) \in Nat
  BY BlockIs
<1>2. PICK e : e = Exhausted(b, i)
  OBVIOUS
<1>3. IsIter(e) /\ e.current = Restarts(b)
  BY <1>2 DEF Exhausted, IsIter
<1>4. ~IterValid(b, e)
  BY <1>1, <1>3 DEF IterValid
<1>5. PICK c : c = CorruptionError(b, i)
  OBVIOUS
<1>6. IsIter(c) /\ c.current = Restarts(b)
  BY <1>2, <1>3, <1>5 DEF CorruptionError, IsIter
<1>7. ~IterValid(b, c)
  BY <1>1, <1>6 DEF IterValid
<1> QED BY <1>1, <1>2, <1>3, <1>4, <1>5, <1>6, <1>7 DEF Stands, RegionHolds

LEMMA ParseStands ==
  ASSUME NEW b, BlockType(b), NEW i, Ready(b, i)
  PROVE  Stands(b, ParseNextKey(b, i))
<1> DEFINE d == DecodeEntry(b, i.next)
           P == {k \in i.restart_index + 1 .. NumRestarts(b) - 1 : GetRestartPoint(b, k) < i.next}
           Q == P \cup {i.restart_index}
<1>1. /\ Restarts(b) \in Nat /\ NumRestarts(b) \in Nat
      /\ \A k \in Nat : k < NumRestarts(b) => GetRestartPoint(b, k) \in Nat
  BY BlockIs
<1>2. i.next \in Nat /\ i.restart_index \in Nat /\ i.restart_index < NumRestarts(b) /\ IsIter(i)
      /\ GetRestartPoint(b, i.restart_index) <= i.next
  BY DEF Ready
<1>3. CASE i.next >= Restarts(b) \/ ~d.ok \/ Len(i.key) < d.shared
  <2>1. ParseNextKey(b, i) = Exhausted(b, i) \/ ParseNextKey(b, i) = CorruptionError(b, i)
    BY <1>3 DEF ParseNextKey
  <2> QED BY <1>2, <2>1, ExhaustedStands
<1>4. CASE ~(i.next >= Restarts(b) \/ ~d.ok \/ Len(i.key) < d.shared)
  <2>1. PICK key2 : key2 = SubSeq(i.key, 1, d.shared) \o Entry(b, i.next).delta
    OBVIOUS
  <2>2. PICK m : m = Max(Q)
    OBVIOUS
  <2>3. PICK j : j = [i EXCEPT !.current = i.next, !.next = i.next + 1, !.key = key2, !.restart_index = m]
    OBVIOUS
  <2>4. ParseNextKey(b, i) = j
    BY <1>4, <2>1, <2>2, <2>3 DEF ParseNextKey
  <2>5. IsIter(j) /\ j.current = i.next /\ j.next = i.next + 1 /\ j.restart_index = m
    BY <1>2, <2>3 DEF IsIter
  <2>6. m \in Q /\ \A k \in Q : k <= m
    <3>1. Q \in SUBSET Nat /\ Q # {} /\ \A k \in Q : k <= NumRestarts(b)
      BY <1>1, <1>2
    <3> HIDE DEF Q
    <3> QED BY <1>1, <2>2, <3>1, GreatestOf
  <2>7. m \in Nat /\ m < NumRestarts(b) /\ GetRestartPoint(b, m) <= i.next
    <3>1. CASE m = i.restart_index
      BY <1>2, <3>1
    <3>2. CASE m \in P
      <4>1. m \in Nat /\ m < NumRestarts(b) /\ GetRestartPoint(b, m) < i.next
        BY <1>1, <1>2, <3>2
      <4> QED BY <1>1, <1>2, <4>1
    <3> QED BY <2>6, <3>1, <3>2
  <2>8. ASSUME NEW k \in m + 1 .. NumRestarts(b) - 1 PROVE GetRestartPoint(b, k) >= i.next
    <3>0. i.restart_index <= m
      BY <2>6
    <3>1. k \in Nat /\ k < NumRestarts(b) /\ k > m /\ i.restart_index <= m
      <4> HIDE DEF Q
      <4> QED BY <1>1, <2>7, <3>0
    <3>2. k \in i.restart_index + 1 .. NumRestarts(b) - 1 /\ k \notin Q
      BY <1>1, <1>2, <2>6, <2>7, <3>1
    <3> QED BY <1>1, <1>2, <3>1, <3>2
  <2>9. Stands(b, j)
    BY <1>2, <2>5, <2>7, <2>8 DEF Stands, RegionHolds
  <2> QED BY <2>4, <2>9
<1> QED BY <1>3, <1>4

LEMMA StandingIsReady ==
  ASSUME NEW b, BlockType(b), NEW i, Stands(b, i), IterValid(b, i)
  PROVE  Ready(b, i)
<1>1. /\ i.current \in Nat /\ i.next = i.current + 1 /\ i.restart_index \in Nat /\ IsIter(i)
      /\ i.restart_index < NumRestarts(b) /\ GetRestartPoint(b, i.restart_index) <= i.current
  BY DEF Stands, RegionHolds
<1>2. GetRestartPoint(b, i.restart_index) \in Nat
  BY <1>1, BlockIs
<1> QED BY <1>1, <1>2 DEF Ready

LEMMA RestartIsReady ==
  ASSUME NEW b, BlockType(b), NEW i, IsIter(i), NEW k \in Nat, k < NumRestarts(b)
  PROVE  Ready(b, SeekToRestartPoint(b, i, k))
<1>1. PICK r \in Nat : r = GetRestartPoint(b, k)
  BY BlockIs
<1>2. PICK j : j = [i EXCEPT !.key = <<>>, !.restart_index = k, !.next = r]
  OBVIOUS
<1>3. IsIter(j) /\ j.restart_index = k /\ j.next = r
  BY <1>2 DEF IsIter
<1>4. SeekToRestartPoint(b, i, k) = j
  BY <1>1, <1>2 DEF SeekToRestartPoint
<1> QED BY <1>1, <1>3, <1>4 DEF Ready

(* A loop that is entered ready ends between two calls.                    *)
LEMMA LoopStands ==
  ASSUME NEW b, BlockType(b), NEW p, p.b = b, NEW it, Ready(b, it), NEW n \in Nat,
         NEW g, IsLoop(p, ParseNextKey(b, it), g)
  PROVE  Stands(b, g[n])
<1> DEFINE Bad == {m \in Nat : ~Stands(b, g[m])}
<1> SUFFICES ASSUME Bad # {} PROVE FALSE
  OBVIOUS
<1>1. PICK m \in Bad : \A j \in Nat : j < m => j \notin Bad
  BY LeastOf
<1>2. m \in Nat /\ g[m] = IF m = 0 THEN ParseNextKey(b, it) ELSE LoopStep(p, g[m - 1])
  BY DEF IsLoop
<1>3. CASE m = 0
  BY <1>2, <1>3, ParseStands
<1>4. CASE m # 0
  <2>1. m - 1 \in Nat /\ m - 1 < m
    BY <1>2, <1>4
  <2>2. Stands(b, g[m - 1])
    BY <1>1, <2>1
  <2>3. PICK i : i = g[m - 1]
    OBVIOUS
  <2>4. g[m] = IF IterValid(b, i) /\ (IF p.kind = "next" THEN i.next < p.limit ELSE Less(i.key, p.target))
                 THEN ParseNextKey(b, i) ELSE i
    BY <1>2, <1>4, <2>3 DEF LoopStep
  <2>5. Stands(b, i) /\ (IterValid(b, i) => Stands(b, ParseNextKey(b, i)))
    BY <2>2, <2>3, StandingIsReady, ParseStands
  <2>6. Stands(b, g[m])
    BY <2>4, <2>5
  <2> QED BY <2>6
<1> QED BY <1>3, <1>4

LEMMA OneOf ==
  ASSUME NEW x
  PROVE  (CHOOSE j \in {x} : TRUE) = x
OBVIOUS

(* ParseWhile() with the conditions of its callers.                        *)
WhileNext(b, it, limit) == ParseWhile(b, it, LAMBDA i : i.next < limit)
WhileLess(b, it, target) == ParseWhile(b, it, LAMBDA i : Less(i.key, target))

LEMMA WhileNextStands ==
  ASSUME NEW b, BlockType(b), NEW it, Ready(b, it), NEW limit
  PROVE  Stands(b, WhileNext(b, it, limit))
<1>1. PICK p : p.b = b /\ p.kind = "next" /\ p.limit = limit
  <2> DEFINE q == [b |-> b, kind |-> "next", limit |-> limit]
  <2> QED BY q.b = b /\ q.kind = "next" /\ q.limit = limit
<1>2. PICK a : a = ParseNextKey(b, it)
  OBVIOUS
<1> DEFINE Once(x) == CHOOSE j \in {(IF IterValid(b, i) /\ i.next < limit THEN ParseNextKey(b, i) ELSE i) : i \in {x}} : TRUE
<1>3. ASSUME NEW x PROVE Once(x) = LoopStep(p, x)
  <2>1. {(IF IterValid(b, i) /\ i.next < limit THEN ParseNextKey(b, i) ELSE i) : i \in {x}} = {LoopStep(p, x)}
    BY <1>1 DEF LoopStep
  <2> QED BY <2>1, OneOf
<1> DEFINE Is(g) == g = [n \in Nat |-> IF n = 0 THEN ParseNextKey(b, it) ELSE Once(g[n - 1])]
           after == CHOOSE g : Is(g)
<1>4. ASSUME NEW g
      PROVE  Is(g) <=> IsLoop(p, a, g)
  <2> HIDE DEF Once
  <2> QED BY <1>2, <1>3 DEF IsLoop
<1>5. \E g : Is(g)
  <2>1. PICK g : IsLoop(p, a, g)
    BY LoopExists
  <2> HIDE DEF Is
  <2>2. Is(g)
    BY <1>4, <2>1
  <2> QED BY <2>2
<1>6. WhileNext(b, it, limit) = after[Restarts(b)]
  BY DEF WhileNext, ParseWhile
<1>7. Is(after)
  <2> HIDE DEF Is
  <2> QED BY <1>5
<1> HIDE DEF after, Is
<1>8. IsLoop(p, ParseNextKey(b, it), after)
  BY <1>2, <1>4, <1>7
<1>9. Restarts(b) \in Nat
  BY BlockIs
<1> QED BY <1>1, <1>6, <1>8, <1>9, LoopStands

LEMMA WhileLessStands ==
  ASSUME NEW b, BlockType(b), NEW it, Ready(b, it), NEW target
  PROVE  Stands(b, WhileLess(b, it, target))
<1>1. PICK p : p.b = b /\ p.kind = "key" /\ p.target = target
  <2> DEFINE q == [b |-> b, kind |-> "key", target |-> target]
  <2> QED BY q.b = b /\ q.kind = "key" /\ q.target = target
<1>2. PICK a : a = ParseNextKey(b, it)
  OBVIOUS
<1> DEFINE Once(x) == CHOOSE j \in {(IF IterValid(b, i) /\ Less(i.key, target) THEN ParseNextKey(b, i) ELSE i) : i \in {x}} : TRUE
<1>3. ASSUME NEW x PROVE Once(x) = LoopStep(p, x)
  <2>1. {(IF IterValid(b, i) /\ Less(i.key, target) THEN ParseNextKey(b, i) ELSE i) : i \in {x}} = {LoopStep(p, x)}
    BY <1>1 DEF LoopStep
  <2> QED BY <2>1, OneOf
<1> DEFINE Is(g) == g = [n \in Nat |-> IF n = 0 THEN ParseNextKey(b, it) ELSE Once(g[n - 1])]
           after == CHOOSE g : Is(g)
<1>4. ASSUME NEW g
      PROVE  Is(g) <=> IsLoop(p, a, g)
  <2> HIDE DEF Once
  <2> QED BY <1>2, <1>3 DEF IsLoop
<1>5. \E g : Is(g)
  <2>1. PICK g : IsLoop(p, a, g)
    BY LoopExists
  <2> HIDE DEF Is
  <2>2. Is(g)
    BY <1>4, <2>1
  <2> QED BY <2>2
<1>6. WhileLess(b, it, target) = after[Restarts(b)]
  BY DEF WhileLess, ParseWhile
<1>7. Is(after)
  <2> HIDE DEF Is
  <2> QED BY <1>5
<1> HIDE DEF after, Is
<1>8. IsLoop(p, ParseNextKey(b, it), after)
  BY <1>2, <1>4, <1>7
<1>9. Restarts(b) \in Nat
  BY BlockIs
<1> QED BY <1>1, <1>6, <1>8, <1>9, LoopStands

-----------------------------------------------------------------------------
(* The binary search of Seek().                                            *)

Mid(s) == (s[1] + s[2] + 1) \div 2

SearchFails(b, s) ==
  LET d == DecodeEntry(b, GetRestartPoint(b, Mid(s)))
  IN  ~d.ok \/ d.shared # 0

GoRight(b, target, s) == Less(Entry(b, GetRestartPoint(b, Mid(s))).delta, target)

(* A round of the search in s, if h has the results for smaller ranges.    *)
Round(b, target, h, s) ==
  IF s[1] >= s[2] THEN s[1]
  ELSE IF SearchFails(b, s) THEN -1
  ELSE IF GoRight(b, target, s) THEN h[<<Mid(s), s[2]>>]
  ELSE h[<<s[1], Mid(s) - 1>>]

Ranges == Nat \X Nat

(* h has the results for ranges shorter than k.                            *)
Searches(b, target, k, h) ==
  \A s \in Ranges : s[2] - s[1] < k => h[s] = Round(b, target, h, s)

LEMMA Halves ==
  ASSUME NEW s \in Ranges, s[1] < s[2]
  PROVE  /\ s[1] \in Nat /\ s[2] \in Nat /\ Mid(s) \in Nat
         /\ s[1] < Mid(s) /\ Mid(s) <= s[2]
         /\ <<Mid(s), s[2]>> \in Ranges /\ <<s[1], Mid(s) - 1>> \in Ranges
<1>1. s[1] \in Nat /\ s[2] \in Nat
  BY DEF Ranges
<1>2. Mid(s) \in Nat /\ s[1] < Mid(s) /\ Mid(s) <= s[2]
  BY <1>1 DEF Mid
<1>3. Mid(s) - 1 \in Nat
  BY <1>1, <1>2
<1> QED BY <1>1, <1>2, <1>3 DEF Ranges

LEMMA RoundDepends ==
  ASSUME NEW b, NEW target, NEW h, NEW f, NEW s \in Ranges,
         \A t \in Ranges : t[2] - t[1] < s[2] - s[1] => h[t] = f[t]
  PROVE  Round(b, target, h, s) = Round(b, target, f, s)
<1>1. CASE s[1] >= s[2]
  BY <1>1 DEF Round
<1>2. CASE ~(s[1] >= s[2])
  <2>1. s[1] \in Nat /\ s[2] \in Nat /\ s[1] < s[2]
    BY <1>2 DEF Ranges
  <2>2. PICK m \in Nat : m = Mid(s)
    BY <2>1, Halves
  <2>3. s[1] < m /\ m <= s[2] /\ <<m, s[2]>> \in Ranges /\ <<s[1], m - 1>> \in Ranges
    BY <2>1, <2>2, Halves
  <2>4. h[<<m, s[2]>>] = f[<<m, s[2]>>]
    <3>1. PICK t \in Ranges : t = <<m, s[2]>>
      BY <2>3
    <3>2. t[2] - t[1] < s[2] - s[1]
      BY <2>1, <2>3, <3>1
    <3> QED BY <3>1, <3>2
  <2>5. h[<<s[1], m - 1>>] = f[<<s[1], m - 1>>]
    <3>1. PICK t \in Ranges : t = <<s[1], m - 1>>
      BY <2>3
    <3>2. t[2] - t[1] < s[2] - s[1]
      BY <2>1, <2>3, <3>1
    <3> QED BY <3>1, <3>2
  <2> QED BY <2>2, <2>4, <2>5 DEF Round
<1> QED BY <1>1, <1>2

LEMMA SearchUnique ==
  ASSUME NEW b, NEW target, NEW k \in Nat, NEW m \in Nat, NEW h, NEW f,
         Searches(b, target, k, h), Searches(b, target, m, f),
         NEW s \in Ranges, s[2] - s[1] < k, s[2] - s[1] < m
  PROVE  h[s] = f[s]
<1> DEFINE Differ(t) == t[2] - t[1] < k /\ t[2] - t[1] < m /\ h[t] # f[t]
           Bad == {n \in Nat : \E t \in Ranges : Differ(t) /\ t[2] - t[1] <= n}
<1>0. \A t \in Ranges : t[1] \in Nat /\ t[2] \in Nat
  BY DEF Ranges
<1> SUFFICES ASSUME h[s] # f[s] PROVE FALSE
  OBVIOUS
<1>1. Bad # {}
  <2>1. s[2] \in Nat /\ Differ(s) /\ s[2] - s[1] <= s[2]
    BY <1>0
  <2> QED BY <2>1
<1>2. PICK n \in Bad : \A j \in Nat : j < n => j \notin Bad
  BY <1>1, LeastOf
<1>3. PICK t \in Ranges : Differ(t) /\ t[2] - t[1] <= n
  BY <1>2
<1>4. ASSUME NEW u \in Ranges, u[2] - u[1] < t[2] - t[1] PROVE h[u] = f[u]
  <2>1. u[1] \in Nat /\ u[2] \in Nat /\ t[1] \in Nat /\ t[2] \in Nat /\ n \in Nat
    BY <1>0, <1>2
  <2>2. CASE n = 0
    <3>1. u[1] >= u[2]
      BY <1>3, <1>4, <2>1, <2>2
    <3>2. u[2] - u[1] < k /\ u[2] - u[1] < m
      BY <1>3, <1>4, <2>1
    <3>3. h[u] = Round(b, target, h, u) /\ f[u] = Round(b, target, f, u)
      BY <3>2 DEF Searches
    <3> QED BY <3>1, <3>3 DEF Round
  <2>3. CASE n # 0
    <3>1. n - 1 \in Nat /\ n - 1 < n /\ u[2] - u[1] <= n - 1 /\ u[2] - u[1] < k /\ u[2] - u[1] < m
      BY <1>3, <1>4, <2>1, <2>3
    <3> QED BY <1>2, <3>1
  <2> QED BY <2>2, <2>3
<1>5. Round(b, target, h, t) = Round(b, target, f, t)
  BY <1>4, RoundDepends
<1> QED BY <1>3, <1>5 DEF Searches

LEMMA SearchUptoExists ==
  ASSUME NEW b, NEW target, NEW k \in Nat
  PROVE  \E h : Searches(b, target, k, h)
<1> DEFINE Bad == {m \in Nat : ~\E h : Searches(b, target, m, h)}
<1>0. \A t \in Ranges : t[1] \in Nat /\ t[2] \in Nat
  BY DEF Ranges
<1> SUFFICES ASSUME Bad # {} PROVE FALSE
  OBVIOUS
<1>1. PICK m \in Bad : \A j \in Nat : j < m => j \notin Bad
  BY LeastOf
<1>2. m # 0
  <2> DEFINE f == [s \in Ranges |-> s[1]]
  <2>1. \A s \in Ranges : f[s] = s[1]
    OBVIOUS
  <2> HIDE DEF f
  <2>2. Searches(b, target, 0, f)
    <3> SUFFICES ASSUME NEW s \in Ranges, s[2] - s[1] < 0 PROVE f[s] = Round(b, target, f, s)
      BY DEF Searches
    <3>1. s[1] >= s[2]
      BY <1>0
    <3> QED BY <2>1, <3>1 DEF Round
  <2> QED BY <2>2
<1>3. m - 1 \in Nat /\ m - 1 < m /\ m \in Nat
  BY <1>2
<1>4. PICK h : Searches(b, target, m - 1, h)
  BY <1>1, <1>3
<1> DEFINE f == [s \in Ranges |-> Round(b, target, h, s)]
<1>5. \A s \in Ranges : f[s] = Round(b, target, h, s)
  OBVIOUS
<1> HIDE DEF f
<1>6. ASSUME NEW s \in Ranges, s[2] - s[1] < m PROVE f[s] = Round(b, target, f, s)
  <2>1. ASSUME NEW t \in Ranges, t[2] - t[1] < s[2] - s[1] PROVE h[t] = f[t]
    <3>1. t[2] - t[1] < m - 1
      BY <1>0, <1>3, <1>6, <2>1
    <3> QED BY <1>4, <1>5, <3>1 DEF Searches
  <2>2. Round(b, target, h, s) = Round(b, target, f, s)
    BY <2>1, RoundDepends
  <2> QED BY <1>5, <2>2
<1>7. Searches(b, target, m, f)
  BY <1>6 DEF Searches
<1> QED BY <1>7

(* g has the results for all ranges.                                       *)
IsSearch(b, target, g) == g = [s \in Ranges |-> Round(b, target, g, s)]

LEMMA SearchExists ==
  ASSUME NEW b, NEW target
  PROVE  \E g : IsSearch(b, target, g)
<1> DEFINE H(k) == CHOOSE h : Searches(b, target, k, h)
           Size(s) == IF s[1] < s[2] THEN s[2] - s[1] + 1 ELSE 1
           g == [s \in Ranges |-> H(Size(s))[s]]
<1>0. \A s \in Ranges : Size(s) \in Nat /\ s[2] - s[1] < Size(s) /\ s[1] \in Nat /\ s[2] \in Nat
  BY DEF Ranges
<1>1. \A k \in Nat : Searches(b, target, k, H(k))
  BY SearchUptoExists
<1>2. \A s \in Ranges : g[s] = H(Size(s))[s]
  OBVIOUS
<1>3. g = [s \in Ranges |-> g[s]]
  OBVIOUS
<1> HIDE DEF H, g
<1>4. ASSUME NEW s \in Ranges PROVE g[s] = Round(b, target, g, s)
  <2>1. PICK k \in Nat : k = Size(s)
    BY <1>0
  <2>2. s[2] - s[1] < k /\ s[1] \in Nat /\ s[2] \in Nat
    BY <1>0, <2>1
  <2>3. ASSUME NEW t \in Ranges, t[2] - t[1] < s[2] - s[1] PROVE H(k)[t] = g[t]
    <3>1. PICK m \in Nat : m = Size(t)
      BY <1>0
    <3>2. t[2] - t[1] < m /\ t[2] - t[1] < k
      BY <1>0, <2>2, <2>3, <3>1
    <3>3. H(k)[t] = H(m)[t]
      BY <1>1, <3>2, SearchUnique
    <3> QED BY <1>2, <3>1, <3>3
  <2>4. Round(b, target, H(k), s) = Round(b, target, g, s)
    BY <2>3, RoundDepends
  <2>5. H(k)[s] = Round(b, target, H(k), s)
    BY <1>1, <2>2 DEF Searches
  <2> QED BY <1>2, <2>1, <2>4, <2>5
<1>5. IsSearch(b, target, g)
  BY <1>3, <1>4 DEF IsSearch
<1> QED BY <1>5

LEMMA SearchResult ==
  ASSUME NEW b, NEW target, NEW g, IsSearch(b, target, g), NEW s \in Ranges, s[1] <= s[2]
  PROVE  g[s] = -1 \/ g[s] \in s[1] .. s[2]
<1> DEFINE Wrong(t) == t[1] <= t[2] /\ g[t] # -1 /\ g[t] \notin t[1] .. t[2]
           Bad == {n \in Nat : \E t \in Ranges : Wrong(t) /\ t[2] - t[1] = n}
<1>0. \A t \in Ranges : t[1] \in Nat /\ t[2] \in Nat
  BY DEF Ranges
<1> SUFFICES ASSUME Wrong(s) PROVE FALSE
  OBVIOUS
<1>1. Bad # {}
  <2>1. s[2] - s[1] \in Nat
    BY <1>0
  <2> QED BY <2>1
<1>2. PICK n \in Bad : \A j \in Nat : j < n => j \notin Bad
  BY <1>1, LeastOf
<1>3. PICK t \in Ranges : Wrong(t) /\ t[2] - t[1] = n
  BY <1>2
<1>4. g[t] = Round(b, target, g, t)
  BY DEF IsSearch
<1>5. CASE t[1] >= t[2]
  <2>1. g[t] = t[1] /\ t[1] \in Nat /\ t[2] \in Nat
    BY <1>0, <1>4, <1>5 DEF Round
  <2>2. g[t] \in t[1] .. t[2]
    BY <1>3, <2>1
  <2> QED BY <1>3, <2>2
<1>6. CASE ~(t[1] >= t[2])
  <2>1. t[1] \in Nat /\ t[2] \in Nat /\ t[1] < t[2]
    BY <1>0, <1>6
  <2>2. PICK m \in Nat : m = Mid(t)
    BY <2>1, Halves
  <2>3. t[1] < m /\ m <= t[2] /\ <<m, t[2]>> \in Ranges /\ <<t[1], m - 1>> \in Ranges
    BY <2>1, <2>2, Halves
  <2>4. ASSUME NEW u \in Ranges, u[1] <= u[2], u[2] - u[1] < n PROVE ~Wrong(u)
    <3>1. u[2] - u[1] \in Nat
      BY <1>0, <2>4
    <3> QED BY <1>2, <2>4, <3>1
  <2>5. g[<<m, t[2]>>] = -1 \/ g[<<m, t[2]>>] \in m .. t[2]
    <3>1. PICK u \in Ranges : u = <<m, t[2]>>
      BY <2>3
    <3>2. u[1] = m /\ u[2] = t[2] /\ u[1] <= u[2] /\ u[2] - u[1] < n
      BY <1>3, <2>1, <2>3, <3>1
    <3> QED BY <2>4, <3>1, <3>2
  <2>6. g[<<t[1], m - 1>>] = -1 \/ g[<<t[1], m - 1>>] \in t[1] .. m - 1
    <3>1. PICK u \in Ranges : u = <<t[1], m - 1>>
      BY <2>3
    <3>2. u[1] = t[1] /\ u[2] = m - 1 /\ u[1] <= u[2] /\ u[2] - u[1] < n
      BY <1>3, <2>1, <2>3, <3>1
    <3> QED BY <2>4, <3>1, <3>2
  <2>7. g[t] = -1 \/ g[t] = g[<<m, t[2]>>] \/ g[t] = g[<<t[1], m - 1>>]
    BY <1>4, <1>6, <2>2 DEF Round
  <2>8. g[t] = -1 \/ g[t] \in t[1] .. t[2]
    <3>1. m .. t[2] \subseteq t[1] .. t[2] /\ t[1] .. m - 1 \subseteq t[1] .. t[2]
      BY <2>1, <2>3
    <3> QED BY <2>5, <2>6, <2>7, <3>1
  <2> QED BY <1>3, <2>8
<1> QED BY <1>5, <1>6

LEMMA RestartBeforeIs ==
  ASSUME NEW b, BlockType(b), NumRestarts(b) > 0, NEW target
  PROVE  \/ RestartBefore(b, target) = -1
         \/ RestartBefore(b, target) \in Nat /\ RestartBefore(b, target) < NumRestarts(b)
<1> DEFINE Is(g) ==
      g = [range \in Nat \X Nat |->
             LET left == range[1]
                 right == range[2]
                 mid == (left + right + 1) \div 2
                 e == Entry(b, GetRestartPoint(b, mid))
                 d == DecodeEntry(b, GetRestartPoint(b, mid))
             IN  IF left >= right THEN left
                 ELSE IF ~d.ok \/ d.shared # 0 THEN -1
                 ELSE IF Less(e.delta, target) THEN g[<<mid, right>>]
                 ELSE g[<<left, mid - 1>>]]
           search == CHOOSE g : Is(g)
<1>1. RestartBefore(b, target) = search[<<0, NumRestarts(b) - 1>>]
  BY DEF RestartBefore
<1>2. ASSUME NEW g PROVE Is(g) <=> IsSearch(b, target, g)
  BY DEF IsSearch, Ranges, Round, Mid, SearchFails, GoRight
<1>3. PICK g : IsSearch(b, target, g)
  BY SearchExists
<1> HIDE DEF Is
<1>4. Is(search)
  BY <1>2, <1>3
<1> HIDE DEF search
<1>5. PICK n \in Nat : n = NumRestarts(b)
  BY BlockIs
<1>6. PICK s \in Ranges : s = <<0, n - 1>>
  <2>1. n - 1 \in Nat
    BY <1>5
  <2> QED BY <2>1 DEF Ranges
<1>7. s[1] = 0 /\ s[2] = n - 1 /\ s[1] <= s[2]
  BY <1>5, <1>6
<1>8. IsSearch(b, target, search)
  BY <1>2, <1>4
<1>9. search[s] = -1 \/ search[s] \in 0 .. n - 1
  BY <1>7, <1>8, SearchResult
<1> QED BY <1>1, <1>5, <1>6, <1>9

-----------------------------------------------------------------------------
(* The calls of a Block::Iter.                                             *)

LEMMA CallStands ==
  ASSUME NEW b, BlockType(b), NEW it, Stands(b, it), NEW target,
         NEW fn \in {"SeekToFirst", "SeekToLast", "Seek", "Next", "Prev"},
         fn \in {"Next", "Prev"} => IterValid(b, it)
  PROVE  Stands(b, IterCall(b, it, fn, target))
<1>1. CASE b.restarts = <<>>
  BY <1>1 DEF IterCall
<1>2. CASE b.restarts # <<>>
  <2>1. PICK n \in Nat : n = NumRestarts(b) /\ n > 0
    <3>1. b.restarts \in Seq(Nat)
      BY DEF BlockType
    <3>2. Len(b.restarts) \in Nat /\ Len(b.restarts) # 0
      BY <1>2, <3>1
    <3> QED BY <3>2 DEF NumRestarts
  <2>2. IsIter(it) /\ it.current \in Nat
    BY DEF Stands
  <2>3. CASE fn = "SeekToFirst"
    <3>1. Stands(b, IterSeekToFirst(b, it))
      BY <2>1, <2>2, RestartIsReady, ParseStands DEF IterSeekToFirst
    <3> QED BY <1>2, <2>3, <3>1 DEF IterCall
  <2>4. CASE fn = "SeekToLast"
    <3>1. n - 1 \in Nat /\ n - 1 < n
      BY <2>1
    <3>2. Ready(b, SeekToRestartPoint(b, it, NumRestarts(b) - 1))
      BY <2>1, <2>2, <3>1, RestartIsReady
    <3>3. Stands(b, IterSeekToLast(b, it))
      <4>1. PICK r : r = SeekToRestartPoint(b, it, NumRestarts(b) - 1)
        OBVIOUS
      <4>2. PICK limit : limit = Restarts(b)
        OBVIOUS
      <4>3. IterSeekToLast(b, it) = WhileNext(b, r, limit)
        BY <4>1, <4>2 DEF IterSeekToLast, WhileNext
      <4>4. Stands(b, WhileNext(b, r, limit))
        BY <3>2, <4>1, WhileNextStands
      <4> QED BY <4>3, <4>4
    <3> QED BY <1>2, <2>4, <3>3 DEF IterCall
  <2>5. CASE fn = "Seek"
    <3>1. Stands(b, IterSeek(b, it, target))
      <4>1. PICK left : left = RestartBefore(b, target)
        OBVIOUS
      <4>2. CASE left = -1
        <5>1. IterSeek(b, it, target) = CorruptionError(b, it)
          BY <4>1, <4>2 DEF IterSeek
        <5> QED BY <2>2, <5>1, ExhaustedStands
      <4>3. CASE left # -1
        <5>1. left \in Nat /\ left < NumRestarts(b)
          BY <2>1, <4>1, <4>3, RestartBeforeIs
        <5>2. PICK r : r = SeekToRestartPoint(b, it, left)
          OBVIOUS
        <5>3. Ready(b, r)
          BY <2>2, <5>1, <5>2, RestartIsReady
        <5>4. IterSeek(b, it, target) = WhileLess(b, r, target)
          BY <4>1, <4>3, <5>2 DEF IterSeek, WhileLess
        <5>5. Stands(b, WhileLess(b, r, target))
          BY <5>3, WhileLessStands
        <5> QED BY <5>4, <5>5
      <4> QED BY <4>2, <4>3
    <3> QED BY <1>2, <2>5, <3>1 DEF IterCall
  <2>6. CASE fn = "Next"
    <3>1. Stands(b, IterNext(b, it))
      BY <2>6, StandingIsReady, ParseStands DEF IterNext
    <3> QED BY <1>2, <2>6, <3>1 DEF IterCall
  <2>7. CASE fn = "Prev"
    <3>1. Stands(b, IterPrev(b, it))
      <4> DEFINE S == {i \in 0 .. it.restart_index : GetRestartPoint(b, i) < it.current}
      <4>1. it.restart_index \in Nat /\ it.restart_index < NumRestarts(b)
        BY <2>7 DEF Stands, RegionHolds
      <4>2. CASE S = {}
        <5>1. IterPrev(b, it) = Exhausted(b, it)
          BY <4>2 DEF IterPrev
        <5> QED BY <2>2, <5>1, ExhaustedStands
      <4>3. CASE S # {}
        <5>1. S \in SUBSET Nat /\ \A k \in S : k <= it.restart_index
          BY <4>1
        <5>2. PICK m : m = Max(S)
          OBVIOUS
        <5>3. m \in S
          <6> HIDE DEF S
          <6> QED BY <4>1, <4>3, <5>1, <5>2, GreatestOf
        <5>4. m \in Nat /\ m < NumRestarts(b)
          BY <2>1, <4>1, <5>3
        <5>5. PICK r : r = SeekToRestartPoint(b, it, m)
          OBVIOUS
        <5>6. PICK limit : limit = it.current
          OBVIOUS
        <5>7. Ready(b, r)
          BY <2>2, <5>4, <5>5, RestartIsReady
        <5>8. IterPrev(b, it) = WhileNext(b, r, limit)
          BY <4>3, <5>2, <5>5, <5>6 DEF IterPrev, WhileNext
        <5>9. Stands(b, WhileNext(b, r, limit))
          BY <5>7, WhileNextStands
        <5> QED BY <5>8, <5>9
      <4> QED BY <4>2, <4>3
    <3> QED BY <1>2, <2>7, <3>1 DEF IterCall
  <2> QED BY <2>3, <2>4, <2>5, <2>6, <2>7
<1> QED BY <1>1, <1>2

LEMMA NewStands ==
  ASSUME NEW b, BlockType(b)
  PROVE  Stands(b, NewIter(b))
<1>1. Restarts(b) \in Nat
  BY BlockIs
<1>2. PICK i : i = NewIter(b)
  OBVIOUS
<1>3. IsIter(i) /\ i.current = Restarts(b)
  BY <1>2 DEF NewIter, IsIter
<1>4. ~IterValid(b, i)
  BY <1>1, <1>3 DEF IterValid
<1> QED BY <1>1, <1>2, <1>3, <1>4 DEF Stands, RegionHolds

-----------------------------------------------------------------------------
(* The blocks that BlockBuilder makes.                                     *)

Sorted(keys, s) ==
  /\ s \in [1 .. Cardinality(keys) -> keys]
  /\ \A i, j \in 1 .. Cardinality(keys) : i < j => s[i] < s[j]

LEMMA SortedExists ==
  ASSUME NEW keys \in SUBSET Nat, IsFiniteSet(keys)
  PROVE  \E s : Sorted(keys, s)
<1> DEFINE Unsorted(S) == S \in SUBSET Nat /\ IsFiniteSet(S) /\ ~\E s : Sorted(S, s)
           Bad == {n \in Nat : \E S : Unsorted(S) /\ Cardinality(S) = n}
<1> SUFFICES ASSUME Unsorted(keys) PROVE FALSE
  OBVIOUS
<1>1. Bad # {}
  <2>1. Cardinality(keys) \in Nat
    BY FS_CardinalityType
  <2> QED BY <2>1
<1>2. PICK n \in Bad : \A j \in Nat : j < n => j \notin Bad
  BY <1>1, LeastOf
<1>3. PICK S : Unsorted(S) /\ Cardinality(S) = n
  BY <1>2
<1>4. n \in Nat /\ n # 0
  <2>1. ASSUME n = 0 PROVE FALSE
    <3> DEFINE s == [i \in 1 .. 0 |-> 0]
    <3>1. s \in [1 .. 0 -> S]
      OBVIOUS
    <3> HIDE DEF s
    <3>2. Sorted(S, s)
      BY <1>3, <2>1, <3>1 DEF Sorted
    <3> QED BY <1>3, <3>2
  <2> QED BY <1>2, <2>1
<1>5. S # {} /\ S \in SUBSET Nat /\ IsFiniteSet(S)
  BY <1>3, <1>4, FS_EmptySet
<1>6. PICK m \in S : \A j \in Nat : j < m => j \notin S
  BY <1>5, LeastOf
<1> DEFINE R == S \ {m}
<1>7. IsFiniteSet(R) /\ Cardinality(R) = n - 1
  BY <1>3, <1>5, <1>6, FS_RemoveElement
<1>8. R \in SUBSET Nat /\ \A k \in R : k \in Nat /\ m < k
  BY <1>5, <1>6
<1> HIDE DEF R
<1>9. PICK r : Sorted(R, r)
  <2>1. n - 1 \in Nat /\ n - 1 < n
    BY <1>4
  <2> QED BY <1>2, <1>7, <1>8, <2>1
<1>10. r \in [1 .. n - 1 -> R] /\ \A i, j \in 1 .. n - 1 : i < j => r[i] < r[j]
  BY <1>7, <1>9 DEF Sorted
<1> DEFINE s == [i \in 1 .. n |-> IF i = 1 THEN m ELSE r[i - 1]]
<1>11. s[1] = m /\ \A i \in 2 .. n : s[i] = r[i - 1] /\ s[i] \in R
  <2>1. \A i \in 2 .. n : i \in 1 .. n /\ i # 1 /\ i - 1 \in 1 .. n - 1
    BY <1>4
  <2>2. 1 \in 1 .. n
    BY <1>4
  <2> QED BY <1>10, <2>1, <2>2
<1>12. s \in [1 .. n -> S]
  <2>1. \A i \in 1 .. n : i = 1 \/ i \in 2 .. n
    BY <1>4
  <2>2. \A i \in 1 .. n : s[i] \in S
    <3> HIDE DEF s
    <3> QED BY <1>6, <1>11, <2>1 DEF R
  <2> QED BY <2>2
<1> HIDE DEF s
<1>13. ASSUME NEW i \in 1 .. n, NEW j \in 1 .. n, i < j PROVE s[i] < s[j]
  <2>1. j \in 2 .. n /\ s[j] = r[j - 1] /\ s[j] \in R
    <3>1. j \in 2 .. n
      BY <1>4, <1>13
    <3> QED BY <1>11, <3>1
  <2>2. CASE i = 1
    BY <1>8, <1>11, <2>1, <2>2
  <2>3. CASE i # 1
    <3>1. i \in 2 .. n /\ i - 1 \in 1 .. n - 1 /\ j - 1 \in 1 .. n - 1 /\ i - 1 < j - 1
      BY <1>4, <1>13, <2>3
    <3> QED BY <1>10, <1>11, <2>1, <3>1
  <2> QED BY <2>2, <2>3
<1>14. Sorted(S, s)
  BY <1>3, <1>12, <1>13 DEF Sorted
<1> QED BY <1>3, <1>14

LEMMA InOrderIs ==
  ASSUME NEW keys \in SUBSET Nat, IsFiniteSet(keys)
  PROVE  /\ InOrder(keys) \in [1 .. Cardinality(keys) -> keys]
         /\ Cardinality(keys) \in Nat
<1>1. PICK s : Sorted(keys, s)
  BY SortedExists
<1>2. Cardinality(keys) \in Nat
  BY FS_CardinalityType
<1> QED BY <1>1, <1>2 DEF InOrder, Sorted

IsSequence(s) == \E S : s \in Seq(S)

(* An entry, and a builder, whose values are in V.                         *)
EntryWith(e, V) ==
  e = [header |-> e.header, delta |-> e.delta, value |-> e.value] /\ e.value \in V

Builds(b, V) ==
  /\ IsSequence(b.entries) /\ b.restarts \in Seq(Nat)
  /\ \A i \in DOMAIN b.entries : EntryWith(b.entries[i], V)

LEMMA AddBuilds ==
  ASSUME NEW b, NEW V, Builds(b, V), NEW k, NEW v \in V, NEW interval
  PROVE  Builds(BlockAdd(b, k, v, interval), V)
<1>1. PICK S : b.entries \in Seq(S)
  BY DEF Builds, IsSequence
<1>2. PICK e : EntryWith(e, V) /\ BlockAdd(b, k, v, interval).entries = Append(b.entries, e)
  <2> DEFINE share == b.counter < interval
             shared == IF share THEN SharedPrefix(b.last_key, k) ELSE 0
             entry == [header |-> Header(shared, Len(k) - shared, v),
                       delta |-> SubSeq(k, shared + 1, Len(k)), value |-> v]
  <2>1. EntryWith(entry, V)
    BY DEF EntryWith
  <2>2. BlockAdd(b, k, v, interval).entries = Append(b.entries, entry)
    BY DEF BlockAdd
  <2> HIDE DEF share, shared, entry
  <2>3. PICK e : e = entry
    OBVIOUS
  <2>4. EntryWith(e, V) /\ BlockAdd(b, k, v, interval).entries = Append(b.entries, e)
    BY <2>1, <2>2, <2>3
  <2> QED BY <2>4
<1>3. PICK T : T = S \cup {e}
  OBVIOUS
<1>4. PICK n \in Nat : n = Len(b.entries) /\ DOMAIN b.entries = 1 .. n
  BY <1>1
<1>5. b.entries \in Seq(T) /\ e \in T
  <2>1. \A i \in 1 .. n : b.entries[i] \in T
    BY <1>1, <1>3, <1>4
  <2> QED BY <1>1, <1>3, <1>4, <2>1
<1>6. PICK es : es = Append(b.entries, e)
  OBVIOUS
<1>7. es \in Seq(T) /\ Len(es) = n + 1 /\ es[n + 1] = e /\ \A i \in 1 .. n : es[i] = b.entries[i]
  BY <1>4, <1>5, <1>6
<1>8. \A i \in DOMAIN es : EntryWith(es[i], V)
  <2>1. DOMAIN es = 1 .. n + 1
    BY <1>7
  <2>2. \A i \in 1 .. n : EntryWith(es[i], V)
    BY <1>4, <1>7 DEF Builds
  <2>3. \A i \in 1 .. n + 1 : i \in 1 .. n \/ i = n + 1
    OBVIOUS
  <2>4. EntryWith(es[n + 1], V)
    BY <1>2, <1>7
  <2> QED BY <2>1, <2>2, <2>3, <2>4
<1>9. BlockAdd(b, k, v, interval).restarts \in Seq(Nat)
  <2>1. b.restarts \in Seq(Nat) /\ Len(b.entries) \in Nat
    BY <1>4 DEF Builds
  <2>2. BlockAdd(b, k, v, interval).restarts \in {b.restarts, Append(b.restarts, Len(b.entries))}
    BY DEF BlockAdd
  <2>3. PICK r \in Seq(Nat) : r = b.restarts
    BY <2>1
  <2>4. PICK l \in Nat : l = Len(b.entries)
    BY <2>1
  <2>5. Append(r, l) \in Seq(Nat)
    OBVIOUS
  <2> QED BY <2>2, <2>3, <2>4, <2>5
<1>10. IsSequence(es)
  BY <1>7 DEF IsSequence
<1> QED BY <1>2, <1>6, <1>8, <1>9, <1>10 DEF Builds

(* One key added, and the fold over a set of indices of s.                 *)
Added(p, b, k) == BlockAdd(b, Bytes[k], p.value[k], p.interval)

Folds(p, s, n, h) ==
  h = [t \in SUBSET (1 .. n) |->
         IF t = {} THEN NewBlockBuilder ELSE Added(p, h[t \ {Max(t)}], s[Max(t)])]

LEMMA MaxIs ==
  ASSUME NEW n \in Nat, NEW t \in SUBSET (1 .. n), t # {}
  PROVE  Max(t) \in t /\ Max(t) \in Nat /\ \A j \in t : j <= Max(t)
<1>1. t \in SUBSET Nat /\ \A j \in t : j <= n
  OBVIOUS
<1> QED BY <1>1, GreatestOf

LEMMA FoldExists ==
  ASSUME NEW p, NEW s, NEW n \in Nat
  PROVE  \E h : Folds(p, s, n, h)
<1> DEFINE Bad == {m \in Nat : ~\E h : Folds(p, s, m, h)}
<1> SUFFICES ASSUME Bad # {} PROVE FALSE
  OBVIOUS
<1>1. PICK m \in Bad : \A j \in Nat : j < m => j \notin Bad
  BY LeastOf
<1>2. m \in Nat /\ m # 0
  <2> DEFINE h == [t \in SUBSET (1 .. 0) |-> NewBlockBuilder]
  <2>1. h = [t \in SUBSET (1 .. 0) |->
               IF t = {} THEN NewBlockBuilder ELSE Added(p, h[t \ {Max(t)}], s[Max(t)])]
    <3>1. \A t \in SUBSET (1 .. 0) : t = {}
      OBVIOUS
    <3> QED BY <3>1
  <2> HIDE DEF h
  <2>2. Folds(p, s, 0, h)
    BY <2>1 DEF Folds
  <2> QED BY <1>1, <2>2
<1>3. PICK h : Folds(p, s, m - 1, h)
  <2>1. m - 1 \in Nat /\ m - 1 < m
    BY <1>2
  <2> QED BY <1>1, <2>1
<1> DEFINE f == [t \in SUBSET (1 .. m) |-> IF m \in t THEN Added(p, h[t \ {m}], s[m]) ELSE h[t]]
<1>4. /\ \A t \in SUBSET (1 .. m) : f[t] = IF m \in t THEN Added(p, h[t \ {m}], s[m]) ELSE h[t]
      /\ f = [t \in SUBSET (1 .. m) |-> f[t]]
  OBVIOUS
<1> HIDE DEF f
<1>5. ASSUME NEW t \in SUBSET (1 .. m), m \notin t PROVE t \in SUBSET (1 .. m - 1) /\ f[t] = h[t]
  <2>1. \A j \in t : j \in 1 .. m /\ j # m
    BY <1>5
  <2>2. \A j \in 1 .. m : j # m => j \in 1 .. m - 1
    BY <1>2
  <2>3. \A j \in t : j \in 1 .. m - 1
    BY <2>1, <2>2
  <2> QED BY <1>4, <1>5, <2>3
<1>6. ASSUME NEW t \in SUBSET (1 .. m)
      PROVE  f[t] = IF t = {} THEN NewBlockBuilder ELSE Added(p, f[t \ {Max(t)}], s[Max(t)])
  <2>1. CASE m \in t
    <3>1. Max(t) = m
      <4>1. Max(t) \in t /\ Max(t) \in Nat /\ m <= Max(t)
        BY <1>2, <2>1, MaxIs
      <4>2. Max(t) <= m
        BY <4>1
      <4> QED BY <1>2, <4>1, <4>2
    <3>2. f[t \ {m}] = h[t \ {m}]
      <4>1. t \ {m} \in SUBSET (1 .. m) /\ m \notin t \ {m}
        OBVIOUS
      <4> QED BY <1>5, <4>1
    <3> QED BY <1>4, <2>1, <3>1, <3>2
  <2>2. CASE m \notin t
    <3>1. t \in SUBSET (1 .. m - 1) /\ f[t] = h[t]
      BY <1>5, <2>2
    <3>2. h[t] = IF t = {} THEN NewBlockBuilder ELSE Added(p, h[t \ {Max(t)}], s[Max(t)])
      BY <1>3, <3>1 DEF Folds
    <3>3. f[t \ {Max(t)}] = h[t \ {Max(t)}]
      <4>1. PICK u : u = t \ {Max(t)}
        OBVIOUS
      <4>2. u \in SUBSET (1 .. m) /\ m \notin u
        BY <2>2, <4>1
      <4> QED BY <1>5, <4>1, <4>2
    <3> QED BY <3>1, <3>2, <3>3
  <2> QED BY <2>1, <2>2
<1>7. Folds(p, s, m, f)
  BY <1>4, <1>6 DEF Folds
<1> QED BY <1>1, <1>7

LEMMA NewBuilds ==
  ASSUME NEW V
  PROVE  Builds(NewBlockBuilder, V)
<1>1. PICK b : b = NewBlockBuilder
  OBVIOUS
<1>2. b.entries = <<>> /\ b.restarts = <<0>>
  BY <1>1 DEF NewBlockBuilder
<1>3. b.entries \in Seq({}) /\ b.restarts \in Seq(Nat) /\ DOMAIN b.entries = {}
  BY <1>2
<1> QED BY <1>1, <1>3 DEF Builds, IsSequence

LEMMA FoldBuilds ==
  ASSUME NEW p, NEW s, NEW n \in Nat, NEW h, Folds(p, s, n, h), NEW V,
         \A i \in 1 .. n : p.value[s[i]] \in V
  PROVE  Builds(h[1 .. n], V)
<1> DEFINE Bad == {m \in Nat : m <= n /\ ~Builds(h[1 .. m], V)}
<1> SUFFICES ASSUME Bad # {} PROVE FALSE
  BY DEF Bad
<1>1. PICK m \in Bad : \A j \in Nat : j < m => j \notin Bad
  BY LeastOf
<1>2. m \in Nat /\ m <= n /\ 1 .. m \in SUBSET (1 .. n)
  OBVIOUS
<1>3. h[1 .. m] = IF 1 .. m = {} THEN NewBlockBuilder
                  ELSE Added(p, h[(1 .. m) \ {Max(1 .. m)}], s[Max(1 .. m)])
  BY <1>2 DEF Folds
<1>4. CASE m = 0
  <2>1. 1 .. m = {}
    BY <1>4
  <2> QED BY <1>3, <2>1, NewBuilds
<1>5. CASE m # 0
  <2>0. m \in 1 .. m
    BY <1>2, <1>5
  <2>1. m \in 1 .. m /\ 1 .. m \in SUBSET (1 .. m) /\ 1 .. m # {}
    BY <2>0
  <2>2. Max(1 .. m) = m
    <3>1. PICK t : t = 1 .. m
      OBVIOUS
    <3>2. Max(t) \in t /\ Max(t) \in Nat /\ \A j \in t : j <= Max(t)
      BY <1>2, <2>1, <3>1, MaxIs
    <3>3. Max(t) <= m /\ m <= Max(t)
      BY <2>1, <3>1, <3>2
    <3> QED BY <1>2, <3>1, <3>2, <3>3
  <2>3. (1 .. m) \ {m} = 1 .. m - 1
    BY <1>2
  <2>4. h[1 .. m] = Added(p, h[1 .. m - 1], s[m])
    BY <1>3, <2>1, <2>2, <2>3
  <2>5. Builds(h[1 .. m - 1], V)
    <3>1. m - 1 \in Nat /\ m - 1 < m /\ m - 1 <= n
      BY <1>2, <1>5
    <3> QED BY <1>1, <3>1
  <2>6. p.value[s[m]] \in V
    BY <1>2, <1>5
  <2>7. Builds(h[1 .. m], V)
    BY <2>4, <2>5, <2>6, AddBuilds DEF Added
  <2> QED BY <1>1, <2>7
<1> QED BY <1>4, <1>5

(* A block whose values are in V.                                          *)
BlockWith(b, V) ==
  /\ BlockType(b) /\ IsSequence(b.entries)
  /\ b = [entries |-> b.entries, restarts |-> b.restarts]
  /\ \A i \in 1 .. Len(b.entries) : EntryWith(b.entries[i], V)

LEMMA BuildBlockIs ==
  ASSUME NEW keys \in SUBSET Nat, IsFiniteSet(keys), NEW value, NEW interval, NEW V,
         \A k \in keys : value[k] \in V
  PROVE  BlockWith(BuildBlock(keys, value, interval), V)
<1>1. PICK n \in Nat : n = Cardinality(keys)
  BY InOrderIs
<1>2. PICK s \in [1 .. n -> keys] : s = InOrder(keys)
  BY <1>1, InOrderIs
<1>3. PICK p : p.value = value /\ p.interval = interval
  <2> DEFINE q == [value |-> value, interval |-> interval]
  <2> QED BY q.value = value /\ q.interval = interval
<1> DEFINE Is(h) ==
      h = [t \in SUBSET (DOMAIN s) |->
             IF t = {} THEN NewBlockBuilder
             ELSE BlockAdd(h[t \ {Max(t)}], Bytes[s[Max(t)]], value[s[Max(t)]], interval)]
           fold == CHOOSE h : Is(h)
<1>4. BuildBlock(keys, value, interval) = BlockFinish(fold[DOMAIN s])
  BY <1>2 DEF BuildBlock, FoldLeft, MapThenFoldSet
<1>5. DOMAIN s = 1 .. n
  OBVIOUS
<1>6. ASSUME NEW h PROVE Is(h) <=> Folds(p, s, n, h)
  BY <1>3, <1>5 DEF Folds, Added
<1>7. PICK h : Folds(p, s, n, h)
  BY FoldExists
<1> HIDE DEF Is
<1>8. Is(fold)
  BY <1>6, <1>7
<1> HIDE DEF fold
<1>9. Folds(p, s, n, fold)
  BY <1>6, <1>8
<1>10. Builds(fold[1 .. n], V)
  <2>1. \A i \in 1 .. n : p.value[s[i]] \in V
    BY <1>3
  <2> QED BY <1>9, <2>1, FoldBuilds
<1>11. PICK b : b = fold[1 .. n]
  OBVIOUS
<1>12. PICK S : b.entries \in Seq(S)
  BY <1>10, <1>11 DEF Builds, IsSequence
<1>13. Len(b.entries) \in Nat /\ DOMAIN b.entries = 1 .. Len(b.entries)
  BY <1>12
<1>14. PICK c : c = BlockFinish(b)
  OBVIOUS
<1>15. /\ c.entries = b.entries /\ c.restarts = b.restarts
       /\ c = [entries |-> c.entries, restarts |-> c.restarts]
  BY <1>14 DEF BlockFinish
<1>16. BlockWith(c, V)
  BY <1>10, <1>11, <1>13, <1>15 DEF BlockWith, BlockType, Builds
<1> QED BY <1>4, <1>5, <1>11, <1>14, <1>16

LEMMA DamagedIs ==
  ASSUME NEW b, NEW V, BlockWith(b, V), NEW n, NEW t
  PROVE  BlockWith(Damaged(b, n, t), V)
<1>1. CASE t.damage.block # n
  BY <1>1 DEF Damaged
<1>2. CASE t.damage.block = n
  <2>1. PICK S : b.entries \in Seq(S)
    BY DEF BlockWith, IsSequence
  <2>2. PICK l \in Nat : l = Len(b.entries) /\ DOMAIN b.entries = 1 .. l
    BY <2>1
  <2>3. PICK d, hd : d = t.damage.entry /\ hd = t.damage.header
    OBVIOUS
  <2>4. PICK e : e = [b.entries[d] EXCEPT !.header = hd]
    OBVIOUS
  <2>5. PICK es : es = [b.entries EXCEPT ![d] = e]
    OBVIOUS
  <2>6. PICK T : T = S \cup {e}
    OBVIOUS
  <2>7. /\ DOMAIN es = 1 .. l
        /\ \A i \in 1 .. l : es[i] = IF i = d THEN e ELSE b.entries[i]
    BY <2>1, <2>2, <2>5
  <2>8. es = [i \in 1 .. l |-> es[i]] /\ \A i \in 1 .. l : es[i] \in T
    BY <2>1, <2>2, <2>5, <2>6, <2>7
  <2>9. es \in Seq(T) /\ Len(es) = l
    BY <2>7, <2>8
  <2>10. ASSUME NEW i \in 1 .. l PROVE EntryWith(es[i], V)
    <3>1. EntryWith(b.entries[i], V)
      BY <2>2 DEF BlockWith
    <3>2. CASE i = d
      <4>1. PICK x : x = b.entries[d]
        OBVIOUS
      <4>2. EntryWith(x, V) /\ e = [x EXCEPT !.header = hd]
        BY <2>4, <3>1, <3>2, <4>1
      <4>3. EntryWith(e, V)
        BY <4>2 DEF EntryWith
      <4> QED BY <2>7, <3>2, <4>3
    <3>3. CASE i # d
      BY <2>7, <3>1, <3>3
    <3> QED BY <3>2, <3>3
  <2>11. PICK c : c = [b EXCEPT !.entries = es]
    OBVIOUS
  <2>12. Damaged(b, n, t) = c
    BY <1>2, <2>3, <2>4, <2>5, <2>11 DEF Damaged
  <2>13. c.entries = es /\ c.restarts = b.restarts /\ c = [entries |-> c.entries, restarts |-> c.restarts]
    BY <2>11 DEF BlockWith
  <2>14. IsSequence(es)
    BY <2>9 DEF IsSequence
  <2>15. BlockType(c)
    BY <2>9, <2>13 DEF BlockWith, BlockType
  <2>16. BlockWith(c, V)
    BY <2>9, <2>10, <2>13, <2>14, <2>15 DEF BlockWith
  <2> QED BY <2>12, <2>16
<1> QED BY <1>1, <1>2

LEMMA DataBlockIs ==
  ASSUME NEW t \in Layouts, NEW i \in 1 .. t.n
  PROVE  BlockWith(DataBlock(t, i), Key)
<1>1. CASE t.bare /\ t.block[i] = {}
  <2>1. PICK b : b = [entries |-> <<>>, restarts |-> <<>>]
    OBVIOUS
  <2>2. b.entries = <<>> /\ b.restarts = <<>> /\ b = [entries |-> b.entries, restarts |-> b.restarts]
    BY <2>1
  <2>3. b.entries \in Seq(Nat) /\ b.restarts \in Seq(Nat) /\ Len(b.entries) = 0
    BY <2>2
  <2>4. BlockWith(b, Key)
    BY <2>2, <2>3 DEF BlockWith, BlockType, IsSequence
  <2> QED BY <1>1, <2>1, <2>4 DEF DataBlock
<1>2. CASE ~(t.bare /\ t.block[i] = {})
  <2>1. PICK keys : keys = t.block[i]
    OBVIOUS
  <2>2. keys \in SUBSET Key /\ keys \in SUBSET Nat /\ IsFiniteSet(keys)
    BY <2>1, LayoutAssumption, KeyAssumption DEF WellFormed
  <2>3. PICK value : value = [k \in Key |-> k]
    OBVIOUS
  <2>4. \A k \in keys : value[k] \in Key
    BY <2>2, <2>3
  <2>5. BlockWith(BuildBlock(keys, value, t.interval), Key)
    BY <2>2, <2>4, BuildBlockIs
  <2>6. DataBlock(t, i) = Damaged(BuildBlock(keys, value, t.interval), i, t)
    BY <1>2, <2>1, <2>3 DEF DataBlock
  <2> QED BY <2>5, <2>6, DamagedIs
<1> QED BY <1>1, <1>2

LEMMA IndexBlockIs ==
  ASSUME NEW t \in Layouts
  PROVE  BlockWith(IndexBlock(t), 1 .. t.n)
<1>1. PICK n \in Nat : n = t.n
  BY LayoutAssumption DEF WellFormed
<1>2. PICK sep \in [1 .. n -> Key] : sep = t.sep
  BY <1>1, LayoutAssumption DEF WellFormed
<1>3. \A i, j \in 1 .. n : i < j => sep[i] < sep[j]
  BY <1>1, <1>2, LayoutAssumption DEF WellFormed
<1> DEFINE keys == {sep[i] : i \in 1 .. n}
           At(k) == {0} \cup {i \in 1 .. n : sep[i] = k}
<1>4. keys \in SUBSET Key /\ keys \in SUBSET Nat
  BY KeyAssumption
<1>5. IsFiniteSet(keys)
  <2>1. CASE n = 0
    <3>1. keys = {}
      BY <2>1
    <3> QED BY <3>1, FS_EmptySet
  <2>2. CASE n # 0
    <3>1. n \in 1 .. n
      BY <2>2
    <3>2. PICK m \in Nat : m = sep[n]
      BY <3>1, KeyAssumption
    <3>3. \A i \in 1 .. n : sep[i] \in Nat
      BY KeyAssumption
    <3>a. \A i \in 1 .. n : i = n \/ i < n
      OBVIOUS
    <3>4. \A k \in keys : k <= m
      BY <1>3, <3>1, <3>2, <3>3, <3>a
    <3> HIDE DEF keys
    <3> QED BY <1>4, <3>4, FS_BoundedSetOfNaturals
  <2> QED BY <2>1, <2>2
<1>6. ASSUME NEW k \in keys PROVE Max(At(k)) \in 1 .. n
  <2>1. PICK i \in 1 .. n : sep[i] = k
    OBVIOUS
  <2>2. At(k) \in SUBSET Nat /\ At(k) # {} /\ i \in At(k) /\ \A j \in At(k) : j <= n
    BY <2>1
  <2>3. \A j \in At(k) : j = 0 \/ j \in 1 .. n
    OBVIOUS
  <2> HIDE DEF At
  <2>4. Max(At(k)) \in At(k) /\ i <= Max(At(k))
    BY <2>2, GreatestOf
  <2>5. Max(At(k)) # 0
    BY <2>1, <2>4
  <2> QED BY <2>3, <2>4, <2>5
<1>7. PICK value : value = [k \in Key |-> Max(At(k))]
  OBVIOUS
<1>8. \A k \in keys : value[k] \in 1 .. n
  <2> HIDE DEF At, keys
  <2> QED BY <1>4, <1>6, <1>7
<1>9. PICK ks : ks = keys
  OBVIOUS
<1>10. IndexBlock(t) = Damaged(BuildBlock(ks, value, 1), 0, t)
  BY <1>1, <1>2, <1>7, <1>9 DEF IndexBlock
<1>11. BlockWith(BuildBlock(ks, value, 1), 1 .. n)
  <2> HIDE DEF keys
  <2> QED BY <1>4, <1>5, <1>8, <1>9, BuildBlockIs
<1> QED BY <1>1, <1>10, <1>11, DamagedIs

-----------------------------------------------------------------------------
(* The two levels.                                                         *)

TableType ==
  /\ table.layout.n \in Nat
  /\ BlockWith(table.index, 1 .. table.layout.n)
  /\ \A i \in BlockNo : BlockWith(table.data[i], Key)

(* A data iterator belongs to the entry of the index iterator.             *)
DataIn(index, d) ==
  \/ d = NoIterator
  \/ /\ d = [block |-> d.block, read |-> d.read, it |-> d.it]
     /\ IterValid(table.index, index) /\ d.block = IterValue(table.index, index)
     /\ d.block \in BlockNo /\ Stands(table.data[d.block], d.it)

LevelsInv ==
  /\ TableType
  /\ Stands(table.index, index_)
  /\ DataIn(index_, data_)
  /\ pc = "idle" => data_ = NoIterator \/ Valid

SeekCalls == {"SeekToFirst", "SeekToLast", "Seek"}
Moves == SeekCalls \cup {"Next", "Prev"}

LEMMA IndexValues ==
  ASSUME TableType, NEW index, Stands(table.index, index), IterValid(table.index, index)
  PROVE  IterValue(table.index, index) \in BlockNo
<1>1. PICK l \in Nat : l = Len(table.index.entries)
  BY DEF TableType, BlockWith, BlockType
<1>2. index.current \in Nat /\ index.current < l
  BY <1>1 DEF Stands, IterValid, Restarts
<1>3. index.current + 1 \in 1 .. l
  BY <1>2
<1> QED BY <1>1, <1>3 DEF TableType, BlockWith, EntryWith, IterValue, Entry, BlockNo

LEMMA NoIteratorReads == ~NoIterator.read /\ NoIterator.block = NULL
BY DEF NoIterator

LEMMA DataAfterIn ==
  ASSUME TableType, NEW index, NEW d, DataIn(index, d), NEW op, op.fn \in Moves,
         op.fn \in {"Next", "Prev"} => d.read /\ IterValid(table.data[d.block], d.it)
  PROVE  DataIn(index, DataAfter(d, op))
<1>1. CASE ~d.read
  BY <1>1 DEF DataAfter
<1>2. CASE d.read
  <2>1. /\ d = [block |-> d.block, read |-> d.read, it |-> d.it]
        /\ IterValid(table.index, index) /\ d.block = IterValue(table.index, index)
        /\ d.block \in BlockNo /\ Stands(table.data[d.block], d.it)
    BY <1>2, NoIteratorReads DEF DataIn
  <2>2. BlockType(table.data[d.block])
    BY <2>1 DEF TableType, BlockWith
  <2>3. PICK it : it = IterCall(table.data[d.block], d.it, op.fn, Target(op))
    OBVIOUS
  <2>4. Stands(table.data[d.block], it)
    <3>1. PICK fn : fn = op.fn
      OBVIOUS
    <3>2. fn \in {"SeekToFirst", "SeekToLast", "Seek", "Next", "Prev"}
      BY <3>1 DEF Moves, SeekCalls
    <3> QED BY <2>1, <2>2, <2>3, <3>1, <3>2, CallStands
  <2>5. PICK e : e = [d EXCEPT !.it = it]
    OBVIOUS
  <2>6. e = [block |-> e.block, read |-> e.read, it |-> e.it] /\ e.block = d.block /\ e.it = it
    BY <2>1, <2>5
  <2>7. DataAfter(d, op) = e
    BY <1>2, <2>3, <2>5 DEF DataAfter
  <2> QED BY <2>1, <2>4, <2>6, <2>7 DEF DataIn
<1> QED BY <1>1, <1>2

LEMMA InitDataIn ==
  ASSUME LevelsInv, NEW index, Stands(table.index, index), NEW d \in InitDataBlock(index)
  PROVE  DataIn(index, d)
<1>1. CASE ~IterValid(table.index, index)
  BY <1>1 DEF InitDataBlock, DataIn
<1>2. CASE IterValid(table.index, index)
  <2>1. PICK v : v = IterValue(table.index, index)
    OBVIOUS
  <2>2. v \in BlockNo /\ v # NULL
    <3>1. v \in BlockNo
      BY <1>2, <2>1, IndexValues DEF LevelsInv
    <3> QED BY <3>1 DEF BlockNo, NULL, LevelsInv, TableType
  <2>3. CASE data_.block = v
    <3>1. d = data_
      BY <1>2, <2>1, <2>3 DEF InitDataBlock
    <3>2. data_ # NoIterator
      BY <2>2, <2>3, NoIteratorReads
    <3> QED BY <1>2, <2>1, <2>3, <3>1, <3>2 DEF LevelsInv, DataIn
  <2>4. CASE data_.block # v
    <3>1. d \in NewDataIterator(v)
      BY <1>2, <2>1, <2>4 DEF InitDataBlock
    <3>2. PICK r \in BOOLEAN : d = [block |-> v, read |-> r, it |-> NewIter(table.data[v])]
      BY <3>1 DEF NewDataIterator
    <3>3. /\ d.block = v /\ d.it = NewIter(table.data[v])
          /\ d = [block |-> d.block, read |-> d.read, it |-> d.it]
      BY <3>2
    <3>4. BlockType(table.data[v])
      BY <2>2 DEF LevelsInv, TableType, BlockWith
    <3>5. Stands(table.data[v], d.it)
      BY <3>3, <3>4, NewStands
    <3> QED BY <1>2, <2>1, <2>2, <3>3, <3>5 DEF DataIn
  <2> QED BY <2>3, <2>4
<1> QED BY <1>1, <1>2

LEMMA MoveBothIn ==
  ASSUME LevelsInv, NEW iop, NEW dop, MoveBoth(iop, dop), table' = table,
         iop.fn \in Moves, iop.fn \in {"Next", "Prev"} => IndexValid, dop.fn \in SeekCalls
  PROVE  Stands(table.index, index_') /\ DataIn(index_', data_')
<1>1. index_' = IndexAfter(iop)
  BY DEF MoveBoth
<1>2. PICK d \in InitDataBlock(index_') : data_' = DataAfter(d, dop)
  BY <1>1 DEF MoveBoth
<1>3. Stands(table.index, IndexAfter(iop))
  <2>1. PICK fn : fn = iop.fn
    OBVIOUS
  <2>2. fn \in {"SeekToFirst", "SeekToLast", "Seek", "Next", "Prev"}
    BY <2>1 DEF Moves, SeekCalls
  <2>3. BlockType(table.index) /\ Stands(table.index, index_)
    BY DEF LevelsInv, TableType, BlockWith
  <2>4. fn \in {"Next", "Prev"} => IterValid(table.index, index_)
    BY <2>1 DEF IndexValid
  <2> QED BY <2>1, <2>2, <2>3, <2>4, CallStands DEF IndexAfter
<1>4. PICK index : index = index_'
  OBVIOUS
<1>5. Stands(table.index, index) /\ d \in InitDataBlock(index)
  BY <1>1, <1>2, <1>3, <1>4
<1>6. DataIn(index, d)
  BY <1>5, InitDataIn
<1>7. dop.fn \in Moves /\ dop.fn \notin {"Next", "Prev"}
  BY DEF Moves, SeekCalls
<1>8. DataIn(index, DataAfter(d, dop))
  BY <1>6, <1>7, DataAfterIn DEF LevelsInv
<1> QED BY <1>2, <1>4, <1>5, <1>8

LEMMA InitLevels == Init => LevelsInv
<1> SUFFICES ASSUME Init PROVE LevelsInv
  OBVIOUS
<1>1. PICK t \in Layouts :
        table = [layout |-> t, index |-> IndexBlock(t), data |-> [i \in 1 .. t.n |-> DataBlock(t, i)]]
  BY DEF Init
<1>2. PICK data : data = [i \in 1 .. t.n |-> DataBlock(t, i)]
  OBVIOUS
<1>3. table.layout = t /\ table.index = IndexBlock(t) /\ table.data = data
  BY <1>1, <1>2
<1>4. \A i \in 1 .. t.n : BlockWith(table.data[i], Key)
  BY <1>2, <1>3, DataBlockIs
<1>5. t.n \in Nat
  BY LayoutAssumption DEF WellFormed
<1>6. TableType
  BY <1>3, <1>4, <1>5, IndexBlockIs DEF TableType, BlockNo
<1>7. Stands(table.index, index_)
  BY <1>6, NewStands DEF Init, TableType, BlockWith
<1> QED BY <1>6, <1>7 DEF LevelsInv, DataIn, Init

LEMMA StepLevels == LevelsInv /\ [Step]_vars => LevelsInv'
<1> SUFFICES ASSUME LevelsInv, [Step]_vars PROVE LevelsInv'
  OBVIOUS
<1> USE NoIteratorReads
<1>0. ASSUME table' = table, Stands(table.index, index_'), DataIn(index_', data_'), pc' # "idle"
      PROVE  LevelsInv'
  <2>1. TableType' /\ Stands(table.index, index_)' /\ DataIn(index_, data_)'
    BY <1>0 DEF LevelsInv, TableType, BlockNo, DataIn
  <2> QED BY <1>0, <2>1 DEF LevelsInv
<1>1. ASSUME NEW target \in Key, Seek(target) PROVE LevelsInv'
  <2>1. PICK op : op = [fn |-> "Seek", key |-> target]
    OBVIOUS
  <2>2. /\ op.fn = "Seek" /\ MoveBoth(op, op)
        /\ table' = table /\ pc' = "SkipEmptyDataBlocksForward"
    BY <1>1, <2>1 DEF Seek, Begin
  <2>3. Stands(table.index, index_') /\ DataIn(index_', data_')
    BY <2>2, MoveBothIn DEF Moves, SeekCalls
  <2> QED BY <1>0, <2>2, <2>3
<1>2. CASE SeekToFirst
  <2>1. PICK op : op = [fn |-> "SeekToFirst", key |-> NULL]
    OBVIOUS
  <2>2. /\ op.fn = "SeekToFirst" /\ MoveBoth(op, op)
        /\ table' = table /\ pc' = "SkipEmptyDataBlocksForward"
    BY <1>2, <2>1 DEF SeekToFirst, Begin
  <2>3. Stands(table.index, index_') /\ DataIn(index_', data_')
    BY <2>2, MoveBothIn DEF Moves, SeekCalls
  <2> QED BY <1>0, <2>2, <2>3
<1>3. CASE SeekToLast
  <2>1. PICK op : op = [fn |-> "SeekToLast", key |-> NULL]
    OBVIOUS
  <2>2. /\ op.fn = "SeekToLast" /\ MoveBoth(op, op)
        /\ table' = table /\ pc' = "SkipEmptyDataBlocksBackward"
    BY <1>3, <2>1 DEF SeekToLast, Begin
  <2>3. Stands(table.index, index_') /\ DataIn(index_', data_')
    BY <2>2, MoveBothIn DEF Moves, SeekCalls
  <2> QED BY <1>0, <2>2, <2>3
<1>4. CASE Next
  <2>1. PICK op : op = [fn |-> "Next", key |-> NULL]
    OBVIOUS
  <2>2. /\ op.fn = "Next" /\ Valid /\ data_' = DataAfter(data_, op) /\ index_' = index_
        /\ table' = table /\ pc' = "SkipEmptyDataBlocksForward"
    BY <1>4, <2>1 DEF Next, Begin
  <2>3. DataIn(index_, DataAfter(data_, op))
    BY <2>2, DataAfterIn DEF Valid, Moves, LevelsInv
  <2> QED BY <1>0, <2>2, <2>3 DEF LevelsInv
<1>5. CASE Prev
  <2>1. PICK op : op = [fn |-> "Prev", key |-> NULL]
    OBVIOUS
  <2>2. /\ op.fn = "Prev" /\ Valid /\ data_' = DataAfter(data_, op) /\ index_' = index_
        /\ table' = table /\ pc' = "SkipEmptyDataBlocksBackward"
    BY <1>5, <2>1 DEF Prev, Begin
  <2>3. DataIn(index_, DataAfter(data_, op))
    BY <2>2, DataAfterIn DEF Valid, Moves, LevelsInv
  <2> QED BY <1>0, <2>2, <2>3 DEF LevelsInv
<1>6. CASE SkipEmptyDataBlocksForward
  <2>1. PICK iop, dop : iop = [fn |-> "Next", key |-> NULL] /\ dop = [fn |-> "SeekToFirst", key |-> NULL]
    OBVIOUS
  <2>2. /\ iop.fn = "Next" /\ dop.fn = "SeekToFirst" /\ MoveBoth(iop, dop) /\ IndexValid
        /\ table' = table /\ pc' = "SkipEmptyDataBlocksForward"
    BY <1>6, <2>1 DEF SkipEmptyDataBlocksForward
  <2>3. Stands(table.index, index_') /\ DataIn(index_', data_')
    BY <2>2, MoveBothIn DEF Moves, SeekCalls
  <2> QED BY <1>0, <2>2, <2>3
<1>7. CASE SkipEmptyDataBlocksBackward
  <2>1. PICK iop, dop : iop = [fn |-> "Prev", key |-> NULL] /\ dop = [fn |-> "SeekToLast", key |-> NULL]
    OBVIOUS
  <2>2. /\ iop.fn = "Prev" /\ dop.fn = "SeekToLast" /\ MoveBoth(iop, dop) /\ IndexValid
        /\ table' = table /\ pc' = "SkipEmptyDataBlocksBackward"
    BY <1>7, <2>1 DEF SkipEmptyDataBlocksBackward
  <2>3. Stands(table.index, index_') /\ DataIn(index_', data_')
    BY <2>2, MoveBothIn DEF Moves, SeekCalls
  <2> QED BY <1>0, <2>2, <2>3
<1>8. CASE Return
  <2>1. table' = table /\ index_' = index_
    BY <1>8 DEF Return
  <2>2. TableType' /\ Stands(table.index, index_)'
    BY <2>1 DEF LevelsInv, TableType, BlockNo
  <2>3. CASE Valid /\ data_' = data_
    BY <2>1, <2>2, <2>3 DEF LevelsInv, DataIn, BlockNo, Valid
  <2>4. CASE data_' = NoIterator
    BY <2>2, <2>4 DEF LevelsInv, DataIn, NoIterator
  <2> QED BY <1>8, <2>3, <2>4 DEF Return
<1>9. CASE UNCHANGED vars
  BY <1>9 DEF vars, LevelsInv, TableType, BlockNo, DataIn, Valid, NoIterator
<1> QED BY <1>1, <1>2, <1>3, <1>4, <1>5, <1>6, <1>7, <1>8, <1>9 DEF Step, Skip

(* Whenever a call of TwoLevelIterator has returned, data_iter_ is Valid() *)
(* in the block of the index entry, or there is none: InitDataBlock() and  *)
(* SkipEmptyDataBlocksForward() and -Backward() never leave the data       *)
(* iterator of another block behind.  In every state restart_index_ of     *)
(* each Block::Iter is a restart point at or before current_, with no      *)
(* later one before it, as ParseNextKey(), Seek() and Prev() leave it:     *)
(* after corrupted entries too.                                            *)
THEOREM LevelsAlwaysAgree == Spec => []LevelsAgree
<1>1. LevelsInv => LevelsAgree
  BY NoIteratorReads DEF LevelsInv, LevelsAgree, DataIn, Stands, IndexValid, Valid
<1> QED BY <1>1, InitLevels, StepLevels, PTL DEF Spec
=============================================================================
