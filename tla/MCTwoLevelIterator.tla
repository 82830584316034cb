------------------------- MODULE MCTwoLevelIterator -------------------------
(* TwoLevelIterator on every table of up to three blocks, empty ones too,  *)
(* with keys at even numbers and index keys at or between them; blocks are *)
(* intact, or one entry is damaged, in a table of up to two blocks with    *)
(* index keys at even numbers.                                             *)
EXTENDS TwoLevelIterator

DataKey == {k \in Key : k % 2 = 0}

Strings == 2 :> <<1>> @@ 3 :> <<1, 0>> @@ 4 :> <<1, 1, 1>> @@ 5 :> <<1, 2>> @@ 6 :> <<2, 0>>

LayoutsOf(n) ==
  {t \in [n : {n}, block : [1 .. n -> SUBSET DataKey], sep : [1 .. n -> Key]] : WellFormed(t)}

(* A varint that does not end, lengths that lead out of the block although *)
(* their sum wraps around, and a prefix that is longer than anything.      *)
BadHeader == {<<B, B, B, B, B, B>>, Header(0, 300, 262), Header(50, 0, 0)}

Intact == {[block |-> -1, entry |-> 0, header |-> <<>>]}
Damages(t) ==
  LET size == [i \in 0 .. t.n |-> IF i = 0 THEN t.n ELSE Cardinality(t.block[i])]
  IN  UNION {[block : {i}, entry : 1 .. size[i], header : BadHeader] : i \in 0 .. t.n}

With(t, interval, damage) ==
  [n |-> t.n, block |-> t.block, sep |-> t.sep, damage |-> damage,
   interval |-> interval, bare |-> interval = 2]

MayBeDamaged(t) == t.n < 3 /\ \A i \in 1 .. t.n : t.sep[i] \in DataKey

SmallTables ==
  UNION {{With(t, i, d) : i \in {1, 2},
                          d \in Intact \cup IF MayBeDamaged(t) THEN Damages(t) ELSE {}}
         : t \in UNION {LayoutsOf(n) : n \in 0 .. 3}}
=============================================================================
