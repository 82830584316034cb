----------------------------- MODULE MCMemTable -----------------------------
(* MemTable with three writes, which reach the skip list in four of the    *)
(* six orders their internal keys can have.                                *)
EXTENDS MemTable

put(u) == [user_key |-> u, type |-> kTypeValue]
del(u) == [user_key |-> u, type |-> kTypeDeletion]

a == <<1>>
b == <<1, 1>>
c == <<2>>
TwoKeys == {a, b}

ThreeWrites ==
  {<<put(a), put(b), put(c)>>, <<put(a), put(b), del(b)>>,
   <<del(a), put(b), put(a)>>, <<put(a), del(a), put(a)>>}
=============================================================================
