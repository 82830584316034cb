------------------------------- MODULE Block --------------------------------
(***************************************************************************)
(* table/block_builder.cpp and table/block.cpp, with the varints of        *)
(* util/coding.cpp that their entries begin with.                          *)
(*                                                                         *)
(* A block is the sequence of its entries and the array of its restart     *)
(* points.  An entry is its header (the three varints), the bytes of the   *)
(* key it does not share with the one before, and its value.  An offset is *)
(* the number of entries before it, so the offset just past the entries,   *)
(* restarts_, is their number.  Values are told apart by their size only.  *)
(*                                                                         *)
(* Iter is the record of Block::Iter's fields: current_, restart_index_,   *)
(* key_, status_ (ok) and next for the end of value_, the field's only use.*)
(***************************************************************************)
EXTENDS Comparator, SequencesExt

-----------------------------------------------------------------------------
(* util/coding.cpp: the varint32 format, digits in base B from the lowest  *)
(* to the highest, all but the last one marked by adding B.                *)
CONSTANTS B,        \* 128 in the code
          Uint32    \* 2^32: the values of a uint32_t are below it

ASSUME BaseAssumption == B \in Nat \ {0, 1} /\ Uint32 \in Nat \ {0}

kMaxVarint32 == 5   \* bytes of the longest varint32

EncodeVarint32[v \in Nat] ==
  IF v < B THEN <<v>> ELSE <<(v % B) + B>> \o EncodeVarint32[v \div B]

(* The varint at the start of p: its value and what follows it, or none    *)
(* if p, or the n bytes it may have, end before a last digit.              *)
NoVarint == [ok |-> FALSE, value |-> 0, rest |-> <<>>]

GetVarint32Ptr[p \in Seq(Nat), n \in Nat] ==
  IF p = <<>> \/ n = 0 THEN NoVarint
  ELSE IF Head(p) < B THEN [ok |-> TRUE, value |-> Head(p), rest |-> Tail(p)]
  ELSE [GetVarint32Ptr[Tail(p), n - 1] EXCEPT !.value = ((Head(p) - B) + B * @) % Uint32]

-----------------------------------------------------------------------------
(* BlockBuilder.                                                           *)

NewBlockBuilder == [entries |-> <<>>, restarts |-> <<0>>, counter |-> 0, last_key |-> <<>>]

Header(shared, non_shared, value_length) ==
  EncodeVarint32[shared] \o EncodeVarint32[non_shared] \o EncodeVarint32[value_length]

BlockAdd(b, key, value, interval) ==
  LET share == b.counter < interval
      shared == IF share THEN SharedPrefix(b.last_key, key) ELSE 0
      entry == [header |-> Header(shared, Len(key) - shared, value),
                delta |-> SubSeq(key, shared + 1, Len(key)), value |-> value]
  IN  [entries |-> Append(b.entries, entry),
       restarts |-> IF share THEN b.restarts ELSE Append(b.restarts, Len(b.entries)),
       counter |-> IF share THEN b.counter + 1 ELSE 1,
       last_key |-> key]

(* Finish(): what is left of the builder is the block.                     *)
BlockFinish(b) == [entries |-> b.entries, restarts |-> b.restarts]

-----------------------------------------------------------------------------
NumRestarts(b) == Len(b.restarts)
GetRestartPoint(b, index) == b.restarts[index + 1]
Restarts(b) == Len(b.entries)
Entry(b, offset) == b.entries[offset + 1]

(* The bytes from the entry at offset to the end of the entries, limit.    *)
BytesFrom(b, offset) ==
  LET add(n, e) == n + Len(e.header) + Len(e.delta) + e.value
  IN  FoldLeft(add, 0, SubSeq(b.entries, offset + 1, Len(b.entries)))

(* The three varints, which the code reads at once if they are single      *)
(* bytes, and what is left of the header behind them.                      *)
DecodeHeader(h) ==
  LET one == GetVarint32Ptr[h, kMaxVarint32]
      two == GetVarint32Ptr[one.rest, kMaxVarint32]
      three == GetVarint32Ptr[two.rest, kMaxVarint32]
  IN  [ok |-> three.ok, shared |-> one.value, non_shared |-> two.value,
       value_length |-> three.value, rest |-> three.rest]

(* What DecodeEntry() compares with the bytes left, as an uint32_t.        *)
Lengths(d) == (d.non_shared + d.value_length) % Uint32

(* DecodeEntry(): it refuses a header whose varints do not end and lengths *)
(* that lead past the end of the entries.                                  *)
NoEntry == [ok |-> FALSE, shared |-> 0]

DecodeEntry(b, offset) ==
  LET h == Entry(b, offset).header
      checked(d) == IF d.ok /\ Lengths(d) <= BytesFrom(b, offset) - (Len(h) - Len(d.rest))
                      THEN [ok |-> TRUE, shared |-> d.shared] ELSE NoEntry
  IN  CHOOSE e \in {checked(d) : d \in {DecodeHeader(h)}} : TRUE

-----------------------------------------------------------------------------
(* Block::Iter.                                                            *)

NewIter(b) ==
  [current |-> Restarts(b), restart_index |-> NumRestarts(b), key |-> <<>>, next |-> 0, ok |-> TRUE]

IterValid(b, it) == it.current < Restarts(b)
IterValue(b, it) == Entry(b, it.current).value

Exhausted(b, it) == [it EXCEPT !.current = Restarts(b), !.restart_index = NumRestarts(b)]

CorruptionError(b, it) == [Exhausted(b, it) EXCEPT !.ok = FALSE, !.key = <<>>, !.next = 0]

SeekToRestartPoint(b, it, index) ==
  [it EXCEPT !.key = <<>>, !.restart_index = index, !.next = GetRestartPoint(b, index)]

(* Mutant: restart_index_ does not follow current_.                        *)
ParseNextKeyNoAdvance(b, it) ==
  LET d == DecodeEntry(b, it.next)
  IN  IF it.next >= Restarts(b) THEN Exhausted(b, it)
      ELSE IF ~d.ok \/ Len(it.key) < d.shared THEN CorruptionError(b, it)
      ELSE [it EXCEPT !.current = it.next, !.next = it.next + 1,
                      !.key = SubSeq(it.key, 1, d.shared) \o Entry(b, it.next).delta]

ParseNextKey(b, it) ==
  LET d == DecodeEntry(b, it.next)
      passed == {i \in it.restart_index + 1 .. NumRestarts(b) - 1 :
                   GetRestartPoint(b, i) < it.next}
  IN  IF it.next >= Restarts(b) THEN Exhausted(b, it)
      ELSE IF ~d.ok \/ Len(it.key) < d.shared THEN CorruptionError(b, it)
      ELSE [it EXCEPT !.current = it.next, !.next = it.next + 1,
                      !.key = SubSeq(it.key, 1, d.shared) \o Entry(b, it.next).delta,
                      !.restart_index = Max(passed \cup {it.restart_index})]

(* ParseNextKey(), again and again while it succeeds and More() holds.     *)
ParseWhile(b, it, More(_)) ==
  LET once(i) == IF IterValid(b, i) /\ More(i) THEN ParseNextKey(b, i) ELSE i
      after[n \in Nat] ==
        IF n = 0 THEN ParseNextKey(b, it)
        ELSE CHOOSE j \in {once(i) : i \in {after[n - 1]}} : TRUE
  IN  after[Restarts(b)]

IterSeekToFirst(b, it) == ParseNextKey(b, SeekToRestartPoint(b, it, 0))

IterSeekToLast(b, it) ==
  ParseWhile(b, SeekToRestartPoint(b, it, NumRestarts(b) - 1), LAMBDA i : i.next < Restarts(b))

IterNext(b, it) == ParseNextKey(b, it)

(* Back to a restart point before the entry, and forward again.            *)
IterPrev(b, it) ==
  LET before == {i \in 0 .. it.restart_index : GetRestartPoint(b, i) < it.current}
  IN  IF before = {} THEN Exhausted(b, it)
      ELSE ParseWhile(b, SeekToRestartPoint(b, it, Max(before)),
                      LAMBDA i : i.next < it.current)

(* The binary search over the restart points, from left to right: the last *)
(* one with a key before target, or -1 if an entry there is damaged.       *)
RestartBefore(b, target) ==
  LET search[range \in Nat \X Nat] ==
        LET left == range[1]
            right == range[2]
            mid == (left + right + 1) \div 2
            e == Entry(b, GetRestartPoint(b, mid))
            d == DecodeEntry(b, GetRestartPoint(b, mid))
        IN  IF left >= right THEN left
            ELSE IF ~d.ok \/ d.shared # 0 THEN -1
            ELSE IF Less(e.delta, target) THEN search[<<mid, right>>]
            ELSE search[<<left, mid - 1>>]
  IN  search[<<0, NumRestarts(b) - 1>>]

IterSeek(b, it, target) ==
  LET left == RestartBefore(b, target)
  IN  IF left = -1 THEN CorruptionError(b, it)
      ELSE ParseWhile(b, SeekToRestartPoint(b, it, left), LAMBDA i : Less(i.key, target))

(* NewIterator() gives an empty iterator to a block without restart        *)
(* points; its calls do nothing.                                           *)
IterCall(b, it, fn, target) ==
  IF b.restarts = <<>> THEN it
  ELSE CASE fn = "SeekToFirst" -> IterSeekToFirst(b, it)
         [] fn = "SeekToLast" -> IterSeekToLast(b, it)
         [] fn = "Seek" -> IterSeek(b, it, target)
         [] fn = "Next" -> IterNext(b, it)
         [] fn = "Prev" -> IterPrev(b, it)

(* Between calls a Valid() iterator stands in the region of restart_index_ *)
(* (or, reached by Next(), on the very first entry of the one behind it).  *)
RegionHolds(b, it) ==
  IterValid(b, it) =>
    /\ it.restart_index < NumRestarts(b)
    /\ GetRestartPoint(b, it.restart_index) <= it.current
    /\ \A i \in it.restart_index + 1 .. NumRestarts(b) - 1 :
         GetRestartPoint(b, i) >= it.current
=============================================================================
