---------------------------- MODULE TableProofs ----------------------------
(***************************************************************************)
(* Proofs about SkipList, for every set of keys, every set of readers and  *)
(* every kMaxHeight, about MemTable, for every workload, and about Table,  *)
(* for every set of keys and every sequence of calls of the builder.       *)
(*                                                                         *)
(* SkipList.  ChainsExact is a local statement (each link leads to the     *)
(* next published node of its level), so it is inductive without any       *)
(* notion of reaching a node from head_.  What it needs besides is what    *)
(* the writer knows between its steps: the predecessors it has collected   *)
(* and the levels its new node already has.                                *)
(*                                                                         *)
(* MemTable.  Slice::compare() orders the byte strings, so the comparator  *)
(* orders the internal keys, so the places of the writes keep that order   *)
(* and differ.  Seek() finds the first place at or after the lookup key's  *)
(* in the list as it is at the last load, and which writes are in it by    *)
(* then besides the snapshot's makes no difference: newer entries of the   *)
(* same user key sort before the lookup key.                               *)
(*                                                                         *)
(* Table.  The index entries cut the keys into consecutive runs, and for   *)
(* each the file holds one chunk with that block, in the same order.  The  *)
(* separator that ShortenSeparator() leaves is at or after the last key of *)
(* its block, and unless it lies in that block its user key is strictly    *)
(* before every later one.  A filter never misses a key of its block.  So  *)
(* a lookup is sent to the one block that can answer it.                   *)
(***************************************************************************)
EXTENDS MemTable, Table, FiniteSetTheorems, SequenceTheorems, WellFoundedInduction, TLAPS

-----------------------------------------------------------------------------
(* SkipList: the inductive invariant.                                      *)


(* A search for a key has a key to search for.                             *)
TargetsAreKeys ==
  /\ \A r \in Reader : pc[r] \in {"Seek", "Contains", "Prev"} => target[r] \in Key
  /\ pc[Writer] # "idle" => target[Writer] \in Key

(* Levels that no insertion has used are empty.                            *)
HighLevelsEmpty ==
  \A l \in Level : l >= max_height_ => next_[head_][l] = nullptr

(* While Insert() searches, its node is nowhere and prev[] is right on the *)
(* levels the search has left.                                             *)
SearchProgress ==
  pc[Writer] = "Insert" =>
    /\ level[Writer] < max_height_
    /\ \A l \in Level : next_[target[Writer]][l] = uninit
    /\ \A l \in Level :
         level[Writer] < l /\ l < max_height_ => IsPosition(l)

(* While Insert() links, its node is on the levels below level[Writer].    *)
LinkProgress ==
  pc[Writer] \in {"link", "publish"} =>
    /\ level[Writer] < height
    /\ height <= max_height_
    /\ \A l \in Level :
         /\ l < level[Writer] => next_[target[Writer]][l] # uninit
         /\ l > level[Writer] => next_[target[Writer]][l] = uninit
    /\ IF pc[Writer] = "link"
         THEN next_[target[Writer]][level[Writer]] = uninit
         ELSE next_[target[Writer]][level[Writer]]
                = next_[prev[level[Writer]]][level[Writer]]

Inv ==
  /\ TypeOK
  /\ ChainsExact
  /\ LoadsInitialized
  /\ InsertPositions
  /\ TargetsAreKeys
  /\ HighLevelsEmpty
  /\ SearchProgress
  /\ LinkProgress

-----------------------------------------------------------------------------
(* A step that stores no link, and neither starts nor ends the writer's    *)
(* wait between its two stores, leaves every chain as it is.               *)
LEMMA QuietStep ==
  ASSUME next_' = next_,
         pc[Writer] = "publish" \/ pc'[Writer] = "publish" =>
           /\ pc'[Writer] = pc[Writer]
           /\ target'[Writer] = target[Writer]
           /\ level'[Writer] = level[Writer]
  PROVE  /\ \A l \in Level : Published(l)' = Published(l)
         /\ ChainsExact => ChainsExact'
<1>1. ASSUME NEW l \in Level PROVE Published(l)' = Published(l)
  BY DEF Published
<1>2. ASSUME ChainsExact PROVE ChainsExact'
  BY <1>1, <1>2 DEF ChainsExact
<1> QED BY <1>1, <1>2

(* Reading a link of a published node gives a higher published node, or    *)
(* nullptr when no higher node is on that level.                           *)
LEMMA LinkLeadsUp ==
  ASSUME TypeOK, ChainsExact,
         NEW l \in Level, NEW n \in Published(l), next_[n][l] # nullptr
  PROVE  /\ next_[n][l] \in Published(l)
         /\ next_[n][l] \in Key
         /\ n < next_[n][l]
BY KeyAssumption DEF ChainsExact, Published, Node, head_, nullptr

(* A node of a level is a node of the level below.                         *)
LEMMA PublishedBelow ==
  ASSUME ChainsExact, NEW l \in Level, l > 0
  PROVE  l - 1 \in Level /\ Published(l) \subseteq Published(l - 1)
BY HeightAssumption DEF ChainsExact, Level

(* head_ sorts before every key.                                           *)
LEMMA HeadFirst == \A k \in Key : k \in Nat /\ head_ < k
BY KeyAssumption DEF head_

(* The levels Insert()'s loop has still to link.                           *)
LEMMA LoopRange ==
  ASSUME NEW i \in Level, NEW h \in 1 .. kMaxHeight, NEW l \in i .. h - 1
  PROVE  l \in Level /\ i <= l /\ l < h
BY HeightAssumption DEF Level

LEMMA InitInv == Init => Inv
<1> SUFFICES ASSUME Init PROVE Inv
  OBVIOUS
<1> USE KeyAssumption, HeightAssumption, ThreadAssumption
<1>1. TypeOK
  BY DEF Init, TypeOK, Node, Thread, Level, head_, nullptr, uninit
<1>2. \A l \in Level : Published(l) = {head_}
  BY DEF Init, Published, Node, Thread, head_, nullptr, uninit
<1>3. ChainsExact
  BY <1>2 DEF Init, ChainsExact, Node, Level, head_, nullptr
<1>4. LoadsInitialized /\ InsertPositions
  BY DEF Init, LoadsInitialized, InsertPositions, Searching, ReaderSearch, Thread, Level
<1>5. TargetsAreKeys /\ SearchProgress /\ LinkProgress
  BY DEF Init, TargetsAreKeys, SearchProgress, LinkProgress, Thread
<1>6. HighLevelsEmpty
  BY DEF Init, HighLevelsEmpty, Node
<1> QED BY <1>1, <1>3, <1>4, <1>5, <1>6 DEF Inv

-----------------------------------------------------------------------------
(* What a step of reader r leaves alone: links, Insert()'s locals and the  *)
(* search of every other thread.                                           *)
OnlyReader(r) ==
  /\ UNCHANGED <<next_, max_height_, prev, height>>
  /\ \A t \in Thread \ {r} :
       pc'[t] = pc[t] /\ x'[t] = x[t] /\ level'[t] = level[t] /\ target'[t] = target[t]
  /\ \A q \in Reader \ {r} : node_'[q] = node_[q]

(* Such a step preserves Inv if it does so for r itself.                   *)
LEMMA ReaderStep ==
  ASSUME Inv, NEW r \in Reader, OnlyReader(r), TypeOK',
         pc'[r] # "idle" => x'[r] \in Published(level'[r]),
         pc'[r] \in {"Seek", "Contains", "Prev"} =>
           target'[r] \in Key /\ x'[r] < target'[r],
         node_'[r] # nullptr => node_'[r] \in Published(0)
  PROVE  Inv'
<1> USE ThreadAssumption DEF Inv, OnlyReader
<1>1. Writer \in Thread \ {r}
  BY DEF Thread
<1>2. (\A l \in Level : Published(l)' = Published(l)) /\ ChainsExact'
  BY <1>1, QuietStep
<1>3. \A t \in Thread : level'[t] \in Level
  BY DEF TypeOK
<1>4. 0 \in Level
  BY HeightAssumption DEF Level
<1>5. pc'[r] \in ReaderSearch \cup {"idle"} /\ x'[r] \in Node
  BY DEF TypeOK, Thread
<1>6. LoadsInitialized'
  <2>1. ASSUME NEW t \in Thread, Searching(t)' PROVE (x[t] \in Published(level[t]))'
    BY <1>2, <1>3, <2>1 DEF LoadsInitialized, Searching, ReaderSearch
  <2>2. ASSUME NEW q \in Reader, node_'[q] # nullptr PROVE node_'[q] \in Published(0)'
    BY <1>2, <1>4, <2>2 DEF LoadsInitialized
  <2> QED BY <2>1, <2>2 DEF LoadsInitialized
<1>7. InsertPositions'
  <2>1. ASSUME NEW t \in Thread, Searching(t)', pc'[t] # "SeekToLast"
        PROVE  x'[t] = head_ \/ x'[t] < target'[t]
    <3>1. CASE t = r
      BY <1>5, <2>1, <3>1 DEF Searching, ReaderSearch
    <3>2. CASE t # r
      BY <2>1, <3>2 DEF InsertPositions, Searching
    <3> QED BY <3>1, <3>2
  <2>2. ASSUME pc'[Writer] \in {"link", "publish"},
               NEW l \in level'[Writer] .. height' - 1
        PROVE  IsPosition(l)'
    <3>1. l \in Level
      <4>1. level'[Writer] \in Level /\ height' \in 1 .. kMaxHeight
        BY <1>1 DEF TypeOK
      <4> QED BY <4>1, LoopRange
    <3> QED BY <1>1, <1>2, <2>2, <3>1 DEF InsertPositions, IsPosition
  <2> QED BY <2>1, <2>2 DEF InsertPositions
<1>8. TargetsAreKeys' /\ HighLevelsEmpty'
  BY <1>1 DEF TargetsAreKeys, HighLevelsEmpty, Thread
<1>9. SearchProgress' /\ LinkProgress'
  BY <1>1, <1>2 DEF SearchProgress, LinkProgress, IsPosition
<1> QED BY <1>2, <1>6, <1>7, <1>8, <1>9

(* The type invariant is preserved, one action at a time.                  *)
LEMMA StepTypeOK == Inv /\ [Next]_vars => TypeOK'
<1> SUFFICES ASSUME Inv, [Next]_vars PROVE TypeOK'
  OBVIOUS
<1> USE KeyAssumption, HeightAssumption, ThreadAssumption
<1> USE DEF Inv
<1>0. /\ 0 \in Level /\ head_ \in Node
      /\ \A l \in Level : (l > 0 => l - 1 \in Level) /\ (l + 1 < kMaxHeight => l + 1 \in Level)
      /\ \A r \in Reader : r \in Thread /\ r # Writer
      /\ Writer \in Thread
  BY DEF Level, Node, Thread
<1>1. ASSUME NEW t \in Thread, FollowLink(t) PROVE TypeOK'
  <2>1. LoadNext(t) \in Key
    <3>1. x[t] \in Published(level[t]) /\ level[t] \in Level
      BY <1>1 DEF FollowLink, LoadsInitialized, TypeOK
    <3>2. LoadNext(t) # nullptr
      BY <1>1 DEF FollowLink, MovesOn, KeyIsAfterNode
    <3> QED BY <3>1, <3>2, LinkLeadsUp DEF LoadNext
  <2> QED BY <1>0, <1>1, <2>1 DEF FollowLink, TypeOK, insertVars, Node
<1>2. ASSUME NEW t \in Thread, DropLevel(t) PROVE TypeOK'
  BY <1>0, <1>2 DEF DropLevel, TypeOK
<1>3. ASSUME NEW r \in Reader, IterSeekToFirst(r) PROVE TypeOK'
  <2>1. next_[head_][0] \in Key \cup {nullptr}
    BY <1>0, LinkLeadsUp DEF ChainsExact
  <2> QED BY <1>0, <1>3, <2>1 DEF IterSeekToFirst, ReaderFrame, TypeOK, searchVars, insertVars
<1>4. ASSUME NEW r \in Reader, IterNext(r) PROVE TypeOK'
  <2>1. next_[node_[r]][0] \in Key \cup {nullptr}
    BY <1>0, <1>4, LinkLeadsUp DEF IterNext, LoadsInitialized
  <2> QED BY <1>0, <1>4, <2>1 DEF IterNext, ReaderFrame, TypeOK, searchVars, insertVars
<1>5. ASSUME NEW r \in Reader, StartRead(r) PROVE TypeOK'
  <2>1. PICK fn \in ReaderSearch, k \in Node, l \in Level : StartSearch(r, fn, k, l)
    <3>1. \A k \in Key : k \in Node
      BY DEF Node
    <3>2. node_[r] # nullptr => node_[r] \in Node
      BY <3>1 DEF TypeOK
    <3> QED BY <1>0, <1>5, <3>1, <3>2 DEF StartRead, ReaderSearch
  <2> QED BY <1>0, <1>5, <2>1 DEF StartRead, StartSearch, ReaderFrame, TypeOK, insertVars
<1>6. ASSUME NEW r \in Reader, SeekReturns(r) PROVE TypeOK'
  <2>1. LoadNext(r) \in Key \cup {nullptr}
    <3>1. x[r] \in Published(level[r]) /\ level[r] \in Level
      BY <1>0, <1>6 DEF SeekReturns, LoadsInitialized, TypeOK, Searching, ReaderSearch
    <3> QED BY <3>1, LinkLeadsUp DEF LoadNext
  <2> QED BY <1>0, <1>6, <2>1 DEF SeekReturns, Return, ReaderFrame, TypeOK, insertVars
<1>7. ASSUME NEW r \in Reader, ContainsReturns(r) PROVE TypeOK'
  BY <1>0, <1>7 DEF ContainsReturns, Return, ReaderFrame, TypeOK, insertVars
<1>8. ASSUME NEW r \in Reader, BackwardReturns(r) PROVE TypeOK'
  BY <1>0, <1>8 DEF BackwardReturns, Return, ReaderFrame, TypeOK, insertVars, Node
<1>9. ASSUME NEW k \in Key, StartInsert(k) PROVE TypeOK'
  <2>1. max_height_ - 1 \in Level /\ k \in Node
    BY DEF TypeOK, Level, Node
  <2> QED BY <1>0, <1>9, <2>1 DEF StartInsert, StartSearch, TypeOK, WriterStage, insertVars
<1>10. ASSUME NEW h \in 1 .. kMaxHeight, ChooseHeight(h) PROVE TypeOK'
  BY <1>0, <1>10 DEF ChooseHeight, TypeOK, WriterStage
<1>11. ASSUME LinkNode PROVE TypeOK'
  <2>1. /\ target[Writer] \in Key /\ level[Writer] \in Level
        /\ next_[prev[level[Writer]]][level[Writer]] \in Key \cup {nullptr, uninit}
    BY <1>0, <1>11 DEF LinkNode, TargetsAreKeys, TypeOK
  <2> QED BY <1>0, <1>11, <2>1 DEF LinkNode, TypeOK, WriterStage, insertVars
<1>12. ASSUME PublishNode PROVE TypeOK'
  <2>1. target[Writer] \in Key /\ level[Writer] \in Level /\ prev[level[Writer]] \in Node
    BY <1>0, <1>12 DEF PublishNode, TargetsAreKeys, TypeOK
  <2>2. level[Writer] + 1 < height => level[Writer] + 1 \in Level
    BY <2>1 DEF TypeOK, Level
  <2> QED BY <1>0, <1>12, <2>1, <2>2 DEF PublishNode, TypeOK, WriterStage, insertVars
<1>13. CASE UNCHANGED vars
  BY <1>13 DEF TypeOK, vars
<1> QED
  BY <1>0, <1>1, <1>2, <1>3, <1>4, <1>5, <1>6, <1>7, <1>8, <1>9, <1>10, <1>11, <1>12, <1>13
  DEF Next, WriterNext, RandomHeight, ReaderNext, Search, ReaderReturns

-----------------------------------------------------------------------------
(* No step of a reader disturbs Inv.                                       *)
LEMMA ReaderInv ==
  ASSUME Inv, TypeOK', NEW r \in Reader, ReaderNext(r)
  PROVE  Inv'
<1> USE KeyAssumption, HeightAssumption, ThreadAssumption
<1> USE DEF Inv
<1>0. /\ 0 \in Level
      /\ r \in Thread /\ r # Writer
      /\ level[r] \in Level
      /\ \A l \in Level : head_ \in Published(l)
  BY DEF Level, Thread, TypeOK, ChainsExact
<1>1. pc[r] # "idle" => x[r] \in Published(level[r])
  BY <1>0 DEF LoadsInitialized, Searching, TypeOK
<1>2. pc[r] \in {"Seek", "Contains", "Prev"} => target[r] \in Key /\ x[r] < target[r]
  <2>1. ASSUME pc[r] \in {"Seek", "Contains", "Prev"} PROVE x[r] = head_ \/ x[r] < target[r]
    BY <1>0, <2>1 DEF InsertPositions, Searching, ReaderSearch
  <2>2. ASSUME pc[r] \in {"Seek", "Contains", "Prev"} PROVE target[r] \in Key
    BY <2>2 DEF TargetsAreKeys
  <2> QED BY <2>1, <2>2, HeadFirst
<1>3. node_[r] # nullptr => node_[r] \in Published(0)
  BY DEF LoadsInitialized
<1>4. CASE FollowLink(r)
  <2>1. OnlyReader(r)
    BY <1>0, <1>4 DEF FollowLink, OnlyReader, TypeOK, insertVars
  <2>2. LoadNext(r) # nullptr /\ (pc[r] # "SeekToLast" => LoadNext(r) < target[r])
    BY <1>4 DEF FollowLink, MovesOn, KeyIsAfterNode
  <2>3. LoadNext(r) \in Published(level[r])
    BY <1>0, <1>1, <1>4, <2>2, LinkLeadsUp DEF FollowLink, LoadNext, Searching, ReaderSearch
  <2>4. /\ x'[r] = LoadNext(r) /\ level'[r] = level[r]
        /\ pc'[r] = pc[r] /\ target'[r] = target[r] /\ node_'[r] = node_[r]
    BY <1>0, <1>4 DEF FollowLink, TypeOK
  <2> QED BY <1>2, <1>3, <2>1, <2>2, <2>3, <2>4, ReaderStep
<1>5. CASE DropLevel(r)
  <2>1. OnlyReader(r)
    BY <1>0, <1>5 DEF DropLevel, OnlyReader, TypeOK
  <2>2. /\ x'[r] = x[r] /\ level'[r] = level[r] - 1 /\ level[r] > 0
        /\ pc'[r] = pc[r] /\ target'[r] = target[r] /\ node_'[r] = node_[r]
    BY <1>0, <1>5 DEF DropLevel, TypeOK
  <2>3. pc[r] # "idle" => x'[r] \in Published(level'[r])
    BY <1>0, <1>1, <2>2, PublishedBelow
  <2> QED BY <1>2, <1>3, <2>1, <2>2, <2>3, ReaderStep
<1>6. CASE IterSeekToFirst(r) \/ IterNext(r)
  <2>1. OnlyReader(r) /\ pc'[r] = "idle"
    BY <1>0, <1>6 DEF IterSeekToFirst, IterNext, ReaderFrame, OnlyReader, TypeOK,
                      searchVars, insertVars
  <2>2. PICK n \in Published(0) : node_'[r] = next_[n][0]
    BY <1>0, <1>3, <1>6 DEF IterSeekToFirst, IterNext, TypeOK
  <2>3. node_'[r] # nullptr => node_'[r] \in Published(0)
    BY <1>0, <2>2, LinkLeadsUp
  <2> QED BY <2>1, <2>3, ReaderStep
<1>7. CASE StartRead(r)
  <2>1. OnlyReader(r) /\ node_'[r] = node_[r]
    BY <1>0, <1>7 DEF StartRead, StartSearch, ReaderFrame, OnlyReader, TypeOK, insertVars
  <2>2. x'[r] = head_ /\ level'[r] \in Level
    BY <1>0, <1>7 DEF StartRead, StartSearch, TypeOK
  <2>3. pc'[r] \in {"Seek", "Contains", "Prev"} => target'[r] \in Key
    BY <1>0, <1>7 DEF StartRead, StartSearch, TypeOK
  <2>4. pc'[r] \in {"Seek", "Contains", "Prev"} => target'[r] \in Key /\ x'[r] < target'[r]
    BY <2>2, <2>3, HeadFirst
  <2>5. x'[r] \in Published(level'[r])
    BY <1>0, <2>2
  <2> QED BY <1>3, <2>1, <2>4, <2>5, ReaderStep
<1>8. CASE ReaderReturns(r)
  <2>1. OnlyReader(r) /\ pc'[r] = "idle"
    BY <1>0, <1>8 DEF ReaderReturns, SeekReturns, ContainsReturns, BackwardReturns,
                      Return, ReaderFrame, OnlyReader, TypeOK, insertVars
  <2>2. level[r] = 0 /\ x[r] \in Published(0)
    BY <1>1, <1>8 DEF ReaderReturns, SeekReturns, ContainsReturns, BackwardReturns, AtEnd
  <2>3. node_'[r] \in {node_[r], LoadNext(r), x[r], nullptr}
    BY <1>8 DEF ReaderReturns, SeekReturns, ContainsReturns, BackwardReturns, TypeOK
  <2>4. LoadNext(r) # nullptr => LoadNext(r) \in Published(0)
    BY <1>0, <2>2, LinkLeadsUp DEF LoadNext
  <2>5. node_'[r] # nullptr => node_'[r] \in Published(0)
    BY <1>3, <2>2, <2>3, <2>4
  <2> QED BY <2>1, <2>5, ReaderStep
<1> QED BY <1>4, <1>5, <1>6, <1>7, <1>8 DEF ReaderNext, Search

-----------------------------------------------------------------------------
(* What a step of the writer leaves alone.                                 *)
OnlyWriter ==
  /\ node_' = node_
  /\ \A r \in Reader :
       pc'[r] = pc[r] /\ x'[r] = x[r] /\ level'[r] = level[r] /\ target'[r] = target[r]

(* Such a step preserves Inv if no node leaves a level, and Inv holds of   *)
(* the chains and of the writer itself.                                    *)
LEMMA WriterStep ==
  ASSUME Inv, OnlyWriter, TypeOK', ChainsExact',
         \A l \in Level : Published(l) \subseteq Published(l)',
         pc'[Writer] = "Insert" =>
           /\ (x[Writer] \in Published(level[Writer]))'
           /\ x'[Writer] < target'[Writer],
         pc'[Writer] # "idle" => target'[Writer] \in Key,
         pc'[Writer] \in {"link", "publish"} =>
           \A l \in Level : level'[Writer] <= l /\ l < height' => IsPosition(l)',
         HighLevelsEmpty', SearchProgress', LinkProgress'
  PROVE  Inv'
<1> USE ThreadAssumption DEF Inv, OnlyWriter
<1>1. /\ 0 \in Level
      /\ pc'[Writer] \in WriterStage \cup {"idle"}
      /\ level'[Writer] \in Level /\ height' \in 1 .. kMaxHeight
      /\ \A r \in Reader : r \in Thread /\ level[r] \in Level
  BY HeightAssumption DEF TypeOK, Level, Thread
<1>2. LoadsInitialized'
  <2>1. ASSUME NEW t \in Thread, Searching(t)' PROVE (x[t] \in Published(level[t]))'
    <3>1. CASE t = Writer
      BY <1>1, <2>1, <3>1 DEF Searching, WriterStage, ReaderSearch
    <3>2. CASE t \in Reader
      BY <1>1, <2>1, <3>2 DEF LoadsInitialized, Searching
    <3> QED BY <3>1, <3>2 DEF Thread
  <2>2. ASSUME NEW q \in Reader, node_'[q] # nullptr PROVE node_'[q] \in Published(0)'
    BY <1>1, <2>2 DEF LoadsInitialized
  <2> QED BY <2>1, <2>2 DEF LoadsInitialized
<1>3. InsertPositions'
  <2>1. ASSUME NEW t \in Thread, Searching(t)', pc'[t] # "SeekToLast"
        PROVE  x'[t] = head_ \/ x'[t] < target'[t]
    <3>1. CASE t = Writer
      BY <1>1, <2>1, <3>1 DEF Searching, WriterStage, ReaderSearch
    <3>2. CASE t \in Reader
      BY <1>1, <2>1, <3>2 DEF InsertPositions, Searching
    <3> QED BY <3>1, <3>2 DEF Thread
  <2>2. ASSUME pc'[Writer] \in {"link", "publish"},
               NEW l \in level'[Writer] .. height' - 1
        PROVE  IsPosition(l)'
    <3>1. l \in Level /\ level'[Writer] <= l /\ l < height'
      BY <1>1, LoopRange
    <3> QED BY <2>2, <3>1
  <2> QED BY <2>1, <2>2 DEF InsertPositions
<1>4. TargetsAreKeys'
  BY DEF TargetsAreKeys
<1> QED BY <1>2, <1>3, <1>4

(* No step of Insert()'s search disturbs Inv.                              *)
LEMMA InsertSearchInv ==
  ASSUME Inv, TypeOK', FollowLink(Writer) \/ DropLevel(Writer)
  PROVE  Inv'
<1> USE HeightAssumption, ThreadAssumption
<1> USE DEF Inv
<1>0. /\ pc[Writer] = "Insert" /\ pc' = pc
      /\ Writer \in Thread /\ level[Writer] \in Level /\ max_height_ \in 1 .. kMaxHeight
      /\ x[Writer] \in Node /\ prev \in [Level -> Node]
  BY DEF FollowLink, DropLevel, Searching, TypeOK, WriterStage, ReaderSearch, Thread
<1>1. /\ OnlyWriter /\ next_' = next_
      /\ target' = target /\ max_height_' = max_height_
  BY <1>0 DEF FollowLink, DropLevel, OnlyWriter, TypeOK, insertVars, Thread
<1>2. ChainsExact' /\ \A l \in Level : Published(l)' = Published(l)
  BY <1>0, <1>1, QuietStep
<1>3. target[Writer] \in Key /\ x[Writer] \in Published(level[Writer])
  BY <1>0 DEF TargetsAreKeys, LoadsInitialized, Searching
<1>4. x[Writer] < target[Writer]
  <2>1. x[Writer] = head_ \/ x[Writer] < target[Writer]
    BY <1>0 DEF InsertPositions, Searching
  <2> QED BY <1>3, <2>1, HeadFirst
<1>5. HighLevelsEmpty' /\ LinkProgress'
  BY <1>0, <1>1 DEF HighLevelsEmpty, LinkProgress
<1>6. CASE FollowLink(Writer)
  <2>1. /\ x'[Writer] = LoadNext(Writer) /\ level' = level /\ prev' = prev
        /\ LoadNext(Writer) # nullptr /\ LoadNext(Writer) < target[Writer]
    BY <1>0, <1>6 DEF FollowLink, MovesOn, KeyIsAfterNode, TypeOK, insertVars
  <2>2. LoadNext(Writer) \in Published(level[Writer])
    BY <1>0, <1>3, <2>1, LinkLeadsUp DEF LoadNext
  <2>3. SearchProgress'
    BY <1>0, <1>1, <1>2, <2>1 DEF SearchProgress, IsPosition
  <2> QED BY <1>0, <1>1, <1>2, <1>3, <1>5, <2>1, <2>2, <2>3, WriterStep
<1>7. CASE DropLevel(Writer)
  <2> DEFINE lv == level[Writer]
  <2>1. /\ x' = x /\ level'[Writer] = lv - 1 /\ lv > 0
        /\ prev' = [prev EXCEPT ![lv] = x[Writer]]
        /\ ~KeyIsAfterNode(target[Writer], LoadNext(Writer))
    BY <1>0, <1>7 DEF DropLevel, MovesOn, TypeOK
  <2>2. x[Writer] \in Published(lv - 1) /\ lv - 1 \in Level
    BY <1>0, <1>3, <2>1, PublishedBelow
  <2>3. next_[x[Writer]][lv] # nullptr => target[Writer] < next_[x[Writer]][lv]
    <3> SUFFICES ASSUME next_[x[Writer]][lv] # nullptr PROVE target[Writer] < next_[x[Writer]][lv]
      OBVIOUS
    <3>1. next_[x[Writer]][lv] \in Published(lv) /\ next_[x[Writer]][lv] \in Key
      BY <1>0, <1>3, LinkLeadsUp
    <3>2. target[Writer] \notin Published(lv)
      BY <1>0 DEF SearchProgress, Published
    <3>3. ~(next_[x[Writer]][lv] < target[Writer])
      BY <2>1 DEF KeyIsAfterNode, LoadNext
    <3> QED BY <1>3, <3>1, <3>2, <3>3, HeadFirst
  <2>4. SearchProgress'
    <3>1. ASSUME NEW l \in Level, lv - 1 < l, l < max_height_ PROVE IsPosition(l)'
      <4>1. CASE l = lv
        BY <1>0, <1>1, <1>2, <1>3, <1>4, <2>1, <2>3, <4>1 DEF IsPosition
      <4>2. CASE l # lv
        <5>1. lv < l
          BY <1>0, <3>1, <4>2 DEF Level
        <5>2. IsPosition(l)
          BY <1>0, <3>1, <5>1 DEF SearchProgress
        <5> QED BY <1>0, <1>1, <1>2, <2>1, <4>2, <5>2 DEF IsPosition
      <4> QED BY <4>1, <4>2
    <3>2. level'[Writer] < max_height_
      BY <1>0, <2>1 DEF SearchProgress, Level
    <3> QED BY <1>0, <1>1, <2>1, <3>1, <3>2 DEF SearchProgress
  <2> HIDE DEF lv
  <2> QED BY <1>0, <1>1, <1>2, <1>3, <1>4, <1>5, <2>1, <2>2, <2>4, WriterStep
<1> QED BY <1>6, <1>7

(* The caller's promise that the key is not in the list puts the new node  *)
(* on no level at all.                                                     *)
LEMMA StartInsertInv ==
  ASSUME Inv, TypeOK', NEW k \in Key, StartInsert(k)
  PROVE  Inv'
<1> USE HeightAssumption, ThreadAssumption
<1> USE DEF Inv
<1>0. /\ pc[Writer] = "idle" /\ pc'[Writer] = "Insert" /\ Writer \in Thread
      /\ next_' = next_ /\ max_height_' = max_height_ /\ max_height_ \in 1 .. kMaxHeight
      /\ target'[Writer] = k /\ x'[Writer] = head_
      /\ level'[Writer] = max_height_ - 1 /\ OnlyWriter
  BY DEF StartInsert, StartSearch, OnlyWriter, TypeOK, insertVars, Thread
<1>1. ChainsExact' /\ \A l \in Level : Published(l)' = Published(l)
  BY <1>0, QuietStep
<1>2. max_height_ - 1 \in Level /\ head_ \in Published(max_height_ - 1)'
  BY <1>0, <1>1 DEF Level, ChainsExact
<1>3. \A l \in Level : next_[k][l] = uninit
  <2>1. k \notin Published(0) /\ 0 \in Level
    BY DEF StartInsert, Published, Level
  <2>2. \A l \in Level : l = 0 \/ 0 < l
    BY DEF Level
  <2>3. \A l \in Level : k \notin Published(l)
    BY <2>1, <2>2 DEF ChainsExact
  <2> QED BY <1>0, <2>3 DEF Published, Node
<1>4. HighLevelsEmpty' /\ LinkProgress'
  BY <1>0 DEF HighLevelsEmpty, LinkProgress
<1>5. SearchProgress'
  <2>1. \A l \in Level : ~(max_height_ - 1 < l /\ l < max_height_)
    BY <1>0 DEF Level
  <2>2. max_height_ - 1 < max_height_
    BY <1>0
  <2> QED BY <1>0, <1>3, <2>1, <2>2 DEF SearchProgress
<1>6. x'[Writer] < target'[Writer]
  BY <1>0, HeadFirst
<1> QED BY <1>0, <1>1, <1>2, <1>4, <1>5, <1>6, WriterStep

(* prev[] is complete when the search ends: the levels the search went     *)
(* through have their predecessor, the empty ones above get head_.         *)
LEMMA ChooseHeightInv ==
  ASSUME Inv, TypeOK', NEW h \in 1 .. kMaxHeight, ChooseHeight(h)
  PROVE  Inv'
<1> USE HeightAssumption, ThreadAssumption
<1> USE DEF Inv
<1>0. /\ pc[Writer] = "Insert" /\ pc'[Writer] = "link" /\ Writer \in Thread
      /\ next_' = next_ /\ target' = target /\ level' = level /\ level[Writer] = 0
      /\ height' = h /\ max_height_ \in 1 .. kMaxHeight /\ OnlyWriter
      /\ max_height_' = IF h > max_height_ THEN h ELSE max_height_
      /\ ~KeyIsAfterNode(target[Writer], LoadNext(Writer))
  BY DEF ChooseHeight, AtEnd, MovesOn, OnlyWriter, TypeOK, Thread
<1>1. ChainsExact' /\ \A l \in Level : Published(l)' = Published(l)
  BY <1>0, QuietStep
<1>2. target[Writer] \in Key /\ x[Writer] \in Published(0) /\ 0 \in Level
  BY <1>0 DEF TargetsAreKeys, LoadsInitialized, Searching, Level
<1>3. x[Writer] < target[Writer]
  <2>1. x[Writer] = head_ \/ x[Writer] < target[Writer]
    BY <1>0 DEF InsertPositions, Searching
  <2> QED BY <1>2, <2>1, HeadFirst
<1>4. next_[x[Writer]][0] # nullptr => target[Writer] < next_[x[Writer]][0]
  <2> SUFFICES ASSUME next_[x[Writer]][0] # nullptr PROVE target[Writer] < next_[x[Writer]][0]
    OBVIOUS
  <2>1. next_[x[Writer]][0] \in Published(0) /\ next_[x[Writer]][0] \in Key
    BY <1>2, LinkLeadsUp
  <2>2. target[Writer] \notin Published(0)
    BY <1>0, <1>2 DEF SearchProgress, Published
  <2>3. ~(next_[x[Writer]][0] < target[Writer])
    BY <1>0 DEF KeyIsAfterNode, LoadNext
  <2> QED BY <1>2, <2>1, <2>2, <2>3, HeadFirst
<1>5. ASSUME NEW l \in Level, l < h PROVE IsPosition(l)'
  <2>1. prev'[l] = IF l = 0 THEN x[Writer] ELSE IF l >= max_height_ THEN head_ ELSE prev[l]
    BY <1>5 DEF ChooseHeight
  <2>2. CASE l = 0
    BY <1>0, <1>1, <1>2, <1>3, <1>4, <2>1, <2>2 DEF IsPosition
  <2>3. CASE l # 0 /\ l >= max_height_
    <3>1. next_[head_][l] = nullptr /\ head_ \in Published(l)
      BY <2>3 DEF HighLevelsEmpty, ChainsExact
    <3>2. prev'[l] = head_
      BY <2>1, <2>3
    <3> QED BY <1>0, <1>1, <1>2, <3>1, <3>2, HeadFirst DEF IsPosition
  <2>4. CASE l # 0 /\ ~(l >= max_height_)
    <3>1. 0 < l /\ l < max_height_
      BY <1>0, <2>4 DEF Level
    <3>2. IsPosition(l)
      BY <1>0, <3>1 DEF SearchProgress
    <3>3. prev'[l] = prev[l]
      BY <2>1, <2>4
    <3> QED BY <1>0, <1>1, <3>2, <3>3 DEF IsPosition
  <2> QED BY <2>2, <2>3, <2>4
<1>6. HighLevelsEmpty'
  <2>1. \A l \in Level : l >= max_height_' => l >= max_height_
    BY <1>0 DEF Level
  <2> QED BY <1>0, <2>1 DEF HighLevelsEmpty
<1>7. LinkProgress'
  <2>1. height' <= max_height_' /\ 0 < height'
    BY <1>0
  <2>2. \A l \in Level : next_'[target'[Writer]][l] = uninit
    BY <1>0 DEF SearchProgress
  <2>3. \A l \in Level : ~(l < 0)
    BY DEF Level
  <2> QED BY <1>0, <1>2, <2>1, <2>2, <2>3 DEF LinkProgress
<1>8. SearchProgress'
  BY <1>0 DEF SearchProgress
<1> QED BY <1>0, <1>1, <1>2, <1>5, <1>6, <1>7, <1>8, WriterStep

(* The store into the new node is invisible: the node is not yet published *)
(* on this level.                                                          *)
LEMMA LinkPublishesNothing ==
  ASSUME Inv, TypeOK', LinkNode, NEW l \in Level
  PROVE  Published(l)' = Published(l)
<1> USE ThreadAssumption
<1> USE DEF Inv
<1> DEFINE i == level[Writer]
           k == target[Writer]
<1>1. /\ pc[Writer] = "link" /\ pc'[Writer] = "publish"
      /\ next_' = [next_ EXCEPT ![k][i] = next_[prev[i]][i]]
      /\ target' = target /\ level' = level
      /\ k \in Node /\ i \in Level
  BY DEF LinkNode, TypeOK, Thread, TargetsAreKeys, Node
<1>2. next_[k][i] = uninit
  BY <1>1 DEF LinkProgress
<1>3. ASSUME NEW n \in Node, n # k \/ l # i PROVE next_'[n][l] = next_[n][l]
  BY <1>1, <1>3 DEF TypeOK
<1> QED BY <1>1, <1>2, <1>3 DEF Published

LEMMA LinkNodeInv ==
  ASSUME Inv, TypeOK', LinkNode
  PROVE  Inv'
<1> USE HeightAssumption, ThreadAssumption
<1> USE DEF Inv
<1> DEFINE i == level[Writer]
           k == target[Writer]
<1>0. /\ pc[Writer] = "link" /\ pc'[Writer] = "publish" /\ Writer \in Thread
      /\ next_' = [next_ EXCEPT ![k][i] = next_[prev[i]][i]]
      /\ target' = target /\ level' = level /\ prev' = prev /\ height' = height
      /\ max_height_' = max_height_ /\ OnlyWriter
      /\ k \in Key /\ k \in Node /\ i \in Level /\ height \in 1 .. kMaxHeight
  BY DEF LinkNode, OnlyWriter, TypeOK, Thread, TargetsAreKeys, insertVars, Node
<1>1. next_[k][i] = uninit /\ i < height
  BY <1>0 DEF LinkProgress
<1>2. next_ \in [Node -> [Level -> Key \cup {nullptr, uninit}]]
  BY DEF TypeOK
<1>3. ASSUME NEW n \in Node, NEW l \in Level, n # k \/ l # i
      PROVE  next_'[n][l] = next_[n][l]
  BY <1>0, <1>2, <1>3
<1>4. next_'[k][i] = next_[prev[i]][i]
  BY <1>0, <1>2
<1>5. ASSUME NEW l \in Level PROVE Published(l)' = Published(l)
  BY LinkPublishesNothing
<1>6. ASSUME NEW l \in Level, NEW n \in Published(l) PROVE n \in Node /\ next_'[n][l] = next_[n][l]
  BY <1>1, <1>3 DEF Published
<1> HIDE DEF i, k
<1>7. ChainsExact'
  BY <1>5, <1>6 DEF ChainsExact
<1>8. ASSUME NEW l \in Level, i <= l, l < height PROVE IsPosition(l) /\ IsPosition(l)'
  <2>1. l \in i .. height - 1
    BY <1>0, <1>8 DEF Level
  <2>2. IsPosition(l)
    BY <1>0, <2>1 DEF InsertPositions, i
  <2> QED BY <1>0, <1>5, <1>6, <2>2 DEF IsPosition
<1>9. HighLevelsEmpty'
  <2>1. head_ \in Node /\ head_ # k
    BY <1>0, HeadFirst DEF Node
  <2> QED BY <1>0, <1>3, <2>1 DEF HighLevelsEmpty
<1>10. LinkProgress'
  <2>1. IsPosition(i)
    BY <1>0, <1>1, <1>8 DEF Level
  <2>2. next_'[prev[i]][i] = next_[prev[i]][i]
    BY <1>0, <1>6, <2>1 DEF IsPosition
  <2>3. \A l \in Level : (l < i \/ l > i) => next_'[k][l] = next_[k][l]
    BY <1>0, <1>3 DEF Level
  <2> QED BY <1>0, <1>4, <2>2, <2>3 DEF LinkProgress, i, k
<1>11. SearchProgress'
  BY <1>0 DEF SearchProgress
<1> QED BY <1>0, <1>5, <1>7, <1>8, <1>9, <1>10, <1>11, WriterStep DEF i, k

(* What the store that publishes node k on level i does to the chains:     *)
(* level i gains exactly k, between prev[i] and its old successor.         *)
LEMMA PublishEffect ==
  ASSUME Inv, TypeOK', PublishNode
  PROVE  LET i == level[Writer]
             k == target[Writer]
         IN  /\ i \in Level /\ k \in Key
             /\ \A l \in Level : Published(l)' = IF l = i THEN Published(l) \cup {k} ELSE Published(l)
             /\ \A l \in Level, n \in Node :
                  next_'[n][l] = IF l = i /\ n = prev[i] THEN k ELSE next_[n][l]
             /\ IsPosition(i) /\ k \notin Published(i) /\ next_[k][i] = next_[prev[i]][i]
             /\ next_[k][i] # nullptr => next_[k][i] \in Published(i) \ {head_} /\ next_[k][i] \in Key
             /\ \A l \in Level : l < i => k \in Published(l)
<1> USE HeightAssumption, ThreadAssumption
<1> USE DEF Inv
<1> DEFINE i == level[Writer]
           k == target[Writer]
<1>0. /\ pc[Writer] = "publish" /\ pc'[Writer] # "publish" /\ Writer \in Thread
      /\ next_' = [next_ EXCEPT ![prev[i]][i] = k]
      /\ k \in Key /\ k \in Node /\ i \in Level /\ height \in 1 .. kMaxHeight
  BY DEF PublishNode, TypeOK, Thread, TargetsAreKeys, Node
<1>1. next_[k][i] = next_[prev[i]][i] /\ i < height
  BY <1>0 DEF LinkProgress
<1>2. IsPosition(i)
  <2>1. i \in i .. height - 1
    BY <1>0, <1>1 DEF Level
  <2> QED BY <1>0, <2>1 DEF InsertPositions
<1>3. prev[i] \in Node /\ prev[i] \in Published(i) /\ prev[i] < k
  BY <1>2 DEF IsPosition, Published
<1>4. next_ \in [Node -> [Level -> Key \cup {nullptr, uninit}]]
  BY DEF TypeOK
<1>5. ASSUME NEW l \in Level, NEW n \in Node
      PROVE  next_'[n][l] = IF l = i /\ n = prev[i] THEN k ELSE next_[n][l]
  BY <1>0, <1>3, <1>4, <1>5
<1>6. k \notin Published(i)
  BY <1>0 DEF Published
<1>7. next_[k][i] # nullptr => next_[k][i] \in Published(i) \ {head_} /\ next_[k][i] \in Key
  <2>1. next_[k][i] # nullptr => next_[k][i] \in Published(i) /\ next_[k][i] \in Key
    BY <1>0, <1>1, <1>3, LinkLeadsUp
  <2> QED BY <2>1, KeyAssumption DEF head_
<1>8. next_[k][i] # uninit /\ k # uninit
  <2>1. nullptr # uninit /\ \A j \in Key : j # uninit
    BY KeyAssumption DEF nullptr, uninit
  <2> QED BY <1>0, <1>7, <2>1
<1>9. ASSUME NEW l \in Level
      PROVE  Published(l)' = IF l = i THEN Published(l) \cup {k} ELSE Published(l)
  <2>1. prev[i] # k
    BY <1>0, <1>3, HeadFirst DEF Node, head_
  <2>2. Published(l)' = {n \in Node : next_'[n][l] # uninit}
    BY <1>0 DEF Published
  <2>3. CASE l = i
    <3>1. ASSUME NEW n \in Node PROVE next_'[n][l] # uninit <=> n \in Published(l) \cup {k}
      <4>1. CASE n = k
        BY <1>5, <1>8, <2>1, <2>3, <4>1
      <4>2. CASE n = prev[i]
        BY <1>3, <1>5, <1>8, <2>3, <4>2
      <4>3. CASE n # k /\ n # prev[i]
        BY <1>0, <1>5, <2>3, <4>3 DEF Published
      <4> QED BY <4>1, <4>2, <4>3
    <3>2. Published(l) \subseteq Node
      BY DEF Published
    <3> QED BY <1>0, <2>2, <2>3, <3>1, <3>2
  <2>4. CASE l # i
    <3>1. Published(l) = {n \in Node : next_[n][l] # uninit}
      BY <2>4 DEF Published
    <3> QED BY <1>5, <2>2, <2>4, <3>1
  <2> QED BY <2>3, <2>4
<1>10. ASSUME NEW l \in Level, l < i PROVE k \in Published(l)
  <2>1. next_[k][l] # uninit /\ l # i
    BY <1>0, <1>10 DEF LinkProgress, Level
  <2> QED BY <1>0, <2>1 DEF Published
<1> QED BY <1>0, <1>1, <1>2, <1>5, <1>6, <1>7, <1>9, <1>10

(* Publishing keeps the chains exact.                                      *)
LEMMA PublishChains ==
  ASSUME Inv, TypeOK', PublishNode
  PROVE  ChainsExact'
<1> USE DEF Inv
<1>0. PICK i \in Level : i = level[Writer]
  BY ThreadAssumption DEF TypeOK, Thread
<1> DEFINE k == target[Writer]
           p == prev[i]
           s == next_[k][i]
<1>1. /\ i \in Level /\ k \in Key
      /\ \A l \in Level : Published(l)' = IF l = i THEN Published(l) \cup {k} ELSE Published(l)
      /\ \A l \in Level, n \in Node :
           next_'[n][l] = IF l = i /\ n = p THEN k ELSE next_[n][l]
      /\ k \notin Published(i) /\ s = next_[p][i]
      /\ s # nullptr => s \in Published(i) \ {head_} /\ s \in Key
      /\ \A l \in Level : l < i => k \in Published(l)
  BY <1>0, PublishEffect
<1>2. /\ p \in Published(i) /\ p < k
      /\ s # nullptr => k < s
  BY <1>0, <1>1, PublishEffect DEF IsPosition
<1>3. k \in Node /\ k # head_ /\ k # nullptr /\ \A j \in Key : j # nullptr
  BY <1>1, KeyAssumption DEF Node, head_, nullptr
<1>4. \A l \in Level : Published(l) \subseteq Node
  BY DEF Published
<1>5. \A n \in Node : n \in Int
  BY HeadFirst DEF Node, head_
<1> HIDE DEF k, p, s
<1>6. ASSUME NEW l \in Level PROVE head_ \in Published(l)'
  BY <1>1 DEF ChainsExact
<1>7. ASSUME NEW l \in Level, NEW j \in Level, j < l PROVE Published(l)' \subseteq Published(j)'
  BY <1>1, <1>7 DEF ChainsExact
<1>8. ASSUME NEW l \in Level, l # i, NEW n \in Published(l)'
      PROVE  /\ next_'[n][l] \in (Published(l)' \ {head_}) \cup {nullptr}
             /\ next_'[n][l] # nullptr => n < next_'[n][l]
             /\ \A m \in Published(l)' :
                  n < m => next_'[n][l] # nullptr /\ next_'[n][l] <= m
  <2>1. n \in Published(l) /\ Published(l)' = Published(l) /\ next_'[n][l] = next_[n][l]
    BY <1>1, <1>4, <1>8
  <2> QED BY <2>1 DEF ChainsExact
<1>9. ASSUME NEW n \in Published(i)'
      PROVE  /\ next_'[n][i] \in (Published(i)' \ {head_}) \cup {nullptr}
             /\ next_'[n][i] # nullptr => n < next_'[n][i]
             /\ \A m \in Published(i)' :
                  n < m => next_'[n][i] # nullptr /\ next_'[n][i] <= m
  <2>1. Published(i)' = Published(i) \cup {k} /\ n \in Node /\ Published(i)' \subseteq Node
    BY <1>1, <1>3, <1>4
  <2>2. CASE n = k
    <3>0. k # p
      BY <1>1, <1>2
    <3>1. next_'[n][i] = s
      BY <1>1, <1>3, <2>2, <3>0 DEF s
    <3>2. ASSUME NEW m \in Published(i)', n < m PROVE s # nullptr /\ s <= m
      <4>0. k \in Int /\ p \in Int /\ m \in Int
        BY <1>1, <1>2, <1>3, <1>4, <1>5, <2>1
      <4>1. m \in Published(i) /\ p < m
        BY <1>2, <2>1, <2>2, <3>2, <4>0
      <4> QED BY <1>1, <1>2, <4>1 DEF ChainsExact
    <3> QED BY <1>1, <1>2, <2>1, <2>2, <3>1, <3>2
  <2>3. CASE n = p
    <3>1. next_'[n][i] = k
      BY <1>1, <1>2, <1>4, <2>3
    <3>2. ASSUME NEW m \in Published(i)', n < m PROVE k <= m
      <4>1. CASE m = k
        BY <1>3, <1>5, <4>1
      <4>2. CASE m \in Published(i)
        <5>1. s # nullptr /\ s <= m
          BY <1>1, <1>2, <2>3, <3>2, <4>2 DEF ChainsExact
        <5>2. k \in Int /\ s \in Int /\ m \in Int /\ k < s
          BY <1>1, <1>2, <1>3, <1>4, <1>5, <4>2, <5>1
        <5> QED BY <5>1, <5>2
      <4> QED BY <2>1, <4>1, <4>2
    <3> QED BY <1>2, <1>3, <2>1, <2>3, <3>1, <3>2
  <2>4. CASE n \in Published(i) /\ n # p
    <3>1. next_'[n][i] = next_[n][i]
      BY <1>1, <1>4, <2>4
    <3>2. ASSUME NEW m \in Published(i)', n < m PROVE next_[n][i] # nullptr /\ next_[n][i] <= m
      <4>1. CASE m \in Published(i)
        BY <1>1, <2>4, <3>2, <4>1 DEF ChainsExact
      <4>2. CASE m = k
        <5>1. ~(p < n)
          <6> SUFFICES ASSUME p < n PROVE FALSE
            OBVIOUS
          <6>1. s # nullptr /\ s <= n
            BY <1>1, <1>2, <2>4 DEF ChainsExact
          <6>2. s \in Int /\ k \in Int /\ n \in Int /\ k < s
            BY <1>1, <1>2, <1>3, <1>4, <1>5, <2>4, <6>1
          <6> QED BY <3>2, <4>2, <6>1, <6>2
        <5>0. p \in Int /\ k \in Int /\ n \in Int
          BY <1>1, <1>2, <1>3, <1>4, <1>5, <2>4
        <5>2. n < p /\ p \in Int /\ k \in Int
          BY <2>4, <5>0, <5>1
        <5>3. next_[n][i] # nullptr /\ next_[n][i] <= p
          BY <1>1, <1>2, <2>4, <5>2 DEF ChainsExact
        <5>4. next_[n][i] \in Int
          BY <1>1, <1>4, <1>5, <2>4, <5>3 DEF ChainsExact
        <5> QED BY <1>2, <4>2, <5>2, <5>3, <5>4
      <4> QED BY <2>1, <4>1, <4>2
    <3>3. /\ next_[n][i] \in (Published(i) \ {head_}) \cup {nullptr}
          /\ next_[n][i] # nullptr => n < next_[n][i]
      BY <1>1, <2>4 DEF ChainsExact
    <3> QED BY <2>1, <3>1, <3>2, <3>3
  <2> QED BY <2>1, <2>2, <2>3, <2>4
<1> QED BY <1>6, <1>7, <1>8, <1>9 DEF ChainsExact

LEMMA PublishNodeInv ==
  ASSUME Inv, TypeOK', PublishNode
  PROVE  Inv'
<1> USE HeightAssumption, ThreadAssumption
<1> USE DEF Inv
<1>0. PICK i \in Level : i = level[Writer]
  BY DEF TypeOK, Thread
<1>a. PICK k \in Key : k = target[Writer]
  BY DEF PublishNode, TargetsAreKeys
<1>1. /\ \A l \in Level : Published(l)' = IF l = i THEN Published(l) \cup {k} ELSE Published(l)
      /\ \A l \in Level, n \in Node :
           next_'[n][l] = IF l = i /\ n = prev[i] THEN k ELSE next_[n][l]
      /\ k \notin Published(i) /\ next_[k][i] = next_[prev[i]][i]
      /\ next_[k][i] # nullptr => next_[k][i] \in Key
      /\ IsPosition(i)
  BY <1>0, <1>a, PublishEffect
<1>2. /\ pc[Writer] = "publish" /\ Writer \in Thread /\ OnlyWriter
      /\ target' = target /\ prev' = prev /\ height' = height /\ max_height_' = max_height_
      /\ level'[Writer] = IF i + 1 < height THEN i + 1 ELSE i
      /\ pc'[Writer] = IF i + 1 < height THEN "link" ELSE "idle"
      /\ max_height_ \in 1 .. kMaxHeight /\ height \in 1 .. kMaxHeight
  BY <1>0 DEF PublishNode, OnlyWriter, TypeOK, Thread, insertVars
<1>3. /\ i < height /\ height <= max_height_
      /\ \A l \in Level : (l < i => next_[k][l] # uninit) /\ (l > i => next_[k][l] = uninit)
  BY <1>0, <1>a, <1>2 DEF LinkProgress
<1>4. k \in Node /\ k # uninit /\ next_[k][i] # uninit /\ prev[i] # k /\ head_ \in Node
  <2>1. k \in Node /\ k # uninit /\ head_ \in Node
    BY KeyAssumption DEF Node, uninit
  <2>2. next_[k][i] # uninit
    BY <1>1, KeyAssumption DEF nullptr, uninit
  <2>3. prev[i] # k
    BY <1>1 DEF IsPosition
  <2> QED BY <2>1, <2>2, <2>3
<1>5. ASSUME NEW l \in Level, i < l, l < height PROVE IsPosition(l)'
  <2>1. l \in i .. height - 1 /\ l # i
    BY <1>2, <1>5 DEF Level
  <2>2. IsPosition(l)
    BY <1>0, <1>2, <2>1 DEF InsertPositions
  <2>3. prev[l] \in Node
    BY <2>2 DEF IsPosition, Published
  <2> QED BY <1>1, <1>2, <2>1, <2>2, <2>3 DEF IsPosition
<1>6. HighLevelsEmpty'
  <2>1. \A l \in Level : l >= max_height_ => l # i
    BY <1>2, <1>3 DEF Level
  <2> QED BY <1>1, <1>2, <1>4, <2>1 DEF HighLevelsEmpty
<1>7. SearchProgress'
  BY <1>2 DEF SearchProgress
<1>8. LinkProgress'
  <2>1. CASE i + 1 < height
    <3>1. /\ \A l \in Level : l < i + 1 => l = i \/ l < i
          /\ \A l \in Level : l > i + 1 => l > i
          /\ i + 1 \in Level /\ i + 1 > i
      BY <1>2, <2>1 DEF Level
    <3>2. \A l \in Level : next_'[k][l] = next_[k][l]
      BY <1>1, <1>4
    <3> QED BY <1>a, <1>2, <1>3, <1>4, <2>1, <3>1, <3>2 DEF LinkProgress
  <2>2. CASE ~(i + 1 < height)
    BY <1>2, <2>2 DEF LinkProgress
  <2> QED BY <2>1, <2>2
<1>9. pc'[Writer] \in {"link", "publish"} =>
        \A l \in Level : level'[Writer] <= l /\ l < height' => IsPosition(l)'
  <2>1. \A l \in Level : i + 1 <= l => i < l
    BY DEF Level
  <2> QED BY <1>2, <1>5, <2>1
<1> QED BY <1>a, <1>1, <1>2, <1>6, <1>7, <1>8, <1>9, PublishChains, WriterStep

LEMMA NextInv == Inv /\ [Next]_vars => Inv'
<1> SUFFICES ASSUME Inv, [Next]_vars PROVE Inv'
  OBVIOUS
<1>1. TypeOK'
  BY StepTypeOK
<1>2. CASE UNCHANGED vars
  BY <1>2 DEF vars, Inv, TypeOK, ChainsExact, LoadsInitialized, InsertPositions, TargetsAreKeys,
              HighLevelsEmpty, SearchProgress, LinkProgress, Published, IsPosition, Searching
<1>3. CASE WriterNext
  BY <1>1, <1>3, StartInsertInv, InsertSearchInv, ChooseHeightInv, LinkNodeInv, PublishNodeInv
  DEF WriterNext, RandomHeight, Search
<1>4. CASE \E r \in Reader : ReaderNext(r)
  BY <1>1, <1>4, ReaderInv
<1> QED BY <1>2, <1>3, <1>4 DEF Next

LEMMA Invariance == Spec => []Inv
BY InitInv, NextInv, PTL DEF Spec

-----------------------------------------------------------------------------
(* Every reachable state is well typed: in particular a search never       *)
(* leaves the nodes of the list, whatever height it starts from.           *)
THEOREM TypeCorrect == Spec => []TypeOK
BY Invariance, PTL DEF Inv

(* Every level is at all times the exact ascending chain of the nodes      *)
(* published on it, also between the stores of an insertion (lines         *)
(* 394-401), for any number of keys, levels and readers.                   *)
THEOREM ChainsAlwaysExact == Spec => []ChainsExact
BY Invariance, PTL DEF Inv

(* No thread loads a link that was not stored first (lines 157-167 and the *)
(* max_height_ race of lines 382-389).                                     *)
THEOREM NoUninitializedLoad == Spec => []LoadsInitialized
BY Invariance, PTL DEF Inv

(* The asserts of lines 309 and 373 hold, and Insert() links each level at *)
(* the right place.                                                        *)
THEOREM InsertFindsPlace == Spec => []InsertPositions
BY Invariance, PTL DEF Inv

-----------------------------------------------------------------------------
(* The refinement of OrderedSet.                                           *)

Keys == Published(0) \ {head_}

(* The link a search reads last answers its question exactly: on level 0   *)
(* the node after n is the least key above n.                              *)
LEMMA NextIsSuccessor ==
  ASSUME Inv, NEW n \in Published(0)
  PROVE  /\ next_[n][0] \in Keys \cup {nullptr}
         /\ \A k \in Keys : n < k => next_[n][0] # nullptr /\ next_[n][0] <= k
         /\ next_[n][0] # nullptr => n < next_[n][0]
<1>1. 0 \in Level
  BY HeightAssumption DEF Level
<1> QED BY <1>1 DEF Inv, ChainsExact, Keys

LEMMA KeysAreKeys == Keys \subseteq Key /\ nullptr \notin Key /\ \A k \in Keys : k \in Int
BY KeyAssumption DEF Keys, Published, Node, nullptr

(* Where a search stands when it returns.                                  *)
LEMMA SearchEnd ==
  ASSUME Inv, NEW r \in Reader, pc[r] \in ReaderSearch, AtEnd(r)
  PROVE  /\ x[r] \in Published(0) /\ LoadNext(r) = next_[x[r]][0]
         /\ pc[r] # "SeekToLast" =>
              /\ target[r] \in Key /\ x[r] < target[r]
              /\ LoadNext(r) # nullptr => target[r] <= LoadNext(r)
         /\ pc[r] = "SeekToLast" => LoadNext(r) = nullptr
<1> USE DEF Inv
<1>1. level[r] = 0 /\ ~MovesOn(r) /\ r \in Thread
  BY DEF AtEnd, Thread
<1>2. x[r] \in Published(0) /\ LoadNext(r) = next_[x[r]][0]
  BY <1>1 DEF LoadsInitialized, Searching, LoadNext
<1>3. pc[r] = "SeekToLast" => LoadNext(r) = nullptr
  BY <1>1 DEF MovesOn
<1>4. ASSUME pc[r] # "SeekToLast"
      PROVE  /\ target[r] \in Key /\ x[r] < target[r]
             /\ LoadNext(r) # nullptr => target[r] <= LoadNext(r)
  <2>1. target[r] \in Key
    BY <1>4 DEF TargetsAreKeys, ReaderSearch
  <2>2. x[r] = head_ \/ x[r] < target[r]
    BY <1>1, <1>4 DEF InsertPositions, Searching
  <2>3. x[r] < target[r]
    BY <2>1, <2>2, HeadFirst
  <2>4. LoadNext(r) # nullptr => ~(LoadNext(r) < target[r])
    BY <1>1, <1>4 DEF MovesOn, KeyIsAfterNode
  <2>5. LoadNext(r) # nullptr => LoadNext(r) \in Key
    BY <1>2, NextIsSuccessor, KeysAreKeys
  <2> QED BY <2>1, <2>3, <2>4, <2>5, HeadFirst
<1> QED BY <1>2, <1>3, <1>4

LEMMA InitRefines == Init => Set!Init
<1> SUFFICES ASSUME Init PROVE Set!Init
  OBVIOUS
<1>1. 0 \in Level
  BY HeightAssumption DEF Level
<1>2. Published(0) = {head_}
  BY <1>1, KeyAssumption DEF Init, Published, Node, Thread, head_, nullptr, uninit
<1> QED BY <1>2 DEF Init, Set!Init, Thread

(* Prev() searches for the key its iterator stands on.                     *)
PrevFromNode ==
  \A r \in Reader : pc[r] = "Prev" => target[r] = node_[r] /\ node_[r] # nullptr

LEMMA PrevFromNodeStep == Inv /\ PrevFromNode /\ [Next]_vars => PrevFromNode'
<1> SUFFICES ASSUME Inv, PrevFromNode, [Next]_vars, NEW r \in Reader, pc'[r] = "Prev"
             PROVE  target'[r] = node_'[r] /\ node_'[r] # nullptr
  BY DEF PrevFromNode
<1> USE ThreadAssumption
<1> USE DEF Inv, PrevFromNode
<1>0. r \in Thread /\ r # Writer /\ Writer \in Thread
  BY DEF Thread
<1>1. CASE UNCHANGED vars
  BY <1>1 DEF vars
<1>2. CASE WriterNext
  BY <1>0, <1>2 DEF WriterNext, RandomHeight, StartInsert, StartSearch, Search, FollowLink, DropLevel,
                    ChooseHeight, LinkNode, PublishNode, TypeOK
<1>3. ASSUME NEW q \in Reader, ReaderNext(q) PROVE target'[r] = node_'[r] /\ node_'[r] # nullptr
  <2>0. q \in Thread
    BY DEF Thread
  <2>1. CASE Search(q)
    BY <1>0, <2>0, <2>1 DEF Search, FollowLink, DropLevel
  <2>2. CASE IterSeekToFirst(q) \/ IterNext(q)
    BY <1>0, <2>0, <2>2 DEF IterSeekToFirst, IterNext, TypeOK, searchVars
  <2>3. CASE StartRead(q)
    <3>1. PICK fn \in ReaderSearch, k \in Node \cup {node_[q]}, l \in Level :
            StartSearch(q, fn, k, l) /\ (fn = "Prev" => k = node_[q] /\ k # nullptr)
      BY <2>3 DEF StartRead, ReaderSearch, Node
    <3>2. node_' = node_
      BY <2>3 DEF StartRead
    <3>3. CASE q = r
      BY <1>0, <3>1, <3>2, <3>3 DEF StartSearch, TypeOK
    <3>4. CASE q # r
      BY <1>0, <3>1, <3>2, <3>4 DEF StartSearch, TypeOK
    <3> QED BY <3>3, <3>4
  <2>4. CASE ReaderReturns(q)
    BY <1>0, <2>0, <2>4 DEF ReaderReturns, SeekReturns, ContainsReturns, BackwardReturns,
                            Return, TypeOK
  <2> QED BY <1>3, <2>1, <2>2, <2>3, <2>4 DEF ReaderNext
<1> QED BY <1>1, <1>2, <1>3 DEF Next

(* A step that stores no link leaves the contents of the set alone.        *)
LEMMA ReaderKeepsKeys ==
  ASSUME Inv, NEW r \in Reader, ReaderNext(r)
  PROVE  Keys' = Keys
<1>1. /\ next_' = next_ /\ pc'[Writer] = pc[Writer]
      /\ target'[Writer] = target[Writer] /\ level'[Writer] = level[Writer]
  BY ThreadAssumption DEF Inv, TypeOK, Thread, ReaderNext, Search, FollowLink, DropLevel,
     IterSeekToFirst, IterNext, StartRead, StartSearch, ReaderReturns, SeekReturns,
     ContainsReturns, BackwardReturns, Return, ReaderFrame, searchVars, insertVars
<1>2. 0 \in Level
  BY HeightAssumption DEF Level
<1> QED BY <1>1, <1>2, QuietStep DEF Keys

(* What OrderedSet sees of a reader's search: its start and its return.    *)
Ops == [q \in Reader |-> pc[q]]
Args == [q \in Reader |-> target[q]]

LEMMA StartView ==
  ASSUME TypeOK, NEW r \in Reader, NEW fn, NEW k, NEW l, StartSearch(r, fn, k, l)
  PROVE  /\ Ops[r] = "idle"
         /\ Ops' = [Ops EXCEPT ![r] = fn]
         /\ Args' = [Args EXCEPT ![r] = k]
<1>1. \A q \in Reader : pc'[q] = (IF q = r THEN fn ELSE pc[q])
  BY DEF TypeOK, Thread, StartSearch
<1>2. \A q \in Reader : target'[q] = (IF q = r THEN k ELSE target[q])
  BY DEF TypeOK, Thread, StartSearch
<1>3. pc[r] = "idle"
  BY DEF StartSearch
<1> QED BY <1>1, <1>2, <1>3 DEF Ops, Args

LEMMA ReturnView ==
  ASSUME TypeOK, NEW r \in Reader, Return(r)
  PROVE  /\ Ops' = [Ops EXCEPT ![r] = "idle"]
         /\ Args' = Args
         /\ Ops[r] = pc[r] /\ Args[r] = target[r]
<1>1. \A q \in Reader : pc'[q] = (IF q = r THEN "idle" ELSE pc[q])
  BY DEF TypeOK, Thread, Return
<1>2. target' = target
  BY DEF Return
<1> QED BY <1>1, <1>2 DEF Ops, Args

(* Every step of a reader is a step of its iterator in OrderedSet, or      *)
(* changes nothing there.                                                  *)
LEMMA ReaderRefines ==
  ASSUME Inv, PrevFromNode, NEW r \in Reader, ReaderNext(r)
  PROVE  [Set!Next]_(Set!vars)
<1> USE HeadFirst, KeysAreKeys
<1> USE DEF Inv
<1>0. Keys' = Keys /\ r \in Thread
  BY ReaderKeepsKeys DEF Thread
<1>1. \A n \in Published(0) : n \in Keys \/ n = head_
  BY DEF Keys
<1>2. head_ \in Published(0)
  BY HeightAssumption DEF ChainsExact, Level
<1>a. CASE StartRead(r)
  <2>1. UNCHANGED <<node_, found>> /\ Keys' = Keys
    BY <1>0, <1>a DEF StartRead
  <2>2. ASSUME NEW fn, NEW k, NEW l, StartSearch(r, fn, k, l) PROVE Set!Begin(r, fn, k)
    BY <2>1, <2>2, StartView DEF Set!Begin, Ops, Args, Keys
  <2>3. Set!Call(r)
    <3>1. PICK l \in Level :
            \/ \E k \in Key, fn \in {"Seek", "Contains"} : StartSearch(r, fn, k, l)
            \/ node_[r] # nullptr /\ StartSearch(r, "Prev", node_[r], l)
            \/ StartSearch(r, "SeekToLast", head_, l)
      BY <1>a DEF StartRead
    <3>2. CASE \E k \in Key, fn \in {"Seek", "Contains"} : StartSearch(r, fn, k, l)
      <4>1. PICK k \in Key, fn \in {"Seek", "Contains"} : StartSearch(r, fn, k, l)
        BY <3>2
      <4>2. Set!Begin(r, fn, k)
        BY <2>2, <4>1
      <4> QED BY <4>2 DEF Set!Call
    <3>3. CASE node_[r] # nullptr /\ StartSearch(r, "Prev", node_[r], l)
      <4>1. Set!Begin(r, "Prev", node_[r])
        BY <2>1, <3>3, StartView DEF Set!Begin, Ops, Args, Keys
      <4> QED BY <3>3, <4>1 DEF Set!Call
    <3>4. CASE StartSearch(r, "SeekToLast", head_, l)
      <4>1. Set!Begin(r, "SeekToLast", head_)
        BY <2>2, <3>4
      <4> QED BY <4>1 DEF Set!Call
    <3> QED BY <3>1, <3>2, <3>3, <3>4
  <2> QED BY <2>3 DEF Set!Next
<1>3. CASE Search(r)
  BY <1>0, <1>3 DEF Search, FollowLink, DropLevel, Set!vars, Keys
<1>4. CASE IterSeekToFirst(r)
  <2>1. Set!IsLeast(next_[head_][0], Keys)
    BY <1>2, NextIsSuccessor DEF Set!IsLeast
  <2>2. Set!SeekToFirst(r)
    BY <1>0, <1>2, <1>4, <2>1, NextIsSuccessor
    DEF IterSeekToFirst, searchVars, Set!SeekToFirst, Set!MoveTo, Set!Position, Keys
  <2> QED BY <2>2 DEF Set!Next
<1>5. CASE IterNext(r)
  <2>1. node_[r] \in Published(0) /\ node_[r] # nullptr
    BY <1>5 DEF IterNext, LoadsInitialized
  <2>2. Set!IsLeast(next_[node_[r]][0], Set!Above(node_[r]))
    BY <2>1, NextIsSuccessor DEF Set!IsLeast, Set!Above, Keys
  <2>3. Set!StepForward(r)
    BY <1>0, <1>5, <2>1, <2>2, NextIsSuccessor
    DEF IterNext, searchVars, Set!StepForward, Set!MoveTo, Set!Position, Keys
  <2> QED BY <2>3 DEF Set!Next
<1>6. CASE SeekReturns(r)
  <2>1. /\ x[r] \in Published(0) /\ LoadNext(r) = next_[x[r]][0]
        /\ target[r] \in Key /\ x[r] < target[r]
        /\ LoadNext(r) # nullptr => target[r] <= LoadNext(r)
    BY <1>6, SearchEnd DEF SeekReturns, ReaderSearch
  <2>2. \A k \in Keys : k >= target[r] => x[r] < k
    BY <1>1, <2>1
  <2>3. Set!IsLeast(LoadNext(r), Set!AtLeast(target[r]))
    BY <2>1, <2>2, NextIsSuccessor DEF Set!IsLeast, Set!AtLeast, Keys
  <2>4. Set!Seek(r)
    BY ZenonT(30), <1>0, <1>6, <2>1, <2>3, ReturnView, NextIsSuccessor
    DEF SeekReturns, Set!Seek, Set!Return, Set!MoveTo, Set!Position, Keys, Ops, Args
  <2> QED BY <2>1, <2>4 DEF Set!Next
<1>7. CASE ContainsReturns(r)
  <2>1. /\ x[r] \in Published(0) /\ LoadNext(r) = next_[x[r]][0]
        /\ target[r] \in Key /\ x[r] < target[r]
        /\ LoadNext(r) # nullptr => target[r] <= LoadNext(r)
    BY <1>7, SearchEnd DEF ContainsReturns, ReaderSearch
  <2>2. (LoadNext(r) = target[r]) = (target[r] \in Keys)
    BY <2>1, NextIsSuccessor
  <2>3. Set!Contains(r)
    BY <1>0, <1>7, <2>2, ReturnView
    DEF ContainsReturns, Set!Contains, Set!Return, Keys, Ops, Args
  <2> QED BY <2>1, <2>3 DEF Set!Next
<1>8. CASE BackwardReturns(r) /\ pc[r] = "Prev"
  <2>1. /\ x[r] \in Published(0) /\ LoadNext(r) = next_[x[r]][0]
        /\ target[r] \in Key /\ x[r] < target[r]
        /\ LoadNext(r) # nullptr => target[r] <= LoadNext(r)
    BY <1>8, SearchEnd DEF BackwardReturns, ReaderSearch
  <2>2. target[r] = node_[r] /\ node_[r] # nullptr
    BY <1>8 DEF PrevFromNode
  <2> DEFINE p == IF x[r] = head_ THEN nullptr ELSE x[r]
  <2>3. \A k \in Keys : k < target[r] => k <= x[r]
    BY <1>1, <2>1, NextIsSuccessor
  <2>4. Set!IsGreatest(p, Set!Below(target[r]))
    <3>1. CASE x[r] = head_
      <4>1. Set!Below(target[r]) = {}
        BY <2>3, <3>1 DEF Set!Below, Keys, head_
      <4> QED BY <3>1, <4>1 DEF Set!IsGreatest
    <3>2. CASE x[r] # head_
      BY <1>1, <2>1, <2>3, <3>2 DEF Set!IsGreatest, Set!Below, Keys
    <3> QED BY <3>1, <3>2
  <2>5. p \in Set!Position
    BY <1>1, <2>1 DEF Set!Position
  <2>6. Set!StepBack(r)
    BY <1>0, <1>8, <2>2, <2>4, <2>5, ReturnView
    DEF BackwardReturns, Set!StepBack, Set!Return, Set!MoveTo, Keys, Ops, Args
  <2> QED BY <2>6 DEF Set!Next
<1>9. CASE BackwardReturns(r) /\ pc[r] = "SeekToLast"
  <2>1. x[r] \in Published(0) /\ next_[x[r]][0] = nullptr
    BY <1>9, SearchEnd DEF BackwardReturns, ReaderSearch
  <2>2. ASSUME NEW k \in Keys PROVE k <= x[r]
    <3>1. x[r] \in Int
      BY <1>1, <2>1 DEF head_
    <3>2. k \in Int /\ ~(x[r] < k)
      BY <2>1, NextIsSuccessor
    <3> QED BY <3>1, <3>2
  <2> DEFINE p == IF x[r] = head_ THEN nullptr ELSE x[r]
  <2>3. Set!IsGreatest(p, Keys)
    <3>1. CASE x[r] = head_
      <4>1. Keys = {}
        BY <2>2, <3>1 DEF head_
      <4> QED BY <3>1, <4>1 DEF Set!IsGreatest
    <3>2. CASE x[r] # head_
      BY <1>1, <2>1, <2>2, <3>2 DEF Set!IsGreatest
    <3> QED BY <3>1, <3>2
  <2>4. p \in Set!Position
    BY <1>1, <2>1 DEF Set!Position
  <2>5. Set!SeekToLast(r)
    BY <1>0, <1>9, <2>3, <2>4, ReturnView
    DEF BackwardReturns, Set!SeekToLast, Set!Return, Set!MoveTo, Keys, Ops, Args
  <2> QED BY <2>5 DEF Set!Next
<1> QED BY <1>a, <1>3, <1>4, <1>5, <1>6, <1>7, <1>8, <1>9 DEF ReaderNext, ReaderReturns, BackwardReturns

(* The writer's only visible step is the store that publishes a node on    *)
(* level 0.                                                                *)
LEMMA WriterRefines ==
  ASSUME Inv, TypeOK', WriterNext
  PROVE  [Set!Next]_(Set!vars)
<1> USE HeightAssumption, ThreadAssumption
<1> USE DEF Inv
<1>0. 0 \in Level /\ Writer \in Thread
  BY DEF Level, Thread
<1>1. /\ node_' = node_ /\ found' = found
      /\ \A r \in Reader : pc'[r] = pc[r] /\ target'[r] = target[r]
  BY DEF WriterNext, RandomHeight, StartInsert, StartSearch, Search, FollowLink, DropLevel,
         ChooseHeight, LinkNode, PublishNode, TypeOK, Thread
<1>2. CASE (\E k \in Key : StartInsert(k)) \/ Search(Writer)
           \/ \E h \in 1 .. kMaxHeight : ChooseHeight(h)
  <2>1. next_' = next_ /\ pc[Writer] # "publish" /\ pc'[Writer] # "publish"
    BY <1>0, <1>2 DEF StartInsert, StartSearch, Search, FollowLink, DropLevel, ChooseHeight,
                      Searching, ReaderSearch, TypeOK
  <2>2. Published(0)' = Published(0)
    BY <1>0, <2>1, QuietStep
  <2> QED BY <1>1, <2>2 DEF Set!vars
<1>3. CASE LinkNode
  <2>1. Published(0)' = Published(0)
    BY <1>0, <1>3, LinkPublishesNothing
  <2> QED BY <1>1, <2>1 DEF Set!vars
<1>4. CASE PublishNode
  <2>1. /\ target[Writer] \in Key /\ target[Writer] \notin Published(level[Writer])
        /\ Published(0)' = IF level[Writer] = 0 THEN Published(0) \cup {target[Writer]}
                                                ELSE Published(0)
    BY <1>0, <1>4, PublishEffect
  <2>2. CASE level[Writer] = 0
    <3>1. target[Writer] # head_
      BY <2>1, HeadFirst
    <3>2. Set!Insert(target[Writer])
      BY <1>1, <2>1, <2>2, <3>1 DEF Set!Insert
    <3> QED BY <2>1, <3>2 DEF Set!Next
  <2>3. CASE level[Writer] # 0
    BY <1>1, <2>1, <2>3 DEF Set!vars
  <2> QED BY <2>2, <2>3
<1> QED BY <1>2, <1>3, <1>4 DEF WriterNext, RandomHeight

(* SkipList implements OrderedSet for every set of keys and readers and    *)
(* every kMaxHeight: each read is atomic at its last load, each insertion  *)
(* at its level 0 store, so a reader can miss no key that was in the list  *)
(* when it called and never goes backwards (skiplist_test.cpp, the         *)
(* concurrent test).                                                       *)
THEOREM Refinement == Spec => ImplementsOrderedSet
<1>1. Init => PrevFromNode
  BY DEF Init, PrevFromNode, Thread
<1>2. Spec => []PrevFromNode
  BY <1>1, Invariance, PrevFromNodeStep, PTL DEF Spec
<1>3. ASSUME Inv, PrevFromNode, [Next]_vars PROVE [Set!Next]_(Set!vars)
  <2>1. CASE UNCHANGED vars
    BY <2>1 DEF vars, Set!vars, Published
  <2>2. CASE WriterNext
    BY <1>3, <2>2, StepTypeOK, WriterRefines
  <2>3. CASE \E r \in Reader : ReaderNext(r)
    BY <1>3, <2>3, ReaderRefines
  <2> QED BY <1>3, <2>1, <2>2, <2>3 DEF Next
<1> QED BY <1>2, <1>3, Invariance, InitRefines, PTL DEF Spec, ImplementsOrderedSet, Set!Spec

-----------------------------------------------------------------------------
(* MemTable: the inductive invariant.                                      *)

(* The writes that are in the list: all whose Add() has returned, perhaps  *)
(* the one being added, nothing else.                                      *)
ListHoldsWrites ==
  /\ \A i \in 1 .. LastSequence : Place(EncodedKey(i)) \in Keys
  /\ \A k \in Keys : \E i \in 1 .. sequence : k = Place(EncodedKey(i))
  /\ pc[Writer] # "idle" => sequence > 0 /\ target[Writer] = Place(EncodedKey(sequence))

(* A lookup asks for a snapshot, and its Seek() for the place of that      *)
(* snapshot's lookup key.                                                  *)
LookupSeeks ==
  \A r \in Reader : lookup[r] # NoLookup =>
    /\ lookup[r].user_key \in UserKey
    /\ lookup[r].snapshot \in 0 .. LastSequence
    /\ pc[r] \in {"Seek", "idle"}
    /\ pc[r] = "Seek" =>
         target[r] = Place(LookupKey(lookup[r].user_key, lookup[r].snapshot))

MemTypeOK ==
  /\ writes \in Workloads
  /\ sequence \in 0 .. Len(writes)
  /\ lookup \in [Reader -> {NoLookup} \cup [user_key : UserKey, snapshot : Nat]]

MemInv ==
  /\ Inv /\ MemTypeOK /\ ListHoldsWrites /\ LookupSeeks /\ GetSeesSnapshot

-----------------------------------------------------------------------------
(* Orders                                                                  *)

LEMMA LeastNatural ==
  ASSUME NEW S \in SUBSET Nat, S # {}
  PROVE  \E k \in S : \A j \in S : k <= j
<1> DEFINE Lt == {ss \in Nat \X Nat : ss[1] < ss[2]}
<1>1. IsWellFoundedOn(Lt, Nat)
  BY NatLessThanWellFounded, Zenon DEF OpToRel
<1>2. \A j, k \in Nat : <<j, k>> \in Lt <=> j < k
  OBVIOUS
<1> HIDE DEF Lt
<1>3. PICK k \in S : \A j \in S : ~(<<j, k>> \in Lt)
  BY <1>1, WFMin
<1>4. \A j \in S : j \in Nat /\ k \in Nat /\ ~(j < k)
  BY <1>2, <1>3
<1>5. \A j \in S : k <= j
  BY <1>4
<1> QED BY <1>5

(* The greatest element of a bounded set.                                  *)
LEMMA GreatestBelow ==
  ASSUME NEW s \in Nat, NEW S \in SUBSET (0 .. s), S # {}
  PROVE  Max(S) \in S /\ \A j \in S : j <= Max(S)
<1> DEFINE T == {s - j : j \in S}
<1>1. T \in SUBSET Nat /\ T # {}
  OBVIOUS
<1>2. PICK d \in T : \A c \in T : d <= c
  BY <1>1, LeastNatural
<1>3. PICK m \in S : d = s - m
  OBVIOUS
<1>4. \A j \in S : s - m <= s - j
  BY <1>2, <1>3
<1> HIDE DEF T
<1>5. \A j \in S : m \in Int /\ j \in Int /\ m >= j
  BY <1>4
<1>6. \E y \in S : \A j \in S : y >= j
  BY <1>5
<1>7. Max(S) \in S /\ \A j \in S : Max(S) >= j
  BY <1>6 DEF Max
<1> QED BY <1>7

(* Slice::compare() is a strict total order of the byte strings.           *)
LEMMA LessIrreflexive == \A s \in ByteString : ~Less(s, s)
<1> SUFFICES ASSUME NEW s \in ByteString, NEW n \in 0 .. Len(s) - 1,
                    n = Len(s) \/ s[n + 1] < s[n + 1]
             PROVE  FALSE
  BY DEF Less
<1>1. Len(s) \in Nat /\ \A i \in 1 .. Len(s) : s[i] \in Int
  BY ByteAssumption DEF ByteString
<1>2. n + 1 \in 1 .. Len(s) /\ n # Len(s)
  BY <1>1
<1> QED BY <1>1, <1>2

LEMMA LessTransitive ==
  ASSUME NEW s \in ByteString, NEW t \in ByteString, NEW u \in ByteString,
         Less(s, t), Less(t, u)
  PROVE  Less(s, u)
<1> USE ByteAssumption
<1>0. /\ Len(s) \in Nat /\ Len(t) \in Nat /\ Len(u) \in Nat
      /\ \A i \in 1 .. Len(s) : s[i] \in Int
      /\ \A i \in 1 .. Len(t) : t[i] \in Int
      /\ \A i \in 1 .. Len(u) : u[i] \in Int
  BY DEF ByteString
<1>1. PICK n \in 0 .. Len(t) - 1 :
        /\ n <= Len(s) /\ \A i \in 1 .. n : s[i] = t[i]
        /\ n = Len(s) \/ s[n + 1] < t[n + 1]
  BY DEF Less
<1>2. PICK m \in 0 .. Len(u) - 1 :
        /\ m <= Len(t) /\ \A i \in 1 .. m : t[i] = u[i]
        /\ m = Len(t) \/ t[m + 1] < u[m + 1]
  BY DEF Less
<1>3. n \in Nat /\ m \in Nat /\ n + 1 <= Len(t) /\ m + 1 <= Len(u)
  BY <1>0, <1>1, <1>2
<1>4. CASE n < m
  <2>1. n \in 0 .. Len(u) - 1 /\ n + 1 \in 1 .. m
    BY <1>0, <1>3, <1>4
  <2>2. \A i \in 1 .. n : s[i] = u[i]
    <3>1. \A i \in 1 .. n : i \in 1 .. m
      BY <1>3, <1>4
    <3> QED BY <1>1, <1>2, <3>1
  <2>3. n = Len(s) \/ s[n + 1] < u[n + 1]
    BY <1>1, <1>2, <2>1
  <2> QED BY <1>1, <2>1, <2>2, <2>3 DEF Less
<1>5. CASE n = m
  <2>1. m # Len(t) /\ n + 1 \in 1 .. Len(t) /\ n + 1 \in 1 .. Len(u)
    BY <1>0, <1>3, <1>5
  <2>2. n = Len(s) \/ s[n + 1] < u[n + 1]
    <3> SUFFICES ASSUME n # Len(s) PROVE s[n + 1] < u[n + 1]
      OBVIOUS
    <3>1. s[n + 1] < t[n + 1] /\ t[n + 1] < u[n + 1]
      BY <1>1, <1>2, <1>5, <2>1
    <3>2. n + 1 \in 1 .. Len(s)
      BY <1>0, <1>1, <1>3
    <3> QED BY <1>0, <2>1, <3>1, <3>2
  <2>3. \A i \in 1 .. n : s[i] = u[i]
    BY <1>1, <1>2, <1>5
  <2> QED BY <1>1, <1>2, <1>5, <2>2, <2>3 DEF Less
<1>6. CASE m < n
  <2>1. m # Len(t) /\ m + 1 \in 1 .. n /\ m <= Len(s)
    BY <1>0, <1>1, <1>3, <1>6
  <2>2. s[m + 1] < u[m + 1]
    BY <1>1, <1>2, <2>1
  <2>3. \A i \in 1 .. m : s[i] = u[i]
    <3>1. \A i \in 1 .. m : i \in 1 .. n
      BY <1>3, <1>6
    <3> QED BY <1>1, <1>2, <3>1
  <2> QED BY <1>2, <2>1, <2>2, <2>3 DEF Less
<1> QED BY <1>3, <1>4, <1>5, <1>6

LEMMA LessTotal ==
  ASSUME NEW s \in ByteString, NEW t \in ByteString, s # t
  PROVE  Less(s, t) \/ Less(t, s)
<1> USE ByteAssumption
<1>0. /\ Len(s) \in Nat /\ Len(t) \in Nat
      /\ \A i \in 1 .. Len(s) : s[i] \in Int
      /\ \A i \in 1 .. Len(t) : t[i] \in Int
  BY DEF ByteString
<1> DEFINE Ends == {n \in Nat : /\ n <= Len(s) /\ n <= Len(t)
                                /\ n = Len(s) \/ n = Len(t) \/ s[n + 1] # t[n + 1]}
<1>1. Ends # {}
  <2>1. CASE Len(s) <= Len(t)
    BY <1>0, <2>1
  <2>2. CASE Len(t) <= Len(s)
    BY <1>0, <2>2
  <2> QED BY <1>0, <2>1, <2>2
<1>2. PICK n \in Ends : \A j \in Ends : n <= j
  BY <1>1, LeastNatural
<1>3. \A i \in 1 .. n : s[i] = t[i]
  <2> SUFFICES ASSUME NEW i \in 1 .. n, s[i] # t[i] PROVE FALSE
    OBVIOUS
  <2>1. i - 1 \in Nat /\ i - 1 <= Len(s) /\ i - 1 <= Len(t) /\ (i - 1) + 1 = i /\ ~(n <= i - 1)
    BY <1>0
  <2>2. i - 1 \in Ends
    BY <2>1
  <2> QED BY <1>2, <2>1, <2>2
<1>4. n \in Nat /\ n <= Len(s) /\ n <= Len(t) /\ (n = Len(s) \/ n = Len(t) \/ s[n + 1] # t[n + 1])
  OBVIOUS
<1> HIDE DEF Ends
<1>5. CASE n = Len(s) /\ n = Len(t)
  <2>1. s = t
    BY <1>3, <1>5, SeqEqual DEF ByteString
  <2> QED BY <2>1
<1>6. CASE n = Len(s) /\ n # Len(t)
  <2>1. n \in 0 .. Len(t) - 1
    BY <1>0, <1>4, <1>6
  <2> QED BY <1>3, <1>4, <1>6, <2>1 DEF Less
<1>7. CASE n # Len(s) /\ n = Len(t)
  <2>1. n \in 0 .. Len(s) - 1
    BY <1>0, <1>4, <1>7
  <2> QED BY <1>3, <1>4, <1>7, <2>1 DEF Less
<1>8. CASE n # Len(s) /\ n # Len(t)
  <2>1. n \in 0 .. Len(s) - 1 /\ n \in 0 .. Len(t) - 1 /\ n + 1 \in 1 .. Len(s) /\ n + 1 \in 1 .. Len(t)
    BY <1>0, <1>4, <1>8
  <2>2. s[n + 1] < t[n + 1] \/ t[n + 1] < s[n + 1]
    BY <1>0, <1>4, <1>8, <2>1
  <2> QED BY <1>3, <1>4, <2>1, <2>2 DEF Less
<1> QED BY <1>5, <1>6, <1>7, <1>8

(* InternalKeyComparator::Compare() is one of the internal keys.           *)
EncodedKeys == [user_key : ByteString, tag : Nat]

LEMMA InternalIrreflexive == \A k \in EncodedKeys : ~InternalLess(k, k)
BY LessIrreflexive DEF InternalLess, EncodedKeys

LEMMA InternalTransitive ==
  ASSUME NEW j \in EncodedKeys, NEW k \in EncodedKeys, NEW l \in EncodedKeys,
         InternalLess(j, k), InternalLess(k, l)
  PROVE  InternalLess(j, l)
<1>1. /\ j.user_key \in ByteString /\ k.user_key \in ByteString /\ l.user_key \in ByteString
      /\ j.tag \in Nat /\ k.tag \in Nat /\ l.tag \in Nat
  BY DEF EncodedKeys
<1>2. Less(j.user_key, k.user_key) /\ Less(k.user_key, l.user_key) => Less(j.user_key, l.user_key)
  BY <1>1, LessTransitive
<1> QED BY <1>1, <1>2 DEF InternalLess

LEMMA InternalTotal ==
  ASSUME NEW j \in EncodedKeys, NEW k \in EncodedKeys, j # k
  PROVE  InternalLess(j, k) \/ InternalLess(k, j)
<1>1. /\ j.user_key \in ByteString /\ k.user_key \in ByteString
      /\ j.tag \in Nat /\ k.tag \in Nat
      /\ j.user_key # k.user_key \/ j.tag # k.tag
  BY DEF EncodedKeys
<1>2. j.user_key # k.user_key => Less(j.user_key, k.user_key) \/ Less(k.user_key, j.user_key)
  BY <1>1, LessTotal
<1> QED BY <1>1, <1>2 DEF InternalLess

-----------------------------------------------------------------------------
(* Places                                                                  *)

LEMMA WritesAre ==
  ASSUME writes \in Workloads
  PROVE  /\ Len(writes) \in Nat /\ DOMAIN writes = 1 .. Len(writes)
         /\ Key = 1 .. Len(writes) + 1
         /\ \A i \in 1 .. Len(writes) :
              /\ writes[i].user_key \in ByteString /\ writes[i].type \in {0, 1}
              /\ EncodedKey(i) \in EncodedKeys
              /\ EncodedKey(i).user_key = writes[i].user_key
              /\ EncodedKey(i).tag = i * 256 + writes[i].type
              /\ EncodedKey(i).tag % 256 = writes[i].type
<1>1. /\ writes \in Seq([user_key : ByteString, type : ValueType])
      /\ Key = 1 .. Len(writes) + 1
  BY WorkloadAssumption
<1>2. /\ Len(writes) \in Nat /\ DOMAIN writes = 1 .. Len(writes)
      /\ \A i \in 1 .. Len(writes) : writes[i] \in [user_key : ByteString, type : ValueType]
  BY <1>1, LenProperties
<1>3. ASSUME NEW i \in 1 .. Len(writes)
      PROVE  /\ writes[i].user_key \in ByteString /\ writes[i].type \in {0, 1}
             /\ EncodedKey(i) \in EncodedKeys
             /\ EncodedKey(i).user_key = writes[i].user_key
             /\ EncodedKey(i).tag = i * 256 + writes[i].type
             /\ EncodedKey(i).tag % 256 = writes[i].type
  <2>1. writes[i].user_key \in ByteString /\ writes[i].type \in {0, 1} /\ i \in Nat
    BY <1>2 DEF ValueType, kTypeValue, kTypeDeletion
  <2>2. EncodedKey(i) = [user_key |-> writes[i].user_key, tag |-> i * 256 + writes[i].type]
    BY DEF EncodedKey, InternalKey, PackSequenceAndType
  <2>3. i * 256 + writes[i].type \in Nat /\ (i * 256 + writes[i].type) % 256 = writes[i].type
    BY <2>1
  <2> QED BY <2>1, <2>2, <2>3 DEF EncodedKeys
<1> QED BY <1>1, <1>2, <1>3

LEMMA LookupKeyIs ==
  ASSUME NEW u \in UserKey, NEW s \in Nat
  PROVE  /\ LookupKey(u, s) \in EncodedKeys /\ u \in ByteString
         /\ LookupKey(u, s).user_key = u /\ LookupKey(u, s).tag = s * 256 + 1
BY UserKeyAssumption
DEF LookupKey, InternalKey, PackSequenceAndType, kValueTypeForSeek, kTypeValue, EncodedKeys

(* The writes that sort before k.                                          *)
Before(k) == {i \in DOMAIN writes : InternalLess(EncodedKey(i), k)}

LEMMA BeforeFinite ==
  ASSUME writes \in Workloads, NEW k
  PROVE  /\ IsFiniteSet(Before(k))
         /\ Cardinality(Before(k)) \in 0 .. Len(writes)
<1>1. Len(writes) \in Nat /\ DOMAIN writes = 1 .. Len(writes)
  BY WritesAre
<1>2. IsFiniteSet(DOMAIN writes) /\ Cardinality(DOMAIN writes) = Len(writes)
  <2>1. \A a, b \in Int : /\ IsFiniteSet(a .. b)
                           /\ Cardinality(a .. b) = IF a > b THEN 0 ELSE b - a + 1
    BY FS_Interval
  <2>2. IsFiniteSet(1 .. Len(writes))
        /\ Cardinality(1 .. Len(writes)) = IF 1 > Len(writes) THEN 0 ELSE Len(writes) - 1 + 1
    BY <1>1, <2>1
  <2>3. (IF 1 > Len(writes) THEN 0 ELSE Len(writes) - 1 + 1) = Len(writes)
    BY <1>1
  <2> QED BY <1>1, <2>2, <2>3
<1>3. IsFiniteSet(Before(k)) /\ Cardinality(Before(k)) <= Len(writes)
  BY <1>2, FS_Subset DEF Before
<1> QED BY <1>1, <1>3, FS_CardinalityType

LEMMA PlaceIsKey ==
  ASSUME writes \in Workloads, NEW k
  PROVE  Place(k) \in Key /\ Place(k) \in Nat /\ Place(k) = 1 + Cardinality(Before(k))
<1>1. Place(k) = 1 + Cardinality(Before(k))
  BY DEF Place, Before
<1> QED BY <1>1, BeforeFinite, WritesAre

(* Places are in the comparator's order.                                   *)
LEMMA PlaceBelow ==
  ASSUME writes \in Workloads, NEW i \in 1 .. Len(writes), NEW k \in EncodedKeys,
         InternalLess(EncodedKey(i), k)
  PROVE  Place(EncodedKey(i)) < Place(k)
<1>1. EncodedKey(i) \in EncodedKeys /\ i \in DOMAIN writes
      /\ \A j \in DOMAIN writes : EncodedKey(j) \in EncodedKeys
  BY WritesAre
<1>2. Before(EncodedKey(i)) \subseteq Before(k)
  BY <1>1, InternalTransitive DEF Before
<1>3. i \in Before(k) /\ i \notin Before(EncodedKey(i))
  BY <1>1, InternalIrreflexive DEF Before
<1>4. /\ Cardinality(Before(EncodedKey(i))) <= Cardinality(Before(k))
      /\ Cardinality(Before(EncodedKey(i))) # Cardinality(Before(k))
  BY <1>2, <1>3, BeforeFinite, FS_Subset
<1> QED BY <1>4, BeforeFinite, PlaceIsKey

LEMMA PlaceAbove ==
  ASSUME writes \in Workloads, NEW i \in 1 .. Len(writes), NEW k \in EncodedKeys,
         ~InternalLess(EncodedKey(i), k)
  PROVE  Place(k) <= Place(EncodedKey(i))
<1>1. EncodedKey(i) \in EncodedKeys
      /\ \A j \in DOMAIN writes : EncodedKey(j) \in EncodedKeys
  BY WritesAre
<1>2. Before(k) \subseteq Before(EncodedKey(i))
  <2> SUFFICES ASSUME NEW j \in DOMAIN writes, InternalLess(EncodedKey(j), k)
               PROVE  InternalLess(EncodedKey(j), EncodedKey(i))
    BY DEF Before
  <2>1. EncodedKey(j) # EncodedKey(i)
    OBVIOUS
  <2>2. ~InternalLess(EncodedKey(i), EncodedKey(j))
    BY <1>1, InternalTransitive
  <2> QED BY <1>1, <2>1, <2>2, InternalTotal
<1>3. Cardinality(Before(k)) <= Cardinality(Before(EncodedKey(i)))
  BY <1>2, BeforeFinite, FS_Subset
<1> QED BY <1>3, BeforeFinite, PlaceIsKey

(* Two writes have different places, so a node holds one of them.          *)
LEMMA PlaceInjective ==
  ASSUME writes \in Workloads, NEW i \in 1 .. Len(writes), NEW j \in 1 .. Len(writes),
         Place(EncodedKey(i)) = Place(EncodedKey(j))
  PROVE  i = j
<1> SUFFICES ASSUME i # j PROVE FALSE
  OBVIOUS
<1>1. EncodedKey(i) \in EncodedKeys /\ EncodedKey(j) \in EncodedKeys
  BY WritesAre
<1>2. EncodedKey(i) # EncodedKey(j)
  <2>1. /\ EncodedKey(i).tag = i * 256 + writes[i].type /\ writes[i].type \in {0, 1}
        /\ EncodedKey(j).tag = j * 256 + writes[j].type /\ writes[j].type \in {0, 1}
    BY WritesAre
  <2>2. i * 256 + writes[i].type # j * 256 + writes[j].type
    BY <2>1
  <2> QED BY <2>1, <2>2
<1>3. InternalLess(EncodedKey(i), EncodedKey(j)) \/ InternalLess(EncodedKey(j), EncodedKey(i))
  BY <1>1, <1>2, InternalTotal
<1>4. Place(EncodedKey(i)) < Place(EncodedKey(j)) \/ Place(EncodedKey(j)) < Place(EncodedKey(i))
  BY <1>1, <1>3, PlaceBelow
<1>5. Place(EncodedKey(i)) \in Nat /\ Place(EncodedKey(j)) \in Nat
  BY PlaceIsKey
<1> QED BY <1>4, <1>5

LEMMA WriteAtIs ==
  ASSUME writes \in Workloads, NEW i \in 1 .. Len(writes)
  PROVE  WriteAt(Place(EncodedKey(i))) = i
<1>1. i \in DOMAIN writes /\ DOMAIN writes = 1 .. Len(writes)
  BY WritesAre
<1>2. \A j \in DOMAIN writes : Place(EncodedKey(j)) = Place(EncodedKey(i)) => j = i
  BY <1>1, PlaceInjective
<1>3. \E j \in DOMAIN writes : Place(EncodedKey(j)) = Place(EncodedKey(i))
  BY <1>1
<1> QED BY <1>2, <1>3 DEF WriteAt

-----------------------------------------------------------------------------
(* Lookups                                                                 *)

(* Where the lookup key of u at s is among the writes: the entries of u    *)
(* with larger sequence numbers sort before it, its older ones do not.     *)
LEMMA LookupKeyOrder ==
  ASSUME writes \in Workloads, NEW u \in UserKey, NEW s \in Nat, NEW i \in 1 .. Len(writes)
  PROVE  /\ writes[i].user_key = u =>
              (InternalLess(EncodedKey(i), LookupKey(u, s)) <=> i > s)
         /\ writes[i].user_key # u =>
              (InternalLess(EncodedKey(i), LookupKey(u, s)) <=> Less(writes[i].user_key, u))
<1>1. /\ EncodedKey(i).user_key = writes[i].user_key
      /\ EncodedKey(i).tag = i * 256 + writes[i].type
      /\ writes[i].type \in {0, 1}
      /\ LookupKey(u, s).user_key = u /\ LookupKey(u, s).tag = s * 256 + 1
      /\ u \in ByteString
  BY WritesAre, LookupKeyIs
<1>2. i * 256 + writes[i].type > s * 256 + 1 <=> i > s
  BY <1>1
<1>3. ~Less(u, u)
  BY <1>1, LessIrreflexive
<1> QED BY <1>1, <1>2, <1>3 DEF InternalLess

(* Get()'s answer, for node n and user key u.                              *)
AnswerAt(n, u) ==
  LET k == EncodedKey(WriteAt(n))
  IN  IF n = nullptr THEN absent
      ELSE IF ExtractUserKey(k) # u THEN absent
      ELSE IF ExtractValueType(k) = kTypeValue THEN WriteAt(n)
      ELSE NotFound

(* The first node at or after the lookup key's place answers the lookup,   *)
(* whichever writes after the snapshot are in the list already.            *)
LEMMA NewestFound ==
  ASSUME writes \in Workloads, NEW S \in SUBSET (1 .. Len(writes)),
         NEW u \in UserKey, NEW s \in Nat, 1 .. s \subseteq S,
         NEW n,
         \A i \in S : Place(LookupKey(u, s)) <= Place(EncodedKey(i)) =>
                        n # nullptr /\ n <= Place(EncodedKey(i)),
         n # nullptr => \E i \in S : n = Place(EncodedKey(i)) /\ Place(LookupKey(u, s)) <= n
  PROVE  AnswerAt(n, u) = Snapshot(u, s)
<1> DEFINE mine == {i \in 1 .. s : writes[i].user_key = u}
           L == LookupKey(u, s)
<1>0. L \in EncodedKeys
  BY LookupKeyIs
<1>1. ASSUME n # nullptr
      PROVE  \E i \in S : /\ n = Place(EncodedKey(i)) /\ WriteAt(n) = i
                          /\ ~InternalLess(EncodedKey(i), L)
  <2>1. PICK i \in S : n = Place(EncodedKey(i)) /\ Place(L) <= n
    BY <1>1
  <2>2. WriteAt(n) = i
    BY <2>1, WriteAtIs
  <2>3. ~InternalLess(EncodedKey(i), L)
    <3> SUFFICES ASSUME InternalLess(EncodedKey(i), L) PROVE FALSE
      OBVIOUS
    <3>1. Place(EncodedKey(i)) < Place(L) /\ Place(EncodedKey(i)) \in Nat /\ Place(L) \in Nat
      BY <1>0, PlaceBelow, PlaceIsKey
    <3> QED BY <2>1, <3>1
  <2> QED BY <2>1, <2>2, <2>3
<1>2. CASE mine = {}
  <2>1. Snapshot(u, s) = absent
    BY <1>2 DEF Snapshot
  <2>2. ASSUME n # nullptr PROVE ExtractUserKey(EncodedKey(WriteAt(n))) # u
    <3>1. PICK i \in S : WriteAt(n) = i /\ ~InternalLess(EncodedKey(i), L)
      BY <1>1, <2>2
    <3>2. writes[i].user_key # u
      <4> SUFFICES ASSUME writes[i].user_key = u PROVE FALSE
        OBVIOUS
      <4>1. i \in 1 .. Len(writes) /\ ~(i > s)
        BY <3>1, LookupKeyOrder
      <4>2. i \in mine
        BY <4>1, WritesAre
      <4> QED BY <1>2, <4>2
    <3> QED BY <3>1, <3>2, WritesAre DEF ExtractUserKey
  <2> QED BY <2>1, <2>2 DEF AnswerAt
<1>3. CASE mine # {}
  <2> DEFINE m == Max(mine)
  <2>1. m \in mine /\ \A j \in mine : j <= m
    <3>1. mine \in SUBSET (0 .. s)
      OBVIOUS
    <3> QED BY <1>3, <3>1, GreatestBelow
  <2>2. m \in S /\ m \in 1 .. Len(writes) /\ m \in 1 .. s /\ writes[m].user_key = u
    BY <2>1
  <2>3. Snapshot(u, s) = IF writes[m].type = kTypeValue THEN m ELSE NotFound
    BY <1>3 DEF Snapshot
  <2> HIDE DEF m
  <2>4. ~InternalLess(EncodedKey(m), L)
    BY <2>2, LookupKeyOrder
  <2>5. Place(L) <= Place(EncodedKey(m))
    BY <1>0, <2>2, <2>4, PlaceAbove
  <2>6. n # nullptr /\ n <= Place(EncodedKey(m))
    BY <2>2, <2>5
  <2>7. PICK i \in S : /\ n = Place(EncodedKey(i)) /\ WriteAt(n) = i
                       /\ ~InternalLess(EncodedKey(i), L)
    BY <1>1, <2>6
  <2>8. i = m
    <3> SUFFICES ASSUME i # m PROVE FALSE
      OBVIOUS
    <3>1. /\ i \in 1 .. Len(writes)
          /\ EncodedKey(i) \in EncodedKeys /\ EncodedKey(m) \in EncodedKeys
          /\ writes[i].user_key \in ByteString
          /\ EncodedKey(i).user_key = writes[i].user_key
          /\ EncodedKey(i).tag = i * 256 + writes[i].type /\ writes[i].type \in {0, 1}
          /\ EncodedKey(m).user_key = u
          /\ EncodedKey(m).tag = m * 256 + writes[m].type /\ writes[m].type \in {0, 1}
      BY <2>2, WritesAre
    <3>2. ~InternalLess(EncodedKey(m), EncodedKey(i))
      <4> SUFFICES ASSUME InternalLess(EncodedKey(m), EncodedKey(i)) PROVE FALSE
        OBVIOUS
      <4>1. Place(EncodedKey(m)) < Place(EncodedKey(i))
        BY <2>2, <3>1, PlaceBelow
      <4>2. Place(EncodedKey(m)) \in Nat /\ Place(EncodedKey(i)) \in Nat
        BY PlaceIsKey
      <4> QED BY <2>6, <2>7, <4>1, <4>2
    <3>3. EncodedKey(i) # EncodedKey(m)
      <4>1. i * 256 + writes[i].type # m * 256 + writes[m].type
        BY <2>2, <3>1
      <4> QED BY <3>1, <4>1
    <3>4. InternalLess(EncodedKey(i), EncodedKey(m))
      BY <3>1, <3>2, <3>3, InternalTotal
    <3>5. CASE writes[i].user_key = u
      <4>1. ~(i > s)
        BY <2>7, <3>1, <3>5, LookupKeyOrder
      <4>2. i \in mine
        BY <3>1, <3>5, <4>1
      <4>3. i <= m
        BY <2>1, <4>2 DEF m
      <4>4. ~Less(u, u)
        BY <3>1, <3>5, LessIrreflexive
      <4>5. i * 256 + writes[i].type > m * 256 + writes[m].type
        BY <3>1, <3>4, <3>5, <4>4 DEF InternalLess
      <4> QED BY <2>2, <3>1, <4>3, <4>5
    <3>6. CASE writes[i].user_key # u
      <4>1. Less(writes[i].user_key, u)
        BY <3>1, <3>4, <3>6 DEF InternalLess
      <4> QED BY <2>7, <3>1, <3>6, <4>1, LookupKeyOrder
    <3> QED BY <3>5, <3>6
  <2>9. ExtractUserKey(EncodedKey(m)) = u /\ ExtractValueType(EncodedKey(m)) = writes[m].type
    BY <2>2, WritesAre DEF ExtractUserKey, ExtractValueType
  <2>10. WriteAt(n) = m
    BY <2>7, <2>8
  <2> QED BY <2>3, <2>6, <2>9, <2>10 DEF AnswerAt
<1> QED BY <1>2, <1>3

-----------------------------------------------------------------------------
(* Steps                                                                   *)

(* Every step of the memtable is a step of its skip list.                  *)
LEMMA ReaderIsReader ==
  ASSUME MemTypeOK, NEW r \in Reader,
         \/ \E u \in UserKey, s \in 0 .. LastSequence : Get(r, u, s)
         \/ Iterate(r) \/ ReadContinues(r)
  PROVE  ReaderNext(r)
<1>1. ASSUME NEW u \in UserKey, NEW s \in 0 .. LastSequence, Get(r, u, s)
      PROVE  ReaderNext(r)
  <2>1. Place(LookupKey(u, s)) \in Key
    BY PlaceIsKey DEF MemTypeOK
  <2>2. StartRead(r)
    BY <1>1, <2>1 DEF Get, StartRead
  <2> QED BY <2>2 DEF ReaderNext
<1>2. CASE Iterate(r) \/ ReadContinues(r)
  BY <1>2 DEF Iterate, ReadContinues, ReaderNext
<1> QED BY <1>1, <1>2

LEMMA MemStepIsStep == MemTypeOK /\ [MemNext]_allVars => [Next]_vars
<1> SUFFICES ASSUME MemTypeOK, [MemNext]_allVars PROVE [Next]_vars
  OBVIOUS
<1>0. writes \in Workloads
  BY DEF MemTypeOK
<1>1. CASE UNCHANGED allVars
  BY <1>1 DEF allVars
<1>2. CASE Add
  BY <1>0, <1>2, PlaceIsKey DEF Add, Next, WriterNext
<1>3. CASE InsertContinues
  BY <1>3 DEF InsertContinues, Next, WriterNext
<1> QED BY <1>1, <1>2, <1>3, ReaderIsReader DEF MemNext, Next

(* A step of the writer leaves the readers alone, a step of a reader the   *)
(* other readers, the writer and the contents of the list.                 *)
LEMMA WriterOnly ==
  ASSUME TypeOK, WriterNext, NEW r \in Reader
  PROVE  pc'[r] = pc[r] /\ target'[r] = target[r] /\ node_'[r] = node_[r]
BY ThreadAssumption
DEF WriterNext, StartInsert, StartSearch, Search, FollowLink, DropLevel,
    ChooseHeight, LinkNode, PublishNode, TypeOK, Thread

LEMMA ReaderOnly ==
  ASSUME Inv, NEW r \in Reader, ReaderNext(r)
  PROVE  /\ pc'[Writer] = pc[Writer] /\ target'[Writer] = target[Writer] /\ Keys' = Keys
         /\ \A q \in Reader \ {r} :
              pc'[q] = pc[q] /\ target'[q] = target[q] /\ node_'[q] = node_[q]
<1>1. Keys' = Keys
  BY ReaderKeepsKeys
<1>2. \A t \in Thread \ {r} : pc'[t] = pc[t] /\ target'[t] = target[t]
  BY DEF Inv, TypeOK, Thread, ReaderNext, Search, FollowLink, DropLevel,
     IterSeekToFirst, IterNext, StartRead, StartSearch, ReaderReturns, SeekReturns,
     ContainsReturns, BackwardReturns, Return, ReaderFrame, searchVars, insertVars
<1>3. \A q \in Reader \ {r} : node_'[q] = node_[q]
  BY DEF Inv, TypeOK, Thread, ReaderNext, Search, FollowLink, DropLevel,
     IterSeekToFirst, IterNext, StartRead, ReaderReturns, SeekReturns,
     ContainsReturns, BackwardReturns
<1> QED BY <1>1, <1>2, <1>3, ThreadAssumption DEF Thread

(* The workload is fixed, and so are the places.                           *)
LEMMA PlacesStay ==
  ASSUME writes' = writes
  PROVE  /\ \A k : Place(k)' = Place(k)
         /\ \A i : EncodedKey(i)' = EncodedKey(i) /\ Place(EncodedKey(i))' = Place(EncodedKey(i))
         /\ \A n, u : AnswerAt(n, u)' = AnswerAt(n, u)
         /\ \A u, s : Snapshot(u, s)' = Snapshot(u, s)
<1>1. \A i : EncodedKey(i)' = EncodedKey(i)
  BY DEF EncodedKey
<1>2. \A k : Place(k)' = Place(k)
  BY <1>1 DEF Place
<1>3. \A i : Place(EncodedKey(i))' = Place(EncodedKey(i))
  BY DEF Place, EncodedKey
<1>4. \A n : WriteAt(n)' = WriteAt(n)
  BY DEF WriteAt, Place, EncodedKey
<1>5. \A n, u : AnswerAt(n, u)' = AnswerAt(n, u)
  BY DEF AnswerAt, WriteAt, Place, EncodedKey
<1>6. \A u, s : Snapshot(u, s)' = Snapshot(u, s)
  BY DEF Snapshot
<1> QED BY <1>1, <1>2, <1>3, <1>5, <1>6

LEMMA MemTypeStep == MemTypeOK /\ [MemNext]_allVars => MemTypeOK' /\ writes' = writes
<1> SUFFICES ASSUME MemTypeOK, [MemNext]_allVars PROVE MemTypeOK' /\ writes' = writes
  OBVIOUS
<1> USE DEF MemTypeOK
<1>0. Len(writes) \in Nat
  BY WritesAre
<1>1. CASE UNCHANGED allVars
  BY <1>1 DEF allVars, memVars
<1>2. CASE Add
  BY <1>0, <1>2 DEF Add
<1>3. CASE InsertContinues
  BY <1>3 DEF InsertContinues, memVars
<1>4. ASSUME NEW r \in Reader, NEW u \in UserKey, NEW s \in 0 .. LastSequence, Get(r, u, s)
      PROVE  MemTypeOK' /\ writes' = writes
  <2>1. s \in Nat
    BY <1>0 DEF LastSequence
  <2>2. [user_key |-> u, snapshot |-> s] \in [user_key : UserKey, snapshot : Nat]
    BY <2>1
  <2> QED BY <1>4, <2>2 DEF Get
<1>5. ASSUME NEW r \in Reader, Iterate(r) PROVE MemTypeOK' /\ writes' = writes
  BY <1>5 DEF Iterate
<1>6. ASSUME NEW r \in Reader, ReadContinues(r) PROVE MemTypeOK' /\ writes' = writes
  BY <1>6 DEF ReadContinues, memVars
<1> QED BY <1>1, <1>2, <1>3, <1>4, <1>5, <1>6 DEF MemNext

(* What a step of the writer does to the list: nothing, until the store    *)
(* that publishes the entry, which it makes before Add() returns.          *)
LEMMA InsertEffect ==
  ASSUME Inv, InsertContinues
  PROVE  /\ pc[Writer] # "idle" /\ target'[Writer] = target[Writer]
         /\ Keys' = Keys \/ Keys' = Keys \cup {target[Writer]}
         /\ pc'[Writer] = "idle" => target[Writer] \in Keys'
<1> USE HeightAssumption, ThreadAssumption
<1> USE DEF Inv
<1>0. 0 \in Level /\ Writer \in Thread /\ target[Writer] \in Node
  BY DEF Level, Thread, TypeOK
<1>1. WriterNext
  BY DEF InsertContinues, WriterNext
<1>2. TypeOK'
  BY <1>1, StepTypeOK DEF Next
<1>3. CASE Search(Writer) \/ \E h \in RandomHeight : ChooseHeight(h)
  <2>1. /\ next_' = next_ /\ pc[Writer] = "Insert" /\ pc'[Writer] \in {"Insert", "link"}
        /\ target'[Writer] = target[Writer]
    BY <1>0, <1>3 DEF Search, FollowLink, DropLevel, ChooseHeight,
                      Searching, ReaderSearch, WriterStage, TypeOK
  <2>2. Published(0)' = Published(0)
    BY <1>0, <2>1, QuietStep
  <2> QED BY <2>1, <2>2 DEF Keys
<1>4. CASE LinkNode
  <2>1. Published(0)' = Published(0)
    BY <1>0, <1>2, <1>4, LinkPublishesNothing
  <2>2. pc[Writer] = "link" /\ pc'[Writer] = "publish" /\ target'[Writer] = target[Writer]
    BY <1>0, <1>4 DEF LinkNode, TypeOK
  <2> QED BY <2>1, <2>2 DEF Keys
<1>5. CASE PublishNode
  <2>1. /\ level[Writer] \in Level /\ target[Writer] \in Key
        /\ Published(0)' = IF 0 = level[Writer] THEN Published(0) \cup {target[Writer]} ELSE Published(0)
        /\ 0 < level[Writer] => target[Writer] \in Published(0)
    BY <1>0, <1>2, <1>5, PublishEffect
  <2>2. target[Writer] # head_ /\ (0 = level[Writer] \/ 0 < level[Writer])
    BY <2>1, HeadFirst DEF Level
  <2>3. pc[Writer] = "publish" /\ target'[Writer] = target[Writer]
    BY <1>0, <1>5 DEF PublishNode, TypeOK
  <2>4. target[Writer] \in Keys'
    BY <2>1, <2>2 DEF Keys
  <2>5. Keys' = Keys \/ Keys' = Keys \cup {target[Writer]}
    BY <2>1, <2>2 DEF Keys
  <2> QED BY <2>3, <2>4, <2>5
<1> QED BY <1>3, <1>4, <1>5 DEF InsertContinues

LEMMA AddEffect ==
  ASSUME Inv, MemTypeOK, Add
  PROVE  /\ pc[Writer] = "idle" /\ pc'[Writer] = "Insert" /\ Keys' = Keys
         /\ target'[Writer] = Place(EncodedKey(sequence + 1))
<1>1. 0 \in Level /\ Writer \in Thread
  BY HeightAssumption DEF Level, Thread
<1>2. /\ next_' = next_ /\ pc[Writer] = "idle" /\ pc'[Writer] = "Insert"
      /\ target'[Writer] = Place(EncodedKey(sequence + 1))
  BY <1>1 DEF Add, StartInsert, StartSearch, Inv, TypeOK
<1>3. Published(0)' = Published(0)
  BY <1>1, <1>2, QuietStep
<1> QED BY <1>2, <1>3 DEF Keys

LEMMA ListHoldsWritesStep == MemInv /\ [MemNext]_allVars => ListHoldsWrites'
<1> SUFFICES ASSUME MemInv, [MemNext]_allVars PROVE ListHoldsWrites'
  OBVIOUS
<1> USE DEF MemInv
<1>0. /\ writes' = writes /\ sequence \in Nat /\ sequence' \in Nat
      /\ \A i : Place(EncodedKey(i))' = Place(EncodedKey(i))
  BY MemTypeStep, PlacesStay, WritesAre DEF MemTypeOK
<1>1. ASSUME UNCHANGED <<sequence>>, pc'[Writer] = pc[Writer], target'[Writer] = target[Writer],
             Keys' = Keys
      PROVE  ListHoldsWrites'
  BY <1>0, <1>1 DEF ListHoldsWrites, LastSequence
<1>2. CASE UNCHANGED allVars
  BY <1>1, <1>2 DEF allVars, memVars, vars, Keys, Published
<1>3. CASE Add
  <2>1. /\ pc[Writer] = "idle" /\ pc'[Writer] = "Insert" /\ Keys' = Keys
        /\ target'[Writer] = Place(EncodedKey(sequence + 1)) /\ sequence' = sequence + 1
    BY <1>3, AddEffect DEF Add
  <2>2. LastSequence' = LastSequence
    BY <1>0, <2>1 DEF LastSequence
  <2>3. target'[Writer] = Place(EncodedKey(sequence))'
    BY <1>0, <2>1 DEF Place, EncodedKey
  <2>4. \A i \in 1 .. LastSequence' : Place(EncodedKey(i))' \in Keys'
    BY <1>0, <2>1, <2>2 DEF ListHoldsWrites
  <2>5. \A k \in Keys' : \E i \in 1 .. sequence' : k = Place(EncodedKey(i))'
    <3>1. \A i \in 1 .. sequence : i \in 1 .. sequence'
      BY <1>0, <2>1
    <3> QED BY <1>0, <2>1, <3>1 DEF ListHoldsWrites
  <2>6. sequence' > 0
    BY <1>0, <2>1
  <2> QED BY <2>3, <2>4, <2>5, <2>6 DEF ListHoldsWrites
<1>4. CASE InsertContinues
  <2>1. /\ sequence' = sequence /\ target'[Writer] = target[Writer]
        /\ sequence > 0 /\ target[Writer] = Place(EncodedKey(sequence))
        /\ Keys' = Keys \/ Keys' = Keys \cup {target[Writer]}
        /\ pc'[Writer] = "idle" => target[Writer] \in Keys'
        /\ LastSequence = sequence - 1
    BY <1>4, InsertEffect DEF InsertContinues, memVars, ListHoldsWrites, LastSequence
  <2>2. \A i \in 1 .. LastSequence' : Place(EncodedKey(i))' \in Keys'
    <3> SUFFICES ASSUME NEW i \in 1 .. LastSequence' PROVE Place(EncodedKey(i)) \in Keys'
      BY <1>0
    <3>1. i \in 1 .. LastSequence \/ (i = sequence /\ pc'[Writer] = "idle")
      BY <1>0, <2>1 DEF LastSequence
    <3> QED BY <2>1, <3>1 DEF ListHoldsWrites
  <2>3. \A k \in Keys' : \E i \in 1 .. sequence' : k = Place(EncodedKey(i))'
    <3> SUFFICES ASSUME NEW k \in Keys' PROVE \E i \in 1 .. sequence : k = Place(EncodedKey(i))
      BY <1>0, <2>1
    <3>1. sequence \in 1 .. sequence
      BY <1>0, <2>1
    <3> QED BY <2>1, <3>1 DEF ListHoldsWrites
  <2>4. target'[Writer] = Place(EncodedKey(sequence))'
    BY <1>0, <2>1 DEF Place, EncodedKey
  <2> QED BY <2>1, <2>2, <2>3, <2>4 DEF ListHoldsWrites
<1>5. ASSUME NEW r \in Reader,
             (\E u \in UserKey, s \in 0 .. LastSequence : Get(r, u, s)) \/ Iterate(r) \/ ReadContinues(r)
      PROVE  ListHoldsWrites'
  <2>1. ReaderNext(r)
    BY <1>5, ReaderIsReader
  <2>2. sequence' = sequence
    BY <1>5 DEF Get, Iterate, ReadContinues, memVars
  <2> QED BY <1>1, <2>1, <2>2, ReaderOnly
<1> QED BY <1>2, <1>3, <1>4, <1>5 DEF MemNext

(* Snapshots stay in the past.                                             *)
LEMMA LastSequenceGrows ==
  ASSUME MemInv, [MemNext]_allVars
  PROVE  LastSequence \in Nat /\ LastSequence' \in Nat /\ LastSequence <= LastSequence'
<1> USE DEF MemInv
<1>0. sequence \in Nat /\ (pc[Writer] # "idle" => sequence > 0)
  BY WritesAre DEF MemTypeOK, ListHoldsWrites
<1>1. LastSequence \in Nat
  BY <1>0 DEF LastSequence
<1>2. LastSequence' \in Nat /\ LastSequence <= LastSequence'
  <2>1. CASE UNCHANGED allVars
    BY <1>0, <2>1 DEF allVars, memVars, vars, LastSequence
  <2>2. CASE Add
    BY <1>0, <2>2, AddEffect DEF Add, LastSequence
  <2>3. CASE InsertContinues
    BY <1>0, <2>3, InsertEffect DEF InsertContinues, memVars, LastSequence
  <2>4. ASSUME NEW r \in Reader,
               (\E u \in UserKey, s \in 0 .. LastSequence : Get(r, u, s)) \/ Iterate(r) \/ ReadContinues(r)
        PROVE  LastSequence' = LastSequence
    <3>1. ReaderNext(r)
      BY <2>4, ReaderIsReader
    <3>2. sequence' = sequence
      BY <2>4 DEF Get, Iterate, ReadContinues, memVars
    <3> QED BY <3>1, <3>2, ReaderOnly DEF LastSequence
  <2> QED BY <1>1, <2>1, <2>2, <2>3, <2>4 DEF MemNext
<1> QED BY <1>1, <1>2

(* What LookupSeeks and GetSeesSnapshot say of one reader.                 *)
LookupRight(r) ==
  LET u == lookup[r].user_key
      s == lookup[r].snapshot
  IN  lookup[r] # NoLookup =>
        /\ u \in UserKey /\ s \in 0 .. LastSequence /\ pc[r] \in {"Seek", "idle"}
        /\ pc[r] = "Seek" => target[r] = Place(LookupKey(u, s))
        /\ pc[r] = "idle" => AnswerAt(node_[r], u) = Snapshot(u, s)

AllLookupsRight == \A r \in Reader : LookupRight(r)

LEMMA LookupsRight == AllLookupsRight <=> LookupSeeks /\ GetSeesSnapshot
<1>1. \A r \in Reader : GetAnswer(r) = AnswerAt(node_[r], lookup[r].user_key)
  BY DEF GetAnswer, AnswerAt
<1> QED BY <1>1 DEF AllLookupsRight, LookupRight, LookupSeeks, GetSeesSnapshot

(* A reader that a step leaves alone keeps its answer.                     *)
LEMMA LookupStays ==
  ASSUME MemInv, [MemNext]_allVars, NEW r \in Reader, LookupRight(r),
         pc'[r] = pc[r], target'[r] = target[r], node_'[r] = node_[r], lookup'[r] = lookup[r]
  PROVE  LookupRight(r)'
<1> DEFINE u == lookup[r].user_key
           s == lookup[r].snapshot
<1>1. writes' = writes
  BY MemTypeStep DEF MemInv
<1>2. /\ Place(LookupKey(u, s))' = Place(LookupKey(u, s))
      /\ AnswerAt(node_[r], u)' = AnswerAt(node_[r], u)
      /\ Snapshot(u, s)' = Snapshot(u, s)
  BY <1>1 DEF Place, EncodedKey, AnswerAt, WriteAt, Snapshot
<1>3. s \in 0 .. LastSequence => s \in 0 .. LastSequence'
  BY LastSequenceGrows
<1> QED BY <1>2, <1>3 DEF LookupRight, NoLookup

(* The node at which Seek() returns is the first at or after its target    *)
(* among the writes in the list at that instant, so the answer is right    *)
(* then, and it stays so.                                                  *)
LEMMA SeekAnswers ==
  ASSUME MemInv, NEW r \in Reader, SeekReturns(r), lookup[r] # NoLookup
  PROVE  AnswerAt(LoadNext(r), lookup[r].user_key)
           = Snapshot(lookup[r].user_key, lookup[r].snapshot)
<1> USE DEF MemInv
<1>1. pc[r] = "Seek" /\ AtEnd(r)
  BY DEF SeekReturns
<1>2. PICK u \in UserKey, s \in 0 .. LastSequence :
        /\ u = lookup[r].user_key /\ s = lookup[r].snapshot
        /\ target[r] = Place(LookupKey(u, s))
  BY <1>1 DEF LookupSeeks
<1>3. /\ writes \in Workloads /\ sequence \in 0 .. Len(writes) /\ Len(writes) \in Nat
      /\ LastSequence \in Nat /\ LastSequence <= sequence
  BY WritesAre DEF MemTypeOK, LastSequence, ListHoldsWrites
<1>4. /\ x[r] \in Published(0) /\ LoadNext(r) = next_[x[r]][0]
      /\ target[r] \in Key /\ x[r] < target[r]
      /\ LoadNext(r) # nullptr => target[r] <= LoadNext(r)
  BY <1>1, SearchEnd DEF ReaderSearch
<1>5. /\ LoadNext(r) \in Keys \cup {nullptr}
      /\ \A k \in Keys : target[r] <= k => LoadNext(r) # nullptr /\ LoadNext(r) <= k
  <2>1. ASSUME NEW k \in Keys, target[r] <= k PROVE x[r] < k
    <3>1. x[r] \in Int /\ k \in Int /\ target[r] \in Int
      BY <1>4, KeysAreKeys, HeadFirst DEF Keys, head_
    <3> QED BY <1>4, <2>1, <3>1
  <2> QED BY <1>4, <2>1, NextIsSuccessor
<1> DEFINE S == {i \in 1 .. sequence : Place(EncodedKey(i)) \in Keys}
           n == LoadNext(r)
<1>6. S \in SUBSET (1 .. Len(writes)) /\ s \in Nat /\ 1 .. s \subseteq S
  <2>1. S \in SUBSET (1 .. Len(writes)) /\ s \in Nat
    BY <1>3
  <2>2. \A i \in 1 .. s : i \in 1 .. sequence /\ i \in 1 .. LastSequence
    BY <1>3
  <2> QED BY <2>1, <2>2 DEF ListHoldsWrites
<1>7. \A i \in S : Place(LookupKey(u, s)) <= Place(EncodedKey(i)) =>
                     n # nullptr /\ n <= Place(EncodedKey(i))
  BY <1>2, <1>5
<1>8. n # nullptr => \E i \in S : n = Place(EncodedKey(i)) /\ Place(LookupKey(u, s)) <= n
  BY <1>2, <1>4, <1>5 DEF ListHoldsWrites
<1> HIDE DEF S, n
<1>9. AnswerAt(n, u) = Snapshot(u, s)
  BY SMTT(30), <1>3, <1>6, <1>7, <1>8, NewestFound
<1> QED BY <1>2, <1>9 DEF n

LEMMA LookupStep ==
  ASSUME MemInv, [MemNext]_allVars, NEW r \in Reader
  PROVE  LookupRight(r)'
<1> USE DEF MemInv
<1>0. /\ LookupRight(r) /\ TypeOK /\ r \in Thread
      /\ lookup \in [Reader -> {NoLookup} \cup [user_key : UserKey, snapshot : Nat]]
  BY LookupsRight DEF AllLookupsRight, Inv, Thread, MemTypeOK
<1>1. CASE UNCHANGED allVars
  BY <1>0, <1>1, LookupStays DEF allVars, vars, memVars
<1>2. CASE Add \/ InsertContinues
  <2>1. WriterNext
    BY <1>2, PlaceIsKey DEF Add, InsertContinues, WriterNext, MemTypeOK
  <2>2. lookup' = lookup
    BY <1>2 DEF Add, InsertContinues, memVars
  <2> QED BY <1>0, <2>1, <2>2, WriterOnly, LookupStays
<1>3. ASSUME NEW q \in Reader, q # r,
             (\E u \in UserKey, s \in 0 .. LastSequence : Get(q, u, s)) \/ Iterate(q) \/ ReadContinues(q)
      PROVE  LookupRight(r)'
  <2>1. ReaderNext(q)
    BY <1>3, ReaderIsReader
  <2>2. lookup'[r] = lookup[r]
    BY <1>0, <1>3 DEF Get, Iterate, ReadContinues, memVars
  <2>3. pc'[r] = pc[r] /\ target'[r] = target[r] /\ node_'[r] = node_[r]
    BY <1>3, <2>1, ReaderOnly
  <2> QED BY <1>0, <2>2, <2>3, LookupStays
<1>4. ASSUME NEW u \in UserKey, NEW s \in 0 .. LastSequence, Get(r, u, s)
      PROVE  LookupRight(r)'
  <2>1. /\ lookup'[r].user_key = u /\ lookup'[r].snapshot = s
        /\ pc'[r] = "Seek" /\ target'[r] = Place(LookupKey(u, s))
    BY <1>0, <1>4 DEF Get, StartSearch, TypeOK
  <2>2. writes' = writes /\ s \in 0 .. LastSequence'
    BY LastSequenceGrows, MemTypeStep
  <2>3. Place(LookupKey(u, s))' = Place(LookupKey(u, s))
    BY <2>2 DEF Place, EncodedKey
  <2>4. Place(LookupKey(lookup[r].user_key, lookup[r].snapshot))' = Place(LookupKey(u, s))
    BY <2>1, <2>2 DEF Place, EncodedKey
  <2> QED BY <2>1, <2>2, <2>4 DEF LookupRight
<1>5. CASE Iterate(r)
  BY <1>0, <1>5 DEF Iterate, LookupRight
<1>6. CASE ReadContinues(r) /\ Search(r)
  <2>1. pc' = pc /\ target' = target /\ node_' = node_ /\ lookup' = lookup
    BY <1>6 DEF ReadContinues, memVars, Search, FollowLink, DropLevel
  <2> QED BY <1>0, <2>1, LookupStays
<1>7. CASE ReadContinues(r) /\ ReaderReturns(r)
  <2>1. lookup' = lookup
    BY <1>7 DEF ReadContinues, memVars
  <2>2. CASE lookup[r] = NoLookup
    BY <2>1, <2>2 DEF LookupRight, NoLookup
  <2>3. CASE lookup[r] # NoLookup
    <3>1. pc[r] \in {"Seek", "idle"}
      BY <2>3 DEF LookupSeeks
    <3>2. SeekReturns(r)
      BY <1>7, <3>1 DEF ReaderReturns, ContainsReturns, BackwardReturns
    <3>3. pc'[r] = "idle" /\ node_'[r] = LoadNext(r)
      BY <1>0, <3>2 DEF SeekReturns, Return, TypeOK
    <3>4. AnswerAt(LoadNext(r), lookup[r].user_key)
            = Snapshot(lookup[r].user_key, lookup[r].snapshot)
      BY <2>3, <3>2, SeekAnswers
    <3>5. writes' = writes
      BY MemTypeStep
    <3>6. /\ AnswerAt(node_[r], lookup[r].user_key)' = AnswerAt(LoadNext(r), lookup[r].user_key)
          /\ Snapshot(lookup[r].user_key, lookup[r].snapshot)'
               = Snapshot(lookup[r].user_key, lookup[r].snapshot)
      <4>1. PICK n : n = LoadNext(r)
        OBVIOUS
      <4>2. AnswerAt(node_[r], lookup[r].user_key)' = AnswerAt(n, lookup[r].user_key)
        BY <2>1, <3>3, <3>5, <4>1 DEF AnswerAt, WriteAt, Place, EncodedKey
      <4>3. Snapshot(lookup[r].user_key, lookup[r].snapshot)'
               = Snapshot(lookup[r].user_key, lookup[r].snapshot)
        BY <2>1, <3>5 DEF Snapshot
      <4> QED BY <4>1, <4>2, <4>3
    <3>7. /\ lookup[r].user_key \in UserKey
          /\ lookup[r].snapshot \in 0 .. LastSequence'
      BY <2>3, LastSequenceGrows DEF LookupSeeks
    <3> QED BY <2>1, <3>3, <3>4, <3>6, <3>7 DEF LookupRight
  <2> QED BY <2>2, <2>3
<1> QED BY <1>1, <1>2, <1>3, <1>4, <1>5, <1>6, <1>7 DEF MemNext, ReadContinues

-----------------------------------------------------------------------------
LEMMA MemInitInv == MemInit => MemInv
<1> SUFFICES ASSUME MemInit PROVE MemInv
  OBVIOUS
<1>1. Inv
  BY InitInv DEF MemInit
<1>2. MemTypeOK
  BY WritesAre DEF MemInit, MemTypeOK
<1>3. 0 \in Level /\ Writer \in Thread
  BY HeightAssumption DEF Level, Thread
<1>4. Keys = {} /\ pc[Writer] = "idle" /\ sequence = 0
  BY <1>3 DEF MemInit, Init, Keys, Published, Node, uninit
<1>5. ListHoldsWrites
  BY <1>4 DEF ListHoldsWrites, LastSequence
<1>6. LookupSeeks /\ GetSeesSnapshot
  BY DEF MemInit, LookupSeeks, GetSeesSnapshot
<1> QED BY <1>1, <1>2, <1>5, <1>6 DEF MemInv

LEMMA MemNextInv == MemInv /\ [MemNext]_allVars => MemInv'
<1> SUFFICES ASSUME MemInv, [MemNext]_allVars PROVE MemInv'
  OBVIOUS
<1>1. Inv'
  BY MemStepIsStep, NextInv DEF MemInv
<1>2. MemTypeOK'
  BY MemTypeStep DEF MemInv
<1>3. ListHoldsWrites'
  BY ListHoldsWritesStep
<1>4. AllLookupsRight'
  BY LookupStep DEF AllLookupsRight
<1>5. AllLookupsRight' => LookupSeeks' /\ GetSeesSnapshot'
  BY LookupsRight, PTL
<1> QED BY <1>1, <1>2, <1>3, <1>4, <1>5 DEF MemInv

LEMMA MemInvariance == MemSpec => []MemInv
BY MemInitInv, MemNextInv, PTL DEF MemSpec

(* A Get() without a lock reads its snapshot, for every workload, every    *)
(* set of user keys and readers and every kMaxHeight: it returns the value *)
(* of the newest write of the key at or before the snapshot's sequence     *)
(* number, or that it was deleted, or that there is none, although the     *)
(* node it stops at is not compared with the sequence number               *)
(* (memtable.cpp, lines 130-132) and the writer inserts meanwhile.         *)
THEOREM SnapshotReads == MemSpec => []GetSeesSnapshot
BY MemInvariance, PTL DEF MemInv

(* The memtable uses its skip list as skiplist.h requires (one writer, no  *)
(* key inserted twice), so whatever is proved of SkipList holds of the     *)
(* memtable's list.                                                        *)
THEOREM UsesSkipList == MemSpec => Spec
<1>1. MemInit => Init
  BY DEF MemInit
<1>2. MemInv => MemTypeOK
  BY DEF MemInv
<1> QED BY <1>1, <1>2, MemStepIsStep, MemInvariance, PTL DEF MemSpec, Spec

(* The memtable's list is an ordered set with atomic reads and insertions, *)
(* as the iterators of readers need (skiplist.h, "Thread safety").         *)
THEOREM MemRefinement == MemSpec => ImplementsOrderedSet
BY UsesSkipList, Refinement, PTL

(* Insert()'s requirement that nothing equal to the key is in the list     *)
(* (skiplist.h, line 52), at every point where Add() may be called.    *)
AddMayInsert ==
  sequence < Len(writes) /\ pc[Writer] = "idle" =>
    next_[Place(EncodedKey(sequence + 1))][0] = uninit

(* Add() never inserts a key twice: sequence numbers make internal keys    *)
(* distinct even when a user key is written again.  The guard of           *)
(* StartInsert therefore blocks no Add().                                  *)
THEOREM NoKeyTwice == MemSpec => []AddMayInsert
<1>1. ASSUME MemInv PROVE AddMayInsert
  <2> USE <1>1 DEF MemInv
  <2> SUFFICES ASSUME sequence < Len(writes), pc[Writer] = "idle",
                      next_[Place(EncodedKey(sequence + 1))][0] # uninit
               PROVE  FALSE
    BY DEF AddMayInsert
  <2> DEFINE j == sequence + 1
             p == Place(EncodedKey(j))
  <2>1. writes \in Workloads /\ sequence \in Nat /\ Len(writes) \in Nat /\ j \in 1 .. Len(writes)
    BY WritesAre DEF MemTypeOK
  <2>2. p \in Key
    BY <2>1, PlaceIsKey
  <2>3. p \in Keys
    BY <2>2, HeadFirst DEF Keys, Published, Node
  <2>4. PICK i \in 1 .. sequence : p = Place(EncodedKey(i))
    BY <2>3 DEF ListHoldsWrites
  <2>5. i \in 1 .. Len(writes) /\ i # j
    BY <2>1
  <2> QED BY <2>1, <2>4, <2>5, PlaceInjective
<1>2. MemInv => AddMayInsert
  BY <1>1
<1> QED BY <1>2, MemInvariance, PTL

-----------------------------------------------------------------------------
(* Separators                                                              *)

LEMMA BytesAre ==
  ASSUME NEW s \in ByteString
  PROVE  /\ Len(s) \in Nat /\ DOMAIN s = 1 .. Len(s)
         /\ \A i \in 1 .. Len(s) : s[i] \in 0 .. MaxByte /\ s[i] \in Int
BY ByteAssumption, LenProperties DEF ByteString

LEMMA CutIs ==
  ASSUME NEW s \in ByteString, NEW n \in 1 .. Len(s), s[n] < MaxByte
  PROVE  /\ CutAndIncrement(s, n) \in ByteString
         /\ Len(CutAndIncrement(s, n)) = n
         /\ \A i \in 1 .. n : CutAndIncrement(s, n)[i] = IF i = n THEN s[n] + 1 ELSE s[i]
<1> DEFINE p == SubSeq(s, 1, n)
           c == CutAndIncrement(s, n)
<1>1. p \in Seq(0 .. MaxByte) /\ Len(p) = n /\ \A i \in 1 .. n : p[i] = s[i]
  BY BytesAre DEF ByteString
<1>2. c = [p EXCEPT ![n] = s[n] + 1]
  BY <1>1 DEF CutAndIncrement
<1> HIDE DEF p, c
<1>3. n \in 1 .. Len(p) /\ s[n] + 1 \in 0 .. MaxByte
  BY <1>1, BytesAre, ByteAssumption
<1>4. /\ c \in Seq(0 .. MaxByte) /\ Len(c) = Len(p)
      /\ \A i \in 1 .. Len(p) : c[i] = IF i = n THEN s[n] + 1 ELSE p[i]
  BY <1>1, <1>2, <1>3, ExceptSeq
<1> QED BY <1>1, <1>4 DEF ByteString, c

(* A cut string is larger than the whole one, and smaller than a string    *)
(* whose first different byte is larger still.                             *)
LEMMA CutAbove ==
  ASSUME NEW s \in ByteString, NEW n \in 1 .. Len(s), s[n] < MaxByte
  PROVE  Less(s, CutAndIncrement(s, n))
<1> DEFINE c == CutAndIncrement(s, n)
<1>1. Len(c) = n /\ \A i \in 1 .. n : c[i] = IF i = n THEN s[n] + 1 ELSE s[i]
  BY CutIs
<1>2. n \in Nat /\ Len(s) \in Nat /\ s[n] \in Int
  BY BytesAre
<1> HIDE DEF c
<1>3. /\ n - 1 \in 0 .. Len(c) - 1 /\ n - 1 <= Len(s) /\ (n - 1) + 1 = n /\ n \in 1 .. n
      /\ \A i \in 1 .. n - 1 : i \in 1 .. n /\ i # n
  BY <1>1, <1>2
<1>4. s[(n - 1) + 1] < c[(n - 1) + 1]
  BY <1>1, <1>2, <1>3
<1>5. \A i \in 1 .. n - 1 : s[i] = c[i]
  BY <1>1, <1>3
<1> QED BY <1>3, <1>4, <1>5 DEF Less, c

LEMMA CutBelow ==
  ASSUME NEW s \in ByteString, NEW t \in ByteString, NEW n \in 1 .. Len(s), s[n] < MaxByte,
         n <= Len(t), \A i \in 1 .. n - 1 : s[i] = t[i], s[n] + 1 < t[n]
  PROVE  Less(CutAndIncrement(s, n), t)
<1> DEFINE c == CutAndIncrement(s, n)
<1>1. Len(c) = n /\ \A i \in 1 .. n : c[i] = IF i = n THEN s[n] + 1 ELSE s[i]
  BY CutIs
<1>2. n \in Nat /\ Len(s) \in Nat /\ Len(t) \in Nat
  BY BytesAre
<1> HIDE DEF c
<1>3. /\ n - 1 \in 0 .. Len(t) - 1 /\ n - 1 <= Len(c) /\ (n - 1) + 1 = n /\ n \in 1 .. n
      /\ \A i \in 1 .. n - 1 : i \in 1 .. n /\ i # n
  BY <1>1, <1>2
<1>4. c[(n - 1) + 1] < t[(n - 1) + 1]
  BY <1>1, <1>3
<1>5. \A i \in 1 .. n - 1 : c[i] = t[i]
  BY <1>1, <1>3
<1> QED BY <1>3, <1>4, <1>5 DEF Less, c

LEMMA MinOfTwo ==
  ASSUME NEW m \in Nat, NEW n \in Nat
  PROVE  Min({m, n}) \in Nat /\ Min({m, n}) <= m /\ Min({m, n}) <= n /\ Min({m, n}) \in {m, n}
<1>1. \E k \in {m, n} : \A j \in {m, n} : k =< j
  OBVIOUS
<1>2. Min({m, n}) \in {m, n} /\ \A j \in {m, n} : Min({m, n}) =< j
  BY <1>1 DEF Min
<1> QED BY <1>2

LEMMA SharedPrefixIs ==
  ASSUME NEW s \in ByteString, NEW t \in ByteString
  PROVE  /\ SharedPrefix(s, t) \in Nat
         /\ SharedPrefix(s, t) <= Len(s) /\ SharedPrefix(s, t) <= Len(t)
         /\ \A i \in 1 .. SharedPrefix(s, t) : s[i] = t[i]
         /\ s = t => SharedPrefix(s, t) = Len(s)
<1> DEFINE least == Min({Len(s), Len(t)})
           S == {n \in 0 .. least : \A i \in 1 .. n : s[i] = t[i]}
<1>1. Len(s) \in Nat /\ Len(t) \in Nat
  BY BytesAre
<1>2. least \in Nat /\ least <= Len(s) /\ least <= Len(t) /\ least \in {Len(s), Len(t)}
  BY <1>1, MinOfTwo
<1>3. SharedPrefix(s, t) = Max(S)
  BY DEF SharedPrefix
<1> HIDE DEF least
<1>4. S \in SUBSET (0 .. least) /\ 0 \in S
  BY <1>2
<1>5. Max(S) \in S /\ \A j \in S : j <= Max(S)
  BY <1>2, <1>4, GreatestBelow
<1>6. s = t => least \in S
  BY <1>2
<1>7. /\ Max(S) \in 0 .. least /\ (\A i \in 1 .. Max(S) : s[i] = t[i])
      /\ (s = t => least <= Max(S))
  BY <1>5, <1>6
<1> HIDE DEF S
<1>8. s = t => least = Len(s)
  BY <1>2
<1> QED BY <1>1, <1>2, <1>3, <1>7, <1>8

LEMMA SeparatorOfEqual == \A s \in ByteString : FindShortestSeparator(s, s) = s
<1> SUFFICES ASSUME NEW s \in ByteString PROVE FindShortestSeparator(s, s) = s
  OBVIOUS
<1>1. SharedPrefix(s, s) = Len(s) /\ Len(s) \in Nat
  BY SharedPrefixIs, BytesAre
<1>2. Min({Len(s), Len(s)}) <= Len(s) /\ Min({Len(s), Len(s)}) \in Nat
  BY <1>1, MinOfTwo
<1>3. ~(SharedPrefix(s, s) + 1 <= Min({Len(s), Len(s)}))
  BY <1>1, <1>2
<1> QED BY <1>3 DEF FindShortestSeparator

(* FindShortestSeparator() changes start "to a short string in             *)
(* [start,limit)" (comparator.h, line 39).                                 *)
THEOREM SeparatorBetween ==
  ASSUME NEW start \in ByteString, NEW limit \in ByteString, Less(start, limit)
  PROVE  LET k == FindShortestSeparator(start, limit)
         IN  /\ k \in ByteString /\ Len(k) <= Len(start)
             /\ ~Less(k, start) /\ Less(k, limit)
<1> DEFINE d == SharedPrefix(start, limit) + 1
           cut == /\ d <= Min({Len(start), Len(limit)})
                  /\ start[d] < MaxByte /\ start[d] + 1 < limit[d]
           k == FindShortestSeparator(start, limit)
<1>1. k = IF cut THEN CutAndIncrement(start, d) ELSE start
  BY DEF FindShortestSeparator
<1>2. Len(start) \in Nat /\ Len(limit) \in Nat
  BY BytesAre
<1>3. CASE ~cut
  BY <1>1, <1>2, <1>3, LessIrreflexive
<1>4. CASE cut
  <2>1. d \in Nat /\ d >= 1 /\ \A i \in 1 .. d - 1 : start[i] = limit[i]
    BY SharedPrefixIs
  <2>2. d <= Len(start) /\ d <= Len(limit)
    BY <1>2, <1>4, <2>1, MinOfTwo
  <2>3. d \in 1 .. Len(start) /\ start[d] < MaxByte /\ start[d] + 1 < limit[d]
    BY <1>2, <1>4, <2>1, <2>2
  <2> HIDE DEF d
  <2>4. k \in ByteString /\ Len(k) = d /\ Less(start, k)
    BY <1>1, <1>4, <2>3, CutIs, CutAbove
  <2>5. Less(k, limit)
    BY <1>1, <1>4, <2>1, <2>2, <2>3, CutBelow
  <2> HIDE DEF k
  <2>6. ~Less(k, start)
    BY <2>4, LessTransitive, LessIrreflexive
  <2> QED BY <2>2, <2>4, <2>5, <2>6 DEF k
<1> QED BY <1>3, <1>4

(* FindShortSuccessor() changes key "to a short string >= *key"            *)
(* (comparator.h, line 49).                                                *)
THEOREM SuccessorAfter ==
  ASSUME NEW key \in ByteString
  PROVE  LET k == FindShortSuccessor(key)
         IN  k \in ByteString /\ Len(k) <= Len(key) /\ ~Less(k, key)
<1> DEFINE free == {i \in DOMAIN key : key[i] # MaxByte}
           k == FindShortSuccessor(key)
<1>1. k = IF free = {} THEN key ELSE CutAndIncrement(key, Min(free))
  BY DEF FindShortSuccessor
<1>2. Len(key) \in Nat /\ DOMAIN key = 1 .. Len(key)
      /\ \A i \in 1 .. Len(key) : key[i] \in 0 .. MaxByte
  BY BytesAre
<1>3. CASE free = {}
  BY <1>1, <1>2, <1>3, LessIrreflexive
<1>4. CASE free # {}
  <2>1. free \in SUBSET Nat
    BY <1>2
  <2>2. \E m \in free : \A j \in free : m <= j
    BY <1>4, <2>1, LeastNatural
  <2>3. Min(free) \in free
    BY <2>2 DEF Min
  <2> DEFINE n == Min(free)
  <2>4. n \in 1 .. Len(key) /\ key[n] < MaxByte
    BY <1>2, <2>3, ByteAssumption
  <2>5. k = CutAndIncrement(key, n)
    BY <1>1, <1>4
  <2> HIDE DEF n, k, free
  <2>6. k \in ByteString /\ Len(k) = n /\ Less(key, k)
    BY <2>4, <2>5, CutIs, CutAbove
  <2>7. ~Less(k, key)
    BY <2>6, LessTransitive, LessIrreflexive
  <2> QED BY <1>2, <2>4, <2>6, <2>7 DEF k
<1> QED BY <1>3, <1>4

(* The internal key that TableBuilder puts into its index: at or after the *)
(* last key of the finished block, before the first of the next one, which *)
(* the asserts of InternalKeyComparator::FindShortestSeparator() claim     *)
(* (dbformat.cpp, lines 80-81).  A separator with a new user key carries   *)
(* the largest tag, so no entry of that user key sorts before it.          *)
THEOREM InternalSeparatorBetween ==
  ASSUME NEW start \in EncodedKeys, NEW limit \in EncodedKeys, InternalLess(start, limit)
  PROVE  LET k == InternalShortestSeparator(start, limit)
         IN  ~InternalLess(k, start) /\ InternalLess(k, limit)
<1> DEFINE su == start.user_key
           lu == limit.user_key
           tmp == FindShortestSeparator(su, lu)
           k == InternalShortestSeparator(start, limit)
           shorter == Len(tmp) < Len(su) /\ Less(su, tmp)
<1>1. k = IF shorter THEN [user_key |-> tmp, tag |-> MaxTag] ELSE start
  BY DEF InternalShortestSeparator, Shortened
<1>2. su \in ByteString /\ lu \in ByteString
  BY DEF EncodedKeys
<1>3. CASE ~shorter
  BY <1>1, <1>3, InternalIrreflexive
<1>4. CASE shorter
  <2>1. Less(su, lu)
    <3> SUFFICES ASSUME su = lu PROVE FALSE
      BY DEF InternalLess
    <3>1. tmp = su
      BY <1>2, SeparatorOfEqual
    <3> QED BY <1>2, <1>4, <3>1, LessIrreflexive
  <2>2. tmp \in ByteString /\ Less(tmp, lu)
    BY <1>2, <2>1, SeparatorBetween
  <2>3. k.user_key = tmp
    BY <1>1, <1>4
  <2>4. ~Less(tmp, su) /\ tmp # su
    BY <1>2, <1>4, <2>2, LessTransitive, LessIrreflexive
  <2> HIDE DEF tmp, k
  <2>5. InternalLess(k, limit) /\ ~InternalLess(k, start)
    BY <2>2, <2>3, <2>4 DEF InternalLess
  <2> QED BY <2>5 DEF k
<1> QED BY <1>3, <1>4

(* The key that Finish() puts into the index for the last block, at or     *)
(* after every key of the table (dbformat.cpp, line 95).                   *)
THEOREM InternalSuccessorAfter ==
  ASSUME NEW key \in EncodedKeys
  PROVE  ~InternalLess(InternalShortSuccessor(key), key)
<1> DEFINE u == key.user_key
           tmp == FindShortSuccessor(u)
           k == InternalShortSuccessor(key)
           shorter == Len(tmp) < Len(u) /\ Less(u, tmp)
<1>1. k = IF shorter THEN [user_key |-> tmp, tag |-> MaxTag] ELSE key
  BY DEF InternalShortSuccessor, Shortened
<1>2. u \in ByteString /\ tmp \in ByteString /\ ~Less(tmp, u)
  BY SuccessorAfter DEF EncodedKeys
<1>3. CASE ~shorter
  BY <1>1, <1>3, InternalIrreflexive
<1>4. CASE shorter
  <2>1. k.user_key = tmp /\ tmp # u
    BY <1>1, <1>2, <1>4, LessIrreflexive
  <2> HIDE DEF tmp, k
  <2>2. ~InternalLess(k, key)
    BY <1>2, <2>1 DEF InternalLess
  <2> QED BY <2>2 DEF k
<1> QED BY <1>3, <1>4

-----------------------------------------------------------------------------
(* The table builder.  The lemmas are about any value r of its Rep, since  *)
(* a method makes one from the other in several steps.                     *)

IsRep(r) ==
  r = [filter_policy |-> r.filter_policy, block_size |-> r.block_size,
       other_policy |-> r.other_policy, offset |-> r.offset, status |-> r.status,
       closed |-> r.closed, data_block |-> r.data_block, data_size |-> r.data_size,
       last_key |-> r.last_key, index_block |-> r.index_block,
       pending_index_entry |-> r.pending_index_entry, pending_handle |-> r.pending_handle,
       filter_block |-> r.filter_block, file |-> r.file, end |-> r.end, calls |-> r.calls,
       added |-> r.added]

IsSeq(s) == \E S : s \in Seq(S)

Entry == [key : KeyPlace, handle : [offset : Int, size : Int]]

RepType(r) ==
  /\ IsRep(r) /\ IsSeq(r.file)
  /\ r.filter_policy \in BOOLEAN /\ r.status \in BOOLEAN /\ r.closed \in BOOLEAN
  /\ r.pending_index_entry \in BOOLEAN /\ r.other_policy \in BOOLEAN
  /\ r.block_size \in Nat /\ r.offset \in Nat /\ r.data_size \in Nat /\ r.last_key \in Nat
  /\ r.end \in Nat /\ r.calls \in Nat
  /\ r.data_block \subseteq r.added /\ r.added \subseteq DataKey
  /\ r.index_block \in Seq(Entry) /\ r.pending_handle \in [offset : Int, size : Int]
  /\ r.filter_block = [filters |-> r.filter_block.filters, keys |-> r.filter_block.keys]
  /\ IsSeq(r.filter_block.filters) /\ IsFiniteSet(r.filter_block.keys)

(* What the calls of the file leave alone.                                 *)
Kept(r, c) ==
  /\ c.filter_policy = r.filter_policy /\ c.block_size = r.block_size /\ c.closed = r.closed
  /\ c.data_block = r.data_block /\ c.data_size = r.data_size /\ c.last_key = r.last_key
  /\ c.index_block = r.index_block /\ c.pending_index_entry = r.pending_index_entry
  /\ c.pending_handle = r.pending_handle /\ c.filter_block = r.filter_block
  /\ c.added = r.added /\ c.other_policy = r.other_policy

LEMMA AppendIs ==
  ASSUME NEW s, IsSeq(s), NEW e
  PROVE  /\ IsSeq(Append(s, e)) /\ Len(s) \in Nat /\ DOMAIN s = 1 .. Len(s)
         /\ Len(Append(s, e)) = Len(s) + 1 /\ DOMAIN Append(s, e) = 1 .. Len(s) + 1
         /\ \A i \in 1 .. Len(s) : Append(s, e)[i] = s[i]
         /\ Append(s, e)[Len(s) + 1] = e
<1>1. PICK S : s \in Seq(S)
  BY DEF IsSeq
<1>2. PICK T : T = S \cup {e}
  OBVIOUS
<1>3. s \in Seq(T) /\ e \in T
  BY <1>1, <1>2
<1>4. Append(s, e) \in Seq(T)
  BY <1>3
<1> HIDE <1>1, <1>2
<1>5. IsSeq(Append(s, e))
  BY <1>4 DEF IsSeq
<1> QED BY <1>3, <1>5

LEMMA CallFileIs ==
  ASSUME NEW r, RepType(r)
  PROVE  /\ RepType(CallFile(r)) /\ Kept(r, CallFile(r))
         /\ CallFile(r).offset = r.offset /\ CallFile(r).file = r.file /\ CallFile(r).end = r.end
<1> DEFINE c == CallFile(r)
<1>1. IsRep(r) /\ c = [r EXCEPT !.calls = r.calls + 1, !.status = (r.calls + 1 # failAt)]
  BY DEF CallFile, RepType
<1>2. IsRep(c)
  BY <1>1 DEF IsRep
<1>3. Kept(r, c) /\ c.offset = r.offset /\ c.file = r.file /\ c.end = r.end
  BY <1>1 DEF IsRep, Kept
<1>4. c.calls = r.calls + 1
  BY <1>1 DEF IsRep
<1>5. c.status = (r.calls + 1 # failAt)
  BY <1>1 DEF IsRep
<1>6. c.status \in BOOLEAN /\ c.calls \in Nat
  BY <1>4, <1>5 DEF RepType
<1> HIDE DEF c
<1>7. RepType(c)
  BY <1>2, <1>3, <1>6 DEF RepType, Kept
<1> QED BY <1>3, <1>7 DEF c

LEMMA AppendFileIs ==
  ASSUME NEW r, RepType(r), NEW kind, NEW size \in Nat, NEW contents
  PROVE  LET a == AppendFile(r, kind, size, contents)
         IN  /\ RepType(a) /\ Kept(r, a) /\ a.offset = r.offset
             /\ Len(a.file) = Len(r.file) + 1
             /\ \A i \in 1 .. Len(r.file) : a.file[i] = r.file[i]
             /\ a.status => /\ a.file[Len(r.file) + 1] = Chunk(kind, r.end, size, contents)
                            /\ a.end = r.end + size
             /\ ~a.status => a.file[Len(r.file) + 1].kind = "torn"
<1> DEFINE a == AppendFile(r, kind, size, contents)
<1>1. PICK c : c = CallFile(r)
  OBVIOUS
<1>2. RepType(c) /\ Kept(r, c) /\ c.offset = r.offset /\ c.file = r.file /\ c.end = r.end
  BY <1>1, CallFileIs
<1>3. CASE c.status
  <2>1. PICK f : f = Append(r.file, Chunk(kind, r.end, size, contents))
    OBVIOUS
  <2>2. a = [c EXCEPT !.file = f, !.end = r.end + size]
    BY <1>1, <1>2, <1>3, <2>1 DEF AppendFile
  <2>3. /\ IsRep(a) /\ Kept(c, a) /\ a.offset = c.offset /\ a.file = f /\ a.end = r.end + size
        /\ a.status = c.status /\ a.calls = c.calls
    BY <1>2, <2>2 DEF RepType, IsRep, Kept
  <2>4. IsSeq(f) /\ Len(f) = Len(r.file) + 1 /\ (\A i \in 1 .. Len(r.file) : f[i] = r.file[i])
        /\ f[Len(r.file) + 1] = Chunk(kind, r.end, size, contents)
    BY <2>1, AppendIs DEF RepType
  <2>5. a.end \in Nat
    BY <2>3 DEF RepType
  <2> HIDE DEF a
  <2>6. RepType(a) /\ Kept(r, a)
    BY <1>2, <2>3, <2>4, <2>5 DEF RepType, Kept
  <2> QED BY <1>2, <1>3, <2>3, <2>4, <2>6 DEF a
<1>4. CASE ~c.status
  <2>1. PICK f : f = Append(r.file, Chunk("torn", r.end, size, {}))
    OBVIOUS
  <2>2. a = [c EXCEPT !.file = f]
    BY <1>1, <1>2, <1>4, <2>1 DEF AppendFile
  <2>3. /\ IsRep(a) /\ Kept(c, a) /\ a.offset = c.offset /\ a.file = f /\ a.end = c.end
        /\ a.status = c.status /\ a.calls = c.calls
    BY <1>2, <2>2 DEF RepType, IsRep, Kept
  <2>4. IsSeq(f) /\ Len(f) = Len(r.file) + 1 /\ (\A i \in 1 .. Len(r.file) : f[i] = r.file[i])
        /\ f[Len(r.file) + 1] = Chunk("torn", r.end, size, {})
    BY <2>1, AppendIs DEF RepType
  <2>5. f[Len(r.file) + 1].kind = "torn"
    BY <2>4 DEF Chunk
  <2> HIDE DEF a
  <2>6. RepType(a) /\ Kept(r, a)
    BY <1>2, <2>3, <2>4 DEF RepType, Kept
  <2> QED BY <1>2, <1>4, <2>3, <2>4, <2>5, <2>6 DEF a
<1> QED BY <1>2, <1>3, <1>4 DEF RepType

LEMMA FileIs ==
  ASSUME NEW r, RepType(r)
  PROVE  Len(r.file) \in Nat /\ DOMAIN r.file = 1 .. Len(r.file)
BY AppendIs DEF RepType

(* A block and its trailer, or a file that ends torn.                      *)
(* w is r after a block and its trailer have been appended, or have failed.*)
RawBlockWritten(r, w, kind, form, contents) ==
  /\ RepType(w) /\ Kept(r, w)
  /\ w.status =>
       /\ Len(w.file) = Len(r.file) + 2
       /\ \A i \in 1 .. Len(r.file) : w.file[i] = r.file[i]
       /\ w.file[Len(r.file) + 1] = Chunk(kind, r.end, form.size, contents)
       /\ w.file[Len(r.file) + 2] = Chunk("trailer", r.end + form.size, kBlockTrailerSize, form.type)
       /\ w.end = r.end + form.size + kBlockTrailerSize
       /\ w.offset = r.offset + form.size + kBlockTrailerSize
  /\ ~w.status => Len(w.file) > 0 /\ w.file[Len(w.file)].kind = "torn"

LEMMA WriteRawBlockIs ==
  ASSUME NEW r, RepType(r), NEW kind, NEW form, form.size \in Nat, NEW contents
  PROVE  RawBlockWritten(r, WriteRawBlock(r, kind, form, contents), kind, form, contents)
<1> DEFINE w == WriteRawBlock(r, kind, form, contents)
<1>0. kBlockTrailerSize \in Nat
  BY SizeAssumption
<1>1. PICK n \in Nat : n = Len(r.file)
  BY FileIs
<1>2. PICK size \in Nat : size = form.size
  OBVIOUS
<1>a. PICK a : a = AppendFile(r, kind, size, contents)
  OBVIOUS
<1>3. /\ RepType(a) /\ Kept(r, a) /\ a.offset = r.offset /\ Len(a.file) = n + 1
      /\ \A i \in 1 .. n : a.file[i] = r.file[i]
      /\ a.status => a.file[n + 1] = Chunk(kind, r.end, size, contents)
                     /\ a.end = r.end + size
      /\ ~a.status => a.file[n + 1].kind = "torn"
  <2>1. /\ RepType(a) /\ Kept(r, a) /\ a.offset = r.offset
        /\ Len(a.file) = Len(r.file) + 1
        /\ \A i \in 1 .. Len(r.file) : a.file[i] = r.file[i]
        /\ a.status => /\ a.file[Len(r.file) + 1] = Chunk(kind, r.end, size, contents)
                       /\ a.end = r.end + size
        /\ ~a.status => a.file[Len(r.file) + 1].kind = "torn"
    BY <1>a, AppendFileIs
  <2> QED BY <1>1, <2>1
<1>4. CASE ~a.status
  <2>1. w = a
    BY <1>2, <1>a, <1>4 DEF WriteRawBlock
  <2> QED BY <1>1, <1>3, <1>4, <2>1 DEF RawBlockWritten
<1>5. CASE a.status
  <2>1. PICK b : b = AppendFile(a, "trailer", kBlockTrailerSize, form.type)
    OBVIOUS
  <2>2. w = IF b.status THEN [b EXCEPT !.offset = b.offset + size + kBlockTrailerSize] ELSE b
    BY <1>2, <1>a, <1>5, <2>1 DEF WriteRawBlock
  <2>3. /\ RepType(b) /\ Kept(a, b) /\ b.offset = a.offset /\ Len(b.file) = n + 1 + 1
        /\ \A i \in 1 .. n + 1 : b.file[i] = a.file[i]
        /\ b.status => b.file[n + 1 + 1] = Chunk("trailer", a.end, kBlockTrailerSize, form.type)
                       /\ b.end = a.end + kBlockTrailerSize
        /\ ~b.status => b.file[n + 1 + 1].kind = "torn"
    <3>0. PICK type : type = form.type
      OBVIOUS
    <3>1. PICK trailer \in Nat : trailer = kBlockTrailerSize
      BY <1>0
    <3>2. /\ RepType(b) /\ Kept(a, b) /\ b.offset = a.offset
          /\ Len(b.file) = Len(a.file) + 1
          /\ \A i \in 1 .. Len(a.file) : b.file[i] = a.file[i]
          /\ b.status => /\ b.file[Len(a.file) + 1] = Chunk("trailer", a.end, trailer, type)
                         /\ b.end = a.end + trailer
          /\ ~b.status => b.file[Len(a.file) + 1].kind = "torn"
      <4>1. PICK kind2 : kind2 = "trailer"
        OBVIOUS
      <4>2. RepType(a) /\ b = AppendFile(a, kind2, trailer, type) /\ trailer \in Nat
        BY <1>3, <2>1, <3>0, <3>1, <4>1
      <4>3. /\ RepType(b) /\ Kept(a, b) /\ b.offset = a.offset
            /\ Len(b.file) = Len(a.file) + 1
            /\ \A i \in 1 .. Len(a.file) : b.file[i] = a.file[i]
            /\ b.status => /\ b.file[Len(a.file) + 1] = Chunk(kind2, a.end, trailer, type)
                           /\ b.end = a.end + trailer
            /\ ~b.status => b.file[Len(a.file) + 1].kind = "torn"
        BY ONLY <4>2, AppendFileIs
      <4> QED BY <4>1, <4>3
    <3> QED BY <1>3, <3>0, <3>1, <3>2
  <2>4. Kept(r, b)
    BY <1>3, <2>3 DEF Kept
  <2>5. CASE ~b.status
    BY <1>1, <2>2, <2>3, <2>4, <2>5 DEF RawBlockWritten
  <2>6. CASE b.status
    <3>a. w = [b EXCEPT !.offset = b.offset + size + kBlockTrailerSize]
      BY <2>2, <2>6
    <3>b. IsRep(b)
      BY <2>3 DEF RepType
    <3> HIDE DEF w
    <3>1. /\ IsRep(w) /\ Kept(b, w) /\ w.offset = b.offset + size + kBlockTrailerSize
          /\ w.file = b.file /\ w.end = b.end /\ w.status = b.status /\ w.calls = b.calls
      <4>1. PICK o : o = b.offset + size + kBlockTrailerSize
        OBVIOUS
      <4>2. w = [b EXCEPT !.offset = o]
        BY <3>a, <4>1
      <4>3. /\ IsRep(w) /\ Kept(b, w) /\ w.offset = o
            /\ w.file = b.file /\ w.end = b.end /\ w.status = b.status /\ w.calls = b.calls
        BY <3>b, <4>2 DEF IsRep, Kept
      <4> QED BY <4>1, <4>3
    <3>2. w.offset \in Nat
      <4>1. r.offset \in Nat
        BY DEF RepType
      <4>2. PICK t \in Nat : t = kBlockTrailerSize
        BY <1>0
      <4> QED BY <1>3, <2>3, <3>1, <4>1, <4>2
    <3>3. RepType(w) /\ Kept(r, w)
      BY <2>3, <2>4, <3>1, <3>2 DEF RepType, Kept
    <3>4. /\ Len(w.file) = n + 2
          /\ \A i \in 1 .. n : w.file[i] = r.file[i]
          /\ w.file[n + 1] = Chunk(kind, r.end, size, contents)
      <4>1. w.file = b.file
        BY <3>1
      <4>2. Len(b.file) = n + 2
        BY <2>3
      <4>3. \A i \in 1 .. n : b.file[i] = r.file[i]
        BY <1>3, <2>3
      <4>4. b.file[n + 1] = Chunk(kind, r.end, size, contents)
        BY <1>3, <1>5, <2>3
      <4> QED BY <4>1, <4>2, <4>3, <4>4
    <3>5. w.file[n + 2] = Chunk("trailer", r.end + size, kBlockTrailerSize, form.type)
      BY <1>3, <1>5, <2>3, <2>6, <3>1
    <3>6. w.end = r.end + size + kBlockTrailerSize /\ w.offset = r.offset + size + kBlockTrailerSize
      BY <1>3, <1>5, <2>3, <2>6, <3>1
    <3> QED BY <1>1, <1>2, <2>6, <3>1, <3>3, <3>4, <3>5, <3>6 DEF w, RawBlockWritten
  <2> QED BY <2>3, <2>5, <2>6 DEF RepType
<1> QED BY <1>3, <1>4, <1>5 DEF RepType

-----------------------------------------------------------------------------
(* The order of internal keys and what the index keys are.                 *)

LEMMA KeysAre ==
  /\ KeyPlace = 1 .. Len(IKey) /\ Len(IKey) \in Nat
  /\ \A i \in KeyPlace : i \in Nat \ {0} /\ IKey[i] \in EncodedKeys
  /\ DataKey \subseteq KeyPlace
<1>1. IKey \in Seq(EncodedKeys)
  BY IKeyAssumption DEF EncodedKeys, ByteString
<1>2. Len(IKey) \in Nat /\ DOMAIN IKey = 1 .. Len(IKey) /\ \A i \in 1 .. Len(IKey) : IKey[i] \in EncodedKeys
  BY <1>1
<1> QED BY <1>2, IKeyAssumption DEF KeyPlace

LEMMA PlaceOfIs ==
  ASSUME NEW k, \E i \in KeyPlace : IKey[i] = k
  PROVE  PlaceOf(k) \in KeyPlace /\ IKey[PlaceOf(k)] = k
BY DEF PlaceOf

(* The separator is at or behind the last key and before the next; if it   *)
(* is not the last key itself, its user key is before that of the next.    *)
LEMMA SeparatorIs ==
  ASSUME NEW r, r.last_key \in KeyPlace, NEW key \in KeyPlace, r.last_key < key
  PROVE  /\ Separator(r, key) \in KeyPlace
         /\ r.last_key <= Separator(r, key) /\ Separator(r, key) < key
         /\ \/ Separator(r, key) = r.last_key
            \/ Less(IKey[Separator(r, key)].user_key, IKey[key].user_key)
<1>1. PICK l \in KeyPlace : l = r.last_key
  OBVIOUS
<1>2. PICK a \in EncodedKeys, b \in EncodedKeys : a = IKey[l] /\ b = IKey[key]
  BY KeysAre
<1>3. InternalLess(a, b)
  BY <1>1, <1>2, IKeyAssumption
<1>4. PICK k : k = InternalShortestSeparator(a, b)
  OBVIOUS
<1>5. ~InternalLess(k, a) /\ InternalLess(k, b)
  BY <1>3, <1>4, InternalSeparatorBetween
<1>6. PICK s : s = Separator(r, key)
  OBVIOUS
<1>7. s = PlaceOf(k)
  BY <1>1, <1>2, <1>4, <1>6 DEF Separator
<1>8. \E i \in KeyPlace : IKey[i] = k
  BY <1>1, <1>2, <1>4, IKeyAssumption
<1>9. s \in KeyPlace /\ IKey[s] = k
  BY <1>7, <1>8, PlaceOfIs
<1>10. ~(s < l) /\ s < key
  BY <1>2, <1>5, <1>9, IKeyAssumption
<1>11. l \in Nat /\ s \in Nat /\ key \in Nat
  BY <1>9, KeysAre
<1>12. s = l \/ Less(IKey[s].user_key, IKey[key].user_key)
  <2> SUFFICES ASSUME s # l PROVE Less(k.user_key, b.user_key)
    BY <1>2, <1>9
  <2>1. l < s
    BY <1>10, <1>11
  <2>2. k # a
    BY <1>2, <1>9, <2>1, IKeyAssumption, InternalIrreflexive
  <2>3. PICK tmp : tmp = FindShortestSeparator(a.user_key, b.user_key)
    OBVIOUS
  <2>4. k = [user_key |-> tmp, tag |-> MaxTag] /\ Less(a.user_key, tmp)
    BY <1>4, <2>2, <2>3 DEF InternalShortestSeparator, Shortened
  <2>5. a.user_key \in ByteString /\ b.user_key \in ByteString
    BY DEF EncodedKeys
  <2>6. a.user_key # b.user_key
    BY <2>3, <2>4, <2>5, SeparatorOfEqual, LessIrreflexive
  <2>7. Less(a.user_key, b.user_key)
    BY <1>3, <2>6 DEF InternalLess
  <2>8. Less(tmp, b.user_key)
    BY <2>3, <2>5, <2>7, SeparatorBetween
  <2> QED BY <2>4, <2>8
<1> QED BY <1>1, <1>6, <1>9, <1>10, <1>11, <1>12

LEMMA SuccessorIs ==
  ASSUME NEW r, r.last_key \in KeyPlace
  PROVE  Successor(r) \in KeyPlace /\ r.last_key <= Successor(r)
<1>1. PICK l \in KeyPlace : l = r.last_key
  OBVIOUS
<1>2. PICK a \in EncodedKeys : a = IKey[l]
  BY KeysAre
<1>3. PICK s : s = Successor(r)
  OBVIOUS
<1>4. s = PlaceOf(InternalShortSuccessor(a))
  BY <1>1, <1>2, <1>3 DEF Successor
<1>5. s \in KeyPlace /\ IKey[s] = InternalShortSuccessor(a)
  BY <1>2, <1>4, PlaceOfIs, IKeyAssumption
<1>6. ~(s < l)
  BY <1>2, <1>5, InternalSuccessorAfter, IKeyAssumption
<1>7. l \in Nat /\ s \in Nat
  BY <1>5, KeysAre
<1> QED BY <1>1, <1>3, <1>5, <1>6, <1>7

(* The user key of the i-th key is before that of the j-th.                *)
UserBefore(i, j) == Less(IKey[i].user_key, IKey[j].user_key)

LEMMA UserKeysInOrder ==
  ASSUME NEW i \in KeyPlace, NEW j \in KeyPlace, i <= j
  PROVE  /\ UserBefore(i, j) \/ IKey[i].user_key = IKey[j].user_key
         /\ ~UserBefore(j, i)
<1>1. PICK a \in EncodedKeys, b \in EncodedKeys : a = IKey[i] /\ b = IKey[j]
  BY KeysAre
<1>2. i \in Nat /\ j \in Nat /\ a.user_key \in ByteString /\ b.user_key \in ByteString
  BY KeysAre DEF EncodedKeys
<1>3. CASE i = j
  BY <1>1, <1>2, <1>3, LessIrreflexive DEF UserBefore
<1>4. CASE i < j
  <2>1. InternalLess(a, b)
    BY <1>1, <1>4, IKeyAssumption
  <2>2. Less(a.user_key, b.user_key) \/ a.user_key = b.user_key
    BY <2>1 DEF InternalLess
  <2>3. ~Less(b.user_key, a.user_key)
    BY <1>2, <2>2, LessIrreflexive, LessTransitive
  <2> QED BY <1>1, <2>2, <2>3 DEF UserBefore
<1> QED BY <1>2, <1>3, <1>4

LEMMA UserBeforeThen ==
  ASSUME NEW i \in KeyPlace, NEW j \in KeyPlace, NEW k \in KeyPlace, UserBefore(i, j), j <= k
  PROVE  UserBefore(i, k)
<1>1. UserBefore(j, k) \/ IKey[j].user_key = IKey[k].user_key
  BY UserKeysInOrder
<1>2. /\ IKey[i].user_key \in ByteString /\ IKey[j].user_key \in ByteString
      /\ IKey[k].user_key \in ByteString
  BY KeysAre DEF EncodedKeys
<1> QED BY <1>1, <1>2, LessTransitive DEF UserBefore

LEMMA SameUserBetween ==
  ASSUME NEW i \in KeyPlace, NEW j \in KeyPlace, NEW k \in KeyPlace, i <= j, j <= k,
         IKey[i].user_key = IKey[k].user_key
  PROVE  IKey[j].user_key = IKey[i].user_key
<1>1. UserBefore(i, j) \/ IKey[i].user_key = IKey[j].user_key
  BY UserKeysInOrder
<1>2. UserBefore(i, j) => UserBefore(i, k)
  BY UserBeforeThen
<1>3. ~UserBefore(i, i)
  BY UserKeysInOrder, KeysAre
<1> QED BY <1>1, <1>2, <1>3 DEF UserBefore

-----------------------------------------------------------------------------
(* How the keys added (A) are cut into the blocks B of the entries E of    *)
(* the index and the data block D that is being built; L is the last key.  *)

Cut(E, B, D, A) ==
  /\ \A j \in DOMAIN E : B[j] # {} /\ B[j] \subseteq A
  /\ \A j \in DOMAIN E : \A k \in B[j] : k <= E[j].key
  /\ \A i, j \in DOMAIN E : i < j => \A k \in B[j] : E[i].key < k
  /\ \A j \in DOMAIN E : \A k \in D : E[j].key < k
  /\ \A k \in A : k \in D \/ \E j \in DOMAIN E : k \in B[j]
  /\ \A j \in DOMAIN E : E[j].key \in B[j] \/ \A k \in A : E[j].key < k => UserBefore(E[j].key, k)

Running(E, B, D, A, L) ==
  /\ D \subseteq A
  /\ A # {} => L \in A
  /\ \A k \in A : k <= L
  /\ D # {} => L \in D
  /\ \A j \in DOMAIN E : E[j].key < L \/ E[j].key \in B[j]

(* A key behind all others; the last entry may get the separator.          *)
LEMMA CutAdd ==
  ASSUME NEW E \in Seq(Entry), NEW F \in Seq(Entry), NEW B, NEW D, NEW A \in SUBSET KeyPlace,
         NEW L \in Nat, NEW key \in KeyPlace, L < key, DOMAIN F = DOMAIN E,
         Cut(E, B, D, A), Running(E, B, D, A, L),
         \A j \in DOMAIN E :
           \/ F[j].key = E[j].key
           \/ /\ D = {} /\ \A i \in DOMAIN E : i <= j
              /\ L <= F[j].key /\ F[j].key < key /\ UserBefore(F[j].key, key)
  PROVE  /\ Cut(F, B, D \cup {key}, A \cup {key})
         /\ Running(F, B, D \cup {key}, A \cup {key}, key)
<1>0. /\ \A j \in DOMAIN E : j \in Nat /\ E[j].key \in KeyPlace /\ F[j].key \in KeyPlace
      /\ \A k \in KeyPlace : k \in Nat
  <2>1. \A j \in DOMAIN E : j \in Nat /\ E[j] \in Entry /\ F[j] \in Entry
    OBVIOUS
  <2> QED BY <2>1, KeysAre DEF Entry
<1> DEFINE A2 == A \cup {key}
           D2 == D \cup {key}
<1>1. \A j \in DOMAIN E : E[j].key <= L
  BY <1>0 DEF Cut, Running
<1>2. \A j \in DOMAIN E : E[j].key <= F[j].key /\ F[j].key < key
  BY <1>0, <1>1
<1>3. \A j \in DOMAIN F : B[j] # {} /\ B[j] \subseteq A2
  BY DEF Cut
<1>4. \A j \in DOMAIN F : \A k \in B[j] : k <= F[j].key
  BY <1>0, <1>2 DEF Cut
<1>5. \A i, j \in DOMAIN F : i < j => \A k \in B[j] : F[i].key < k
  BY SMTT(30), <1>0 DEF Cut
<1>6. \A j \in DOMAIN F : \A k \in D2 : F[j].key < k
  BY <1>2 DEF Cut
<1>7. \A k \in A2 : k \in D2 \/ \E j \in DOMAIN F : k \in B[j]
  BY DEF Cut
<1>8. \A j \in DOMAIN F : F[j].key \in B[j] \/ \A k \in A2 : F[j].key < k => UserBefore(F[j].key, k)
  <2> SUFFICES ASSUME NEW j \in DOMAIN E, F[j].key \notin B[j], NEW k \in A2, F[j].key < k
               PROVE  UserBefore(F[j].key, k)
    OBVIOUS
  <2>1. CASE F[j].key = E[j].key
    <3>1. E[j].key < L /\ L \in A
      BY <2>1 DEF Cut, Running
    <3>2. \A l \in A : E[j].key < l => UserBefore(E[j].key, l)
      BY <2>1 DEF Cut
    <3>3. CASE k \in A
      BY <2>1, <3>2, <3>3
    <3>4. CASE k = key
      <4>1. UserBefore(E[j].key, L) /\ L <= key
        BY <1>0, <3>1, <3>2
      <4> QED BY <1>0, <2>1, <3>1, <3>4, <4>1, UserBeforeThen
    <3> QED BY <3>3, <3>4
  <2>2. CASE L <= F[j].key /\ UserBefore(F[j].key, key)
    <3>1. k \notin A
      BY <1>0, <2>2 DEF Running
    <3> QED BY <2>2, <3>1
  <2> QED BY <2>1, <2>2
<1>9. Cut(F, B, D2, A2)
  BY <1>3, <1>4, <1>5, <1>6, <1>7, <1>8 DEF Cut
<1>10. Running(F, B, D2, A2, key)
  <2>1. \A k \in A2 : k <= key
    BY <1>0 DEF Running
  <2>2. D2 \subseteq A2
    BY DEF Running
  <2> QED BY <1>2, <2>1, <2>2 DEF Running
<1> QED BY <1>9, <1>10

(* The data block becomes the block of an entry with the last key.         *)
LEMMA CutFlush ==
  ASSUME NEW E \in Seq(Entry), NEW F \in Seq(Entry), NEW B, NEW C, NEW D,
         NEW A \in SUBSET KeyPlace, NEW L \in KeyPlace, NEW n \in Nat,
         DOMAIN E = 1 .. n, DOMAIN F = 1 .. n + 1, \A j \in 1 .. n : F[j] = E[j] /\ C[j] = B[j],
         F[n + 1].key = L, C[n + 1] = D, D # {}, Cut(E, B, D, A), Running(E, B, D, A, L)
  PROVE  Cut(F, C, {}, A) /\ Running(F, C, {}, A, L)
<1>0. /\ \A j \in 1 .. n : E[j].key \in KeyPlace
      /\ \A k \in KeyPlace : k \in Nat
  <2>1. \A j \in 1 .. n : E[j] \in Entry
    OBVIOUS
  <2> QED BY <2>1, KeysAre DEF Entry
<1>1. \A j \in 1 .. n + 1 : j \in 1 .. n \/ j = n + 1
  OBVIOUS
<1>2. L \in D /\ D \subseteq A /\ \A k \in A : k <= L
  BY DEF Running
<1>3. \A j \in DOMAIN F : C[j] # {} /\ C[j] \subseteq A
  BY <1>1, <1>2 DEF Cut
<1>4. \A j \in DOMAIN F : \A k \in C[j] : k <= F[j].key
  BY <1>1, <1>2 DEF Cut
<1>5. \A i, j \in DOMAIN F : i < j => \A k \in C[j] : F[i].key < k
  <2> SUFFICES ASSUME NEW i \in DOMAIN F, NEW j \in DOMAIN F, i < j, NEW k \in C[j]
               PROVE  F[i].key < k
    OBVIOUS
  <2>1. i \in 1 .. n
    OBVIOUS
  <2>2. CASE j \in 1 .. n
    BY <2>1, <2>2 DEF Cut
  <2>3. CASE j = n + 1
    BY <2>1, <2>3 DEF Cut
  <2> QED BY <1>1, <2>2, <2>3
<1>6. \A k \in A : \E j \in DOMAIN F : k \in C[j]
  <2> SUFFICES ASSUME NEW k \in A PROVE \E j \in DOMAIN F : k \in C[j]
    OBVIOUS
  <2>1. n + 1 \in DOMAIN F /\ \A j \in 1 .. n : j \in DOMAIN F
    OBVIOUS
  <2>2. k \in D \/ \E j \in 1 .. n : k \in B[j]
    BY DEF Cut
  <2> QED BY <2>1, <2>2
<1>7. \A j \in DOMAIN F : F[j].key \in C[j] \/ \A k \in A : F[j].key < k => UserBefore(F[j].key, k)
  <2>1. \A j \in 1 .. n : F[j].key \in C[j] \/ \A k \in A : F[j].key < k => UserBefore(F[j].key, k)
    BY DEF Cut
  <2> QED BY <1>1, <1>2, <2>1
<1>8. \A j \in DOMAIN F : F[j].key < L \/ F[j].key \in C[j]
  BY <1>1, <1>2 DEF Running
<1> QED BY <1>2, <1>3, <1>4, <1>5, <1>6, <1>7, <1>8 DEF Cut, Running

(* No key follows: the last entry may get any key from the last one on.    *)
LEMMA CutFinish ==
  ASSUME NEW E \in Seq(Entry), NEW F \in Seq(Entry), NEW B, NEW A \in SUBSET KeyPlace,
         NEW L \in Nat, DOMAIN F = DOMAIN E, Cut(E, B, {}, A), Running(E, B, {}, A, L),
         \A j \in DOMAIN E :
           F[j].key = E[j].key \/ (L <= F[j].key /\ \A i \in DOMAIN E : i <= j)
  PROVE  Cut(F, B, {}, A)
<1>0. /\ \A j \in DOMAIN E : j \in Nat /\ E[j].key \in KeyPlace /\ F[j].key \in KeyPlace
      /\ \A k \in KeyPlace : k \in Nat
  <2>1. \A j \in DOMAIN E : j \in Nat /\ E[j] \in Entry /\ F[j] \in Entry
    OBVIOUS
  <2> QED BY <2>1, KeysAre DEF Entry
<1>1. \A j \in DOMAIN E : E[j].key <= F[j].key
  BY <1>0 DEF Cut, Running
<1>2. \A j \in DOMAIN F : \A k \in B[j] : k <= F[j].key
  BY <1>0, <1>1 DEF Cut
<1>3. \A i, j \in DOMAIN F : i < j => \A k \in B[j] : F[i].key < k
  <2> SUFFICES ASSUME NEW i \in DOMAIN E, NEW j \in DOMAIN E, i < j, NEW k \in B[j]
               PROVE  F[i].key < k
    OBVIOUS
  <2>1. F[i].key = E[i].key
    BY <1>0
  <2> QED BY <2>1 DEF Cut
<1>4. \A j \in DOMAIN F : F[j].key \in B[j] \/ \A k \in A : F[j].key < k => UserBefore(F[j].key, k)
  <2> SUFFICES ASSUME NEW j \in DOMAIN E
               PROVE  F[j].key \in B[j] \/ \A k \in A : F[j].key < k => UserBefore(F[j].key, k)
    OBVIOUS
  <2>1. CASE F[j].key = E[j].key
    BY <2>1 DEF Cut
  <2>2. CASE L <= F[j].key
    BY <1>0, <2>2 DEF Running
  <2> QED BY <2>1, <2>2
<1> QED BY <1>2, <1>3, <1>4 DEF Cut

-----------------------------------------------------------------------------
(* The chunks of the file.                                                 *)

(* The entries have their blocks in f, and f no other data blocks.         *)
BlocksIn(E, f) ==
  /\ \A j \in DOMAIN E :
       /\ 2 * j - 1 \in DOMAIN f /\ 2 * j \in DOMAIN f
       /\ f[2 * j - 1].kind = "data" /\ f[2 * j].kind = "trailer"
       /\ f[2 * j - 1].at = E[j].handle.offset /\ f[2 * j - 1].size = E[j].handle.size
       /\ f[2 * j - 1].size > 0
  /\ \A i \in DOMAIN f : f[i].kind = "data" => \E j \in DOMAIN E : i = 2 * j - 1

InOrder(f, end) ==
  /\ \A i \in DOMAIN f : f[i].at \in Nat /\ f[i].size \in Nat /\ f[i].at + f[i].size <= end
  /\ \A i, j \in DOMAIN f : i < j => f[i].at + f[i].size <= f[j].at

LEMMA InOrderAppend ==
  ASSUME NEW f, NEW g, NEW n \in Nat, DOMAIN f = 1 .. n, DOMAIN g = 1 .. n + 1,
         \A i \in 1 .. n : g[i] = f[i], NEW end \in Nat, NEW size \in Nat, InOrder(f, end),
         g[n + 1].at = end, g[n + 1].size = size
  PROVE  InOrder(g, end + size)
<1>1. \A i \in 1 .. n + 1 : i \in 1 .. n \/ i = n + 1
  OBVIOUS
<1>2. \A i \in 1 .. n : f[i].at \in Nat /\ f[i].size \in Nat /\ f[i].at + f[i].size <= end
  BY DEF InOrder
<1>3. \A i \in DOMAIN g : g[i].at \in Nat /\ g[i].size \in Nat /\ g[i].at + g[i].size <= end + size
  <2>1. \A i \in 1 .. n : g[i].at \in Nat /\ g[i].size \in Nat /\ g[i].at + g[i].size <= end + size
    <3> SUFFICES ASSUME NEW i \in 1 .. n
                 PROVE  g[i].at \in Nat /\ g[i].size \in Nat /\ g[i].at + g[i].size <= end + size
      OBVIOUS
    <3>1. PICK a \in Nat, s \in Nat : a = g[i].at /\ s = g[i].size
      BY <1>2
    <3>2. a + s <= end
      BY <1>2, <3>1
    <3> QED BY <3>1, <3>2
  <2> QED BY <1>1, <2>1
<1>4. \A i, j \in DOMAIN g : i < j => g[i].at + g[i].size <= g[j].at
  <2> SUFFICES ASSUME NEW i \in DOMAIN g, NEW j \in DOMAIN g, i < j
               PROVE  g[i].at + g[i].size <= g[j].at
    OBVIOUS
  <2>1. i \in 1 .. n
    OBVIOUS
  <2>2. CASE j \in 1 .. n
    BY <2>1, <2>2 DEF InOrder
  <2>3. CASE j = n + 1
    BY <1>2, <2>1, <2>3
  <2> QED BY <1>1, <2>2, <2>3
<1> QED BY <1>3, <1>4 DEF InOrder

-----------------------------------------------------------------------------
(* The filters.                                                            *)

(* Every key of a block matches the filter of the block's offset, or that  *)
(* filter is yet to be made and has the key among its keys.                *)
FiltersFor(E, B, D, fs, ks) ==
  /\ \A k \in D : IKey[k] \in ks
  /\ \A j \in DOMAIN E : \A k \in B[j] :
       LET f == E[j].handle.offset \div kFilterBase
       IN  /\ E[j].handle.offset \in Nat
           /\ \/ f < Len(fs) /\ InternalMayMatch(IKey[k], fs[f + 1])
              \/ f = Len(fs) /\ IKey[k] \in ks

LEMMA FilterMatches ==
  ASSUME NEW keys, IsFiniteSet(keys), NEW key \in keys
  PROVE  InternalMayMatch(key, CreateInternalFilter(keys))
<1>1. PICK n \in Nat : n = Cardinality(keys)
  BY FS_CardinalityType
<1>2. PICK m \in Nat : m = n * bits_per_key_
  BY BloomAssumption
<1>3. PICK p \in Nat : p = Max({m, MinBits}) /\ p >= MinBits
  <2>1. MinBits \in Nat
    BY BloomAssumption
  <2>2. \E y \in {m, MinBits} : \A z \in {m, MinBits} : y >= z
    BY <2>1
  <2>3. Max({m, MinBits}) \in {m, MinBits} /\ \A z \in {m, MinBits} : Max({m, MinBits}) >= z
    BY <2>2 DEF Max
  <2> QED BY <2>1, <2>3
<1>4. MinBits \in Nat /\ MinBits > 0
  BY BloomAssumption
<1>5. PICK bytes \in Nat : bytes = (p + 7) \div 8 /\ bytes >= 1
  BY <1>3, <1>4
<1>6. PICK us : us = {ExtractUserKey(k) : k \in keys}
  OBVIOUS
<1>7. PICK f : f = [len |-> bytes + 1, k |-> k_, ones |-> UNION {Probes(u, k_, bytes * 8) : u \in us}]
  OBVIOUS
<1>8. CreateInternalFilter(keys) = f
  BY <1>1, <1>2, <1>3, <1>5, <1>6, <1>7 DEF CreateInternalFilter, CreateFilter
<1>9. f.len = bytes + 1 /\ f.k = k_ /\ f.ones = UNION {Probes(u, k_, bytes * 8) : u \in us}
  BY <1>7
<1>10. f.len >= 2 /\ (f.len - 1) * 8 = bytes * 8
  BY <1>5, <1>9
<1>11. ExtractUserKey(key) \in us
  BY <1>6
<1>12. PICK bits : bits = bytes * 8
  OBVIOUS
<1>13. Probes(ExtractUserKey(key), f.k, (f.len - 1) * 8) \subseteq f.ones
  BY <1>9, <1>10, <1>11, <1>12, Zenon
<1> QED BY <1>8, <1>10, <1>13 DEF InternalMayMatch, BloomMayMatch

LEMMA GenerateFilterIs ==
  ASSUME NEW f, IsSeq(f.filters), IsFiniteSet(f.keys)
  PROVE  LET g == GenerateFilter(f).filters
         IN  /\ IsSeq(g) /\ Len(f.filters) \in Nat /\ Len(g) = Len(f.filters) + 1
             /\ \A i \in 1 .. Len(f.filters) : g[i] = f.filters[i]
             /\ \A key \in f.keys : InternalMayMatch(key, g[Len(f.filters) + 1])
<1>1. PICK c : c = IF f.keys = {} THEN EmptyFilter ELSE CreateInternalFilter(f.keys)
  OBVIOUS
<1>2. PICK fs : fs = f.filters
  OBVIOUS
<1>3. GenerateFilter(f).filters = Append(fs, c)
  BY <1>1, <1>2 DEF GenerateFilter
<1>4. \A key \in f.keys : InternalMayMatch(key, c)
  BY <1>1, FilterMatches
<1> QED BY <1>2, <1>3, <1>4, AppendIs

LEMMA PaddingIs ==
  ASSUME NEW s, IsSeq(s), NEW n \in Nat, NEW e, NEW p \in [1 .. n -> {e}]
  PROVE  /\ IsSeq(s \o p) /\ Len(s) \in Nat /\ Len(s \o p) = Len(s) + n
         /\ \A i \in 1 .. Len(s) : (s \o p)[i] = s[i]
<1>1. PICK S : s \in Seq(S)
  BY DEF IsSeq
<1>2. PICK T : T = S \cup {e}
  OBVIOUS
<1>3. s \in Seq(T) /\ e \in T
  BY <1>1, <1>2
<1> HIDE <1>1, <1>2
<1>4. p \in Seq(T) /\ Len(p) = n
  BY <1>3
<1>5. /\ s \o p \in Seq(T) /\ Len(s) \in Nat /\ Len(s \o p) = Len(s) + n
      /\ \A i \in 1 .. Len(s) : (s \o p)[i] = s[i]
  BY <1>3, <1>4
<1> QED BY <1>5 DEF IsSeq

LEMMA StartBlockIs ==
  ASSUME NEW f, f = [filters |-> f.filters, keys |-> f.keys], IsSeq(f.filters), IsFiniteSet(f.keys),
         NEW offset \in Nat
  PROVE  LET g == StartBlock(f, offset)
         IN  /\ g = [filters |-> g.filters, keys |-> g.keys]
             /\ IsSeq(g.filters) /\ IsFiniteSet(g.keys) /\ Len(f.filters) \in Nat
             /\ Len(f.filters) <= offset \div kFilterBase => Len(g.filters) = offset \div kFilterBase
             /\ Len(f.filters) <= Len(g.filters)
             /\ \A i \in 1 .. Len(f.filters) : g.filters[i] = f.filters[i]
             /\ \/ Len(g.filters) = Len(f.filters) /\ g.keys = f.keys
                \/ /\ Len(g.filters) > Len(f.filters)
                   /\ \A key \in f.keys : InternalMayMatch(key, g.filters[Len(f.filters) + 1])
<1> DEFINE g == StartBlock(f, offset)
<1>1. PICK n \in Nat : n = Len(f.filters)
  BY AppendIs
<1>2. PICK d \in Nat : d = offset \div kFilterBase
  BY FilterBaseAssumption
<1>3. CASE d - n <= 0
  <2>1. g = f
    BY <1>1, <1>2, <1>3 DEF StartBlock
  <2> QED BY <1>1, <1>2, <1>3, <2>1
<1>4. CASE d - n > 0
  <2>1. PICK h : h = GenerateFilter(f).filters
    OBVIOUS
  <2>m. PICK m \in Nat : m = (d - n) - 1
    BY <1>4
  <2>p. PICK p : p = [i \in 1 .. m |-> EmptyFilter]
    OBVIOUS
  <2>2. PICK t : t = h \o p
    OBVIOUS
  <2>3. g = [filters |-> t, keys |-> {}]
    BY <1>1, <1>2, <1>4, <2>1, <2>m, <2>p, <2>2 DEF StartBlock
  <2>4. /\ IsSeq(h) /\ Len(h) = n + 1 /\ \A i \in 1 .. n : h[i] = f.filters[i]
        /\ \A key \in f.keys : InternalMayMatch(key, h[n + 1])
    BY <1>1, <2>1, GenerateFilterIs
  <2>5. IsSeq(t) /\ Len(t) = n + 1 + m /\ \A i \in 1 .. n + 1 : t[i] = h[i]
    <3>1. /\ IsSeq(h \o p) /\ Len(h \o p) = Len(h) + m
          /\ \A i \in 1 .. Len(h) : (h \o p)[i] = h[i]
      <4>1. p \in [1 .. m -> {EmptyFilter}]
        BY <2>p
      <4> HIDE <2>p
      <4> QED BY <2>4, <4>1, PaddingIs
    <3>2. IsSeq(t) /\ Len(t) = Len(h) + m /\ \A i \in 1 .. Len(h) : t[i] = h[i]
      BY <2>2, <3>1
    <3> QED BY <2>4, <3>2
  <2>6. Len(t) = d /\ (\A i \in 1 .. n : t[i] = f.filters[i])
        /\ \A key \in f.keys : InternalMayMatch(key, t[n + 1])
    <3>1. Len(t) = d
      BY <2>m, <2>5
    <3> QED BY <2>4, <2>5, <3>1
  <2>7. g.filters = t /\ g.keys = {}
    BY <2>3
  <2>8. IsFiniteSet({})
    BY FS_EmptySet
  <2> HIDE DEF g
  <2> QED BY <1>1, <1>2, <1>4, <2>3, <2>5, <2>6, <2>7, <2>8 DEF g
<1> QED BY <1>3, <1>4

LEMMA FiltersAdd ==
  ASSUME NEW E, NEW F, NEW B, NEW D, NEW fs, NEW ks, NEW key, DOMAIN F = DOMAIN E,
         \A j \in DOMAIN E : F[j].handle = E[j].handle, FiltersFor(E, B, D, fs, ks)
  PROVE  FiltersFor(F, B, D \cup {key}, fs, ks \cup {IKey[key]})
BY DEF FiltersFor

LEMMA OffsetIndex ==
  ASSUME NEW a \in Nat, NEW b \in Nat, a <= b
  PROVE  /\ a \div kFilterBase \in Nat /\ b \div kFilterBase \in Nat
         /\ a \div kFilterBase <= b \div kFilterBase
<1>1. PICK d \in Nat \ {0} : d = kFilterBase
  BY FilterBaseAssumption
<1>2. PICK p \in Int, q \in Int : p = a \div d /\ q = b \div d
  OBVIOUS
<1>3. d * p <= a /\ a < d * p + d /\ d * q <= b /\ b < d * q + d
  <2>1. PICK r \in 0 .. d - 1 : a = d * p + r
    BY <1>2
  <2>2. PICK t \in 0 .. d - 1 : b = d * q + t
    BY <1>2
  <2> QED BY <2>1, <2>2
<1>4. p >= 0 /\ q >= 0
  BY <1>2
<1>5. p <= q
  <2> SUFFICES ASSUME q < p PROVE FALSE
    OBVIOUS
  <2>1. q + 1 <= p
    OBVIOUS
  <2>2. d * (q + 1) <= d * p
    BY <2>1
  <2>3. d * (q + 1) = d * q + d
    OBVIOUS
  <2> QED BY <1>3, <2>2, <2>3
<1> QED BY <1>1, <1>2, <1>4, <1>5

(* The entries F and blocks C are E and B with one more, of contents D.    *)
OneMore(E, B, F, C, D, n) ==
  /\ DOMAIN E = 1 .. n /\ DOMAIN F = 1 .. n + 1
  /\ \A j \in 1 .. n : F[j] = E[j] /\ C[j] = B[j]
  /\ C[n + 1] = D

(* The filters gs are fs, or have one for the keys ks behind those of fs.  *)
MoreFilters(fs, ks, gs, gk) ==
  /\ Len(fs) \in Nat /\ Len(gs) \in Nat /\ \A i \in 1 .. Len(fs) : gs[i] = fs[i]
  /\ \/ Len(gs) = Len(fs) /\ gk = ks
     \/ Len(gs) > Len(fs) /\ \A key \in ks : InternalMayMatch(key, gs[Len(fs) + 1])

LEMMA FiltersFlush ==
  ASSUME NEW E, NEW F, NEW B, NEW C, NEW D, NEW n \in Nat, NEW fs, NEW ks, NEW gs, NEW gk,
         OneMore(E, B, F, C, D, n), MoreFilters(fs, ks, gs, gk),
         F[n + 1].handle.offset \in Nat,
         F[n + 1].handle.offset \div kFilterBase = Len(fs), FiltersFor(E, B, D, fs, ks)
  PROVE  FiltersFor(F, C, {}, gs, gk)
<1>0. /\ DOMAIN E = 1 .. n /\ DOMAIN F = 1 .. n + 1
      /\ \A j \in 1 .. n : F[j] = E[j] /\ C[j] = B[j]
      /\ C[n + 1] = D
  BY DEF OneMore
<1>a. /\ Len(fs) \in Nat /\ Len(gs) \in Nat /\ \A i \in 1 .. Len(fs) : gs[i] = fs[i]
      /\ \/ Len(gs) = Len(fs) /\ gk = ks
         \/ Len(gs) > Len(fs) /\ \A key \in ks : InternalMayMatch(key, gs[Len(fs) + 1])
  BY DEF MoreFilters
<1> USE <1>0, <1>a
<1> SUFFICES ASSUME NEW j \in 1 .. n + 1, NEW k \in C[j], NEW f, f = F[j].handle.offset \div kFilterBase
             PROVE  /\ F[j].handle.offset \in Nat
                    /\ \/ f < Len(gs) /\ InternalMayMatch(IKey[k], gs[f + 1])
                       \/ f = Len(gs) /\ IKey[k] \in gk
  BY DEF FiltersFor
<1>1. F[j].handle.offset \in Nat /\ \/ f < Len(fs) /\ InternalMayMatch(IKey[k], fs[f + 1])
                                    \/ f = Len(fs) /\ IKey[k] \in ks
  <2>1. CASE j \in 1 .. n
    BY <2>1 DEF FiltersFor
  <2>2. CASE j = n + 1
    BY <2>2 DEF FiltersFor
  <2> QED BY <2>1, <2>2
<1>2. f \in Nat
  BY <1>1, OffsetIndex
<1>3. CASE f < Len(fs) /\ InternalMayMatch(IKey[k], fs[f + 1])
  <2>1. f + 1 \in 1 .. Len(fs) /\ f < Len(gs)
    BY <1>2, <1>3
  <2>2. gs[f + 1] = fs[f + 1]
    BY <2>1
  <2> QED BY <1>1, <1>3, <2>1, <2>2
<1>4. CASE f = Len(fs) /\ IKey[k] \in ks
  BY <1>1, <1>4
<1> QED BY <1>1, <1>3, <1>4

(* No key of a block is missed by the filters of the finished block.       *)
LEMMA FiltersFinish ==
  ASSUME NEW E, NEW B, NEW f, IsSeq(f.filters), IsFiniteSet(f.keys),
         FiltersFor(E, B, {}, f.filters, f.keys), NEW j \in DOMAIN E, NEW k \in B[j]
  PROVE  KeyMayMatch(FinishFilter(f), E[j].handle.offset, IKey[k])
<1>1. PICK n \in Nat : n = Len(f.filters)
  BY AppendIs
<1>2. PICK d : d = E[j].handle.offset \div kFilterBase
  OBVIOUS
<1>3. /\ E[j].handle.offset \in Nat
      /\ \/ d < n /\ InternalMayMatch(IKey[k], f.filters[d + 1])
         \/ d = n /\ IKey[k] \in f.keys
  BY <1>1, <1>2 DEF FiltersFor
<1>4. d \in Nat
  BY <1>2, <1>3, OffsetIndex
<1>5. PICK g : g = FinishFilter(f)
  OBVIOUS
<1>6. d < Len(g) => InternalMayMatch(IKey[k], g[d + 1])
  <2>1. CASE f.keys = {}
    BY <1>1, <1>3, <1>5, <2>1 DEF FinishFilter
  <2>2. CASE f.keys # {}
    <3>1. g = GenerateFilter(f).filters
      BY <1>5, <2>2 DEF FinishFilter
    <3>2. /\ \A i \in 1 .. n : g[i] = f.filters[i]
          /\ \A key \in f.keys : InternalMayMatch(key, g[n + 1])
      BY <1>1, <3>1, GenerateFilterIs
    <3>3. CASE d < n /\ InternalMayMatch(IKey[k], f.filters[d + 1])
      <4>1. d + 1 \in 1 .. n
        BY <1>4, <3>3
      <4> QED BY <3>2, <3>3, <4>1
    <3>4. CASE d = n /\ IKey[k] \in f.keys
      BY <3>2, <3>4
    <3> QED BY <1>3, <3>3, <3>4
  <2> QED BY <2>1, <2>2
<1> QED BY <1>2, <1>5, <1>6 DEF KeyMayMatch

-----------------------------------------------------------------------------
(* The inductive invariant.                                                *)

(* The entries of the index block, with the one held back.                 *)
Entries(r) ==
  IF r.pending_index_entry
    THEN Append(r.index_block, [key |-> r.last_key, handle |-> r.pending_handle])
    ELSE r.index_block

BlocksOf(r) == [j \in DOMAIN Entries(r) |-> r.file[2 * j - 1].contents]

(* What holds of a Rep as long as no call of the file has failed, ...      *)
Good(r) ==
  /\ r.offset = r.end
  /\ r.pending_index_entry => r.data_block = {}
  /\ r.data_block # {} => r.data_size > 0
  /\ Cut(Entries(r), BlocksOf(r), r.data_block, r.added)
  /\ BlocksIn(Entries(r), r.file) /\ InOrder(r.file, r.end)

(* ... until the last index entry is written, ...                          *)
Growing(r) ==
  /\ Running(Entries(r), BlocksOf(r), r.data_block, r.added, r.last_key)
  /\ r.filter_policy =>
       FiltersFor(Entries(r), BlocksOf(r), r.data_block, r.filter_block.filters, r.filter_block.keys)

(* ... and while there are but data blocks in the file.                    *)
Growable(r) ==
  /\ Len(r.file) = 2 * Len(Entries(r))
  /\ r.filter_policy => Len(r.filter_block.filters) = r.offset \div kFilterBase

NoFooter(r) == Len(r.file) = 0 \/ r.file[Len(r.file)].kind # "footer"

LEMMA EntriesAre ==
  ASSUME NEW r, RepType(r), r.pending_index_entry => r.last_key \in KeyPlace
  PROVE  /\ Entries(r) \in Seq(Entry) /\ Len(Entries(r)) \in Nat
         /\ DOMAIN Entries(r) = 1 .. Len(Entries(r))
         /\ Len(r.index_block) \in Nat
         /\ \A j \in 1 .. Len(r.index_block) : Entries(r)[j] = r.index_block[j]
         /\ ~r.pending_index_entry => Len(Entries(r)) = Len(r.index_block)
         /\ r.pending_index_entry =>
              /\ Len(Entries(r)) = Len(r.index_block) + 1
              /\ Entries(r)[Len(r.index_block) + 1] = [key |-> r.last_key, handle |-> r.pending_handle]
<1>1. r.index_block \in Seq(Entry) /\ r.pending_index_entry \in BOOLEAN
  BY DEF RepType
<1>2. CASE r.pending_index_entry
  <2>1. PICK e : e = [key |-> r.last_key, handle |-> r.pending_handle]
    OBVIOUS
  <2>2. e \in Entry
    BY <1>2, <2>1 DEF RepType, Entry
  <2>3. Entries(r) = Append(r.index_block, e)
    BY <1>2, <2>1 DEF Entries
  <2> HIDE <2>1
  <2>4. /\ Append(r.index_block, e) \in Seq(Entry) /\ Len(r.index_block) \in Nat
        /\ Len(Append(r.index_block, e)) = Len(r.index_block) + 1
        /\ \A j \in 1 .. Len(r.index_block) : Append(r.index_block, e)[j] = r.index_block[j]
        /\ Append(r.index_block, e)[Len(r.index_block) + 1] = e
    BY <1>1, <2>2
  <2>5. DOMAIN Entries(r) = 1 .. Len(Entries(r)) /\ Len(Entries(r)) \in Nat
    BY <2>3, <2>4
  <2> QED BY <1>2, <2>1, <2>3, <2>4, <2>5
<1>3. CASE ~r.pending_index_entry
  <2>1. Entries(r) = r.index_block
    BY <1>3 DEF Entries
  <2> QED BY <1>1, <1>3, <2>1
<1> QED BY <1>1, <1>2, <1>3

LEMMA LastIsKey ==
  ASSUME NEW r, RepType(r), Good(r), Growing(r), r.pending_index_entry \/ r.data_block # {}
  PROVE  r.last_key \in KeyPlace
<1>1. r.added \subseteq KeyPlace /\ r.data_block \subseteq r.added
  BY KeysAre DEF RepType
<1>2. r.added # {}
  <2>1. CASE r.data_block # {}
    BY <1>1, <2>1
  <2>2. CASE r.pending_index_entry
    <3>1. r.index_block \in Seq(Entry)
      BY DEF RepType
    <3>2. PICK s : s = r.index_block /\ Len(s) \in Nat
      BY <3>1
    <3>3. PICK e : e = [key |-> r.last_key, handle |-> r.pending_handle]
      OBVIOUS
    <3>4. Entries(r) = Append(s, e)
      BY <2>2, <3>2, <3>3 DEF Entries
    <3>5. IsSeq(s)
      BY <3>1, <3>2 DEF IsSeq
    <3>6. Len(s) + 1 \in DOMAIN Entries(r)
      BY <3>2, <3>4, <3>5, AppendIs
    <3> QED BY <3>6 DEF Good, Cut
  <2> QED BY <2>1, <2>2
<1> QED BY <1>1, <1>2 DEF Growing, Running

(* The entry held back gets its separator; no other changes.               *)
LEMMA AddIndexEntryIs ==
  ASSUME NEW r, RepType(r), r.pending_index_entry => r.last_key \in KeyPlace,
         NEW sep, r.pending_index_entry => sep \in KeyPlace
  PROVE  LET i == AddIndexEntry(r, sep)
             n == Len(Entries(r))
         IN  /\ RepType(i) /\ ~i.pending_index_entry
             /\ i.filter_policy = r.filter_policy /\ i.block_size = r.block_size
             /\ i.other_policy = r.other_policy
             /\ i.offset = r.offset /\ i.status = r.status /\ i.closed = r.closed
             /\ i.data_block = r.data_block /\ i.data_size = r.data_size
             /\ i.last_key = r.last_key /\ i.filter_block = r.filter_block
             /\ i.file = r.file /\ i.end = r.end /\ i.calls = r.calls /\ i.added = r.added
             /\ Entries(i) = i.index_block /\ Entries(i) \in Seq(Entry) /\ Len(Entries(i)) = n
             /\ \A j \in 1 .. n : Entries(i)[j].handle = Entries(r)[j].handle
             /\ \A j \in 1 .. n :
                  \/ Entries(i)[j].key = Entries(r)[j].key
                  \/ /\ r.pending_index_entry /\ j = n
                     /\ Entries(r)[j].key = r.last_key /\ Entries(i)[j].key = sep
<1> DEFINE i == AddIndexEntry(r, sep)
           n == Len(Entries(r))
<1>1. /\ Entries(r) \in Seq(Entry) /\ n \in Nat
      /\ Len(r.index_block) \in Nat
      /\ \A j \in 1 .. Len(r.index_block) : Entries(r)[j] = r.index_block[j]
      /\ ~r.pending_index_entry => n = Len(r.index_block)
      /\ r.pending_index_entry =>
           /\ n = Len(r.index_block) + 1
           /\ Entries(r)[Len(r.index_block) + 1] = [key |-> r.last_key, handle |-> r.pending_handle]
  BY EntriesAre
<1>2. r.index_block \in Seq(Entry) /\ r.pending_index_entry \in BOOLEAN
  BY DEF RepType
<1>3. CASE ~r.pending_index_entry
  <2>1. i = r
    BY <1>3 DEF AddIndexEntry
  <2>2. Entries(r) = r.index_block
    BY <1>3 DEF Entries
  <2> QED BY <1>1, <1>3, <2>1, <2>2
<1>4. CASE r.pending_index_entry
  <2>1. PICK e : e = [key |-> sep, handle |-> r.pending_handle]
    OBVIOUS
  <2>2. e \in Entry /\ e.key = sep /\ e.handle = r.pending_handle
    BY <1>4, <2>1 DEF RepType, Entry
  <2>3. PICK s : s = Append(r.index_block, e)
    OBVIOUS
  <2>4. i = [r EXCEPT !.index_block = s, !.pending_index_entry = FALSE]
    BY <1>4, <2>1, <2>3 DEF AddIndexEntry
  <2> HIDE <2>1
  <2>5. /\ s \in Seq(Entry) /\ Len(s) = Len(r.index_block) + 1
        /\ \A j \in 1 .. Len(r.index_block) : s[j] = r.index_block[j]
        /\ s[Len(r.index_block) + 1] = e
    BY <1>2, <2>2, <2>3
  <2>6. /\ IsRep(i)
        /\ i.filter_policy = r.filter_policy /\ i.block_size = r.block_size
        /\ i.other_policy = r.other_policy
        /\ i.offset = r.offset /\ i.status = r.status /\ i.closed = r.closed
        /\ i.data_block = r.data_block /\ i.data_size = r.data_size
        /\ i.last_key = r.last_key /\ i.filter_block = r.filter_block
        /\ i.file = r.file /\ i.end = r.end /\ i.calls = r.calls /\ i.added = r.added
        /\ i.index_block = s /\ i.pending_handle = r.pending_handle
    BY <2>4 DEF RepType, IsRep
  <2>7. i.pending_index_entry = FALSE
    BY <2>4 DEF RepType, IsRep
  <2> HIDE DEF i
  <2>8. RepType(i)
    BY <2>5, <2>6, <2>7 DEF RepType
  <2>9. Entries(i) = s
    BY <2>6, <2>7 DEF Entries
  <2>10. /\ \A j \in 1 .. n : s[j].handle = Entries(r)[j].handle
         /\ \A j \in 1 .. n :
              \/ s[j].key = Entries(r)[j].key
              \/ j = n /\ Entries(r)[j].key = r.last_key /\ s[j].key = sep
    <3> SUFFICES ASSUME NEW j \in 1 .. n
                 PROVE  /\ s[j].handle = Entries(r)[j].handle
                        /\ \/ s[j].key = Entries(r)[j].key
                           \/ j = n /\ Entries(r)[j].key = r.last_key /\ s[j].key = sep
      OBVIOUS
    <3>1. CASE j \in 1 .. Len(r.index_block)
      BY <1>1, <2>5, <3>1
    <3>2. CASE j = Len(r.index_block) + 1
      BY <1>1, <1>4, <2>2, <2>5, <3>2
    <3> QED BY <1>1, <1>4, <3>1, <3>2
  <2>11. Len(s) = n
    BY <1>1, <1>4, <2>5
  <2> QED BY <1>4, <2>5, <2>6, <2>7, <2>8, <2>9, <2>10, <2>11 DEF i
<1> QED BY <1>2, <1>3, <1>4

LEMMA AddEntryInv ==
  ASSUME NEW r, RepType(r), Good(r), Growing(r), Growable(r),
         NEW key \in DataKey, r.last_key < key, NEW size \in EntrySize
  PROVE  LET a == AddEntry(r, key, size)
         IN  /\ RepType(a) /\ Good(a) /\ Growing(a) /\ Growable(a)
             /\ a.status = r.status /\ a.closed = r.closed
<1> DEFINE a == AddEntry(r, key, size)
           sep == Separator(r, key)
<1>0. size \in Nat /\ size > 0 /\ key \in KeyPlace /\ key \in Nat /\ r.last_key \in Nat
  BY SizeAssumption, KeysAre DEF RepType
<1>1. r.pending_index_entry => r.last_key \in KeyPlace
  BY LastIsKey
<1>2. r.pending_index_entry =>
        /\ sep \in KeyPlace /\ r.last_key <= sep /\ sep < key
        /\ sep = r.last_key \/ UserBefore(sep, key)
  BY <1>0, <1>1, SeparatorIs DEF UserBefore
<1>3. PICK i : i = AddIndexEntry(r, sep)
  OBVIOUS
<1>4. PICK E : E = Entries(r)
  OBVIOUS
<1>5. PICK F : F = Entries(i)
  OBVIOUS
<1>6. E \in Seq(Entry) /\ Len(E) \in Nat /\ DOMAIN E = 1 .. Len(E)
  BY <1>1, <1>4, EntriesAre
<1> HIDE DEF sep
<1>7. /\ RepType(i) /\ ~i.pending_index_entry
      /\ i.filter_policy = r.filter_policy /\ i.block_size = r.block_size
      /\ i.other_policy = r.other_policy
      /\ i.offset = r.offset /\ i.status = r.status /\ i.closed = r.closed
      /\ i.data_block = r.data_block /\ i.data_size = r.data_size
      /\ i.last_key = r.last_key /\ i.filter_block = r.filter_block
      /\ i.file = r.file /\ i.end = r.end /\ i.calls = r.calls /\ i.added = r.added
      /\ F = i.index_block /\ F \in Seq(Entry) /\ Len(F) = Len(E)
      /\ \A j \in 1 .. Len(E) : F[j].handle = E[j].handle
      /\ \A j \in 1 .. Len(E) :
           \/ F[j].key = E[j].key
           \/ /\ r.pending_index_entry /\ j = Len(E)
              /\ E[j].key = r.last_key /\ F[j].key = sep
  BY <1>1, <1>2, <1>3, <1>4, <1>5, AddIndexEntryIs
<1>8. PICK f : f = IF r.filter_policy THEN AddKey(r.filter_block, IKey[key]) ELSE r.filter_block
  OBVIOUS
<1>9. a = [i EXCEPT !.filter_block = f, !.last_key = key, !.data_block = r.data_block \cup {key},
                    !.data_size = r.data_size + size, !.added = r.added \cup {key}]
  BY <1>3, <1>7, <1>8 DEF AddEntry, sep
<1>10. /\ IsRep(a)
       /\ a.filter_policy = r.filter_policy /\ a.block_size = r.block_size
       /\ a.other_policy = r.other_policy
       /\ a.offset = r.offset /\ a.status = r.status /\ a.closed = r.closed
       /\ a.data_block = r.data_block \cup {key} /\ a.data_size = r.data_size + size
       /\ a.last_key = key /\ a.filter_block = f
       /\ a.file = r.file /\ a.end = r.end /\ a.calls = r.calls /\ a.added = r.added \cup {key}
       /\ a.index_block = F /\ a.pending_handle = i.pending_handle
  <2>1. IsRep(i)
    BY <1>7 DEF RepType
  <2>2. IsRep(a)
    BY <1>9, <2>1 DEF IsRep
  <2>3. /\ a.filter_policy = i.filter_policy /\ a.block_size = i.block_size
        /\ a.other_policy = i.other_policy
        /\ a.offset = i.offset /\ a.status = i.status /\ a.closed = i.closed
        /\ a.file = i.file /\ a.end = i.end /\ a.calls = i.calls
        /\ a.index_block = i.index_block /\ a.pending_handle = i.pending_handle
    BY <1>9, <2>1 DEF IsRep
  <2>4. /\ a.data_block = r.data_block \cup {key} /\ a.data_size = r.data_size + size
        /\ a.last_key = key /\ a.filter_block = f /\ a.added = r.added \cup {key}
    BY <1>9, <2>1 DEF IsRep
  <2> HIDE DEF a
  <2> QED BY <1>7, <2>2, <2>3, <2>4
<1>11. ~a.pending_index_entry /\ a.pending_index_entry \in BOOLEAN
  <2>1. IsRep(i)
    BY <1>7 DEF RepType
  <2>2. a.pending_index_entry = i.pending_index_entry
    BY <1>9, <2>1 DEF IsRep
  <2>3. i.pending_index_entry \in BOOLEAN
    BY <1>7 DEF RepType
  <2> QED BY <1>7, <2>2, <2>3
<1> HIDE DEF a
<1>12. a.data_size \in Nat /\ a.data_size > 0
  <2>1. r.data_size \in Nat
    BY DEF RepType
  <2> QED BY <1>0, <1>10, <2>1
<1>13. /\ f = [filters |-> f.filters, keys |-> f.keys] /\ f.filters = r.filter_block.filters
       /\ IsFiniteSet(f.keys)
       /\ r.filter_policy => f.keys = r.filter_block.keys \cup {IKey[key]}
  <2>1. PICK g : g = r.filter_block
    OBVIOUS
  <2>2. g = [filters |-> g.filters, keys |-> g.keys] /\ IsFiniteSet(g.keys)
    BY <2>1 DEF RepType
  <2>3. CASE r.filter_policy
    <3>1. f = [g EXCEPT !.keys = g.keys \cup {IKey[key]}]
      BY <1>8, <2>1, <2>3 DEF AddKey
    <3>2. IsFiniteSet(g.keys \cup {IKey[key]})
      BY <2>2, FS_AddElement
    <3>3. /\ f = [filters |-> f.filters, keys |-> f.keys] /\ f.filters = g.filters
          /\ f.keys = g.keys \cup {IKey[key]}
      BY <2>2, <3>1
    <3> QED BY <2>1, <2>3, <3>2, <3>3
  <2>4. CASE ~r.filter_policy
    BY <1>8, <2>1, <2>2, <2>4
  <2> QED BY <2>3, <2>4
<1>14. RepType(a)
  <2>1. a.data_block \subseteq a.added /\ a.added \subseteq DataKey
    BY <1>10 DEF RepType
  <2>2. a.index_block \in Seq(Entry) /\ a.pending_handle \in [offset : Int, size : Int]
    BY <1>7, <1>10 DEF RepType
  <2>3. /\ a.filter_policy \in BOOLEAN /\ a.status \in BOOLEAN /\ a.closed \in BOOLEAN
        /\ a.other_policy \in BOOLEAN /\ a.block_size \in Nat /\ a.offset \in Nat /\ a.end \in Nat /\ a.calls \in Nat
        /\ IsSeq(a.file)
    BY <1>10 DEF RepType
  <2>4. a.filter_block = [filters |-> a.filter_block.filters, keys |-> a.filter_block.keys]
        /\ IsSeq(a.filter_block.filters) /\ IsFiniteSet(a.filter_block.keys)
    BY <1>10, <1>13 DEF RepType
  <2> QED BY <1>0, <1>10, <1>11, <1>12, <2>1, <2>2, <2>3, <2>4 DEF RepType
<1>15. Entries(a) = F /\ DOMAIN F = DOMAIN E
  <2>1. DOMAIN F = 1 .. Len(F)
    BY <1>7
  <2> QED BY <1>6, <1>7, <1>10, <1>11, <2>1 DEF Entries
<1>16. BlocksOf(a) = BlocksOf(r)
  BY <1>4, <1>10, <1>15 DEF BlocksOf
<1>17. PICK B : B = BlocksOf(r)
  OBVIOUS
<1>18. Cut(E, B, r.data_block, r.added) /\ Running(E, B, r.data_block, r.added, r.last_key)
  BY <1>4, <1>17 DEF Good, Growing
<1>19. r.added \in SUBSET KeyPlace
  BY KeysAre DEF RepType
<1>20. \A j \in DOMAIN E :
         \/ F[j].key = E[j].key
         \/ /\ r.data_block = {} /\ \A l \in DOMAIN E : l <= j
            /\ r.last_key <= F[j].key /\ F[j].key < key /\ UserBefore(F[j].key, key)
  <2> SUFFICES ASSUME NEW j \in DOMAIN E, F[j].key # E[j].key
               PROVE  /\ r.data_block = {} /\ \A l \in DOMAIN E : l <= j
                      /\ r.last_key <= F[j].key /\ F[j].key < key /\ UserBefore(F[j].key, key)
    OBVIOUS
  <2>1. /\ r.pending_index_entry /\ j = Len(E)
        /\ E[j].key = r.last_key /\ F[j].key = sep
    BY <1>6, <1>7
  <2>2. sep # r.last_key
    BY <2>1
  <2>3. r.data_block = {}
    BY <2>1 DEF Good
  <2> QED BY <1>2, <1>6, <2>1, <2>2, <2>3
<1>21. /\ Cut(F, B, r.data_block \cup {key}, r.added \cup {key})
       /\ Running(F, B, r.data_block \cup {key}, r.added \cup {key}, key)
  BY <1>0, <1>6, <1>7, <1>15, <1>18, <1>19, <1>20, CutAdd
<1>22. BlocksIn(F, r.file)
  <2>1. BlocksIn(E, r.file)
    BY <1>4 DEF Good
  <2>2. \A j \in DOMAIN E : F[j].handle = E[j].handle
    BY <1>6, <1>7
  <2> QED BY <1>15, <2>1, <2>2 DEF BlocksIn
<1>23. Good(a)
  BY <1>10, <1>11, <1>12, <1>15, <1>16, <1>17, <1>21, <1>22 DEF Good
<1>24. Growing(a)
  <2>1. ASSUME r.filter_policy
        PROVE  FiltersFor(F, B, r.data_block \cup {key}, f.filters, f.keys)
    <3>1. FiltersFor(E, B, r.data_block, r.filter_block.filters, r.filter_block.keys)
      BY <1>4, <1>17, <2>1 DEF Growing
    <3>2. \A j \in DOMAIN E : F[j].handle = E[j].handle
      BY <1>6, <1>7
    <3>3. PICK fs, ks : fs = r.filter_block.filters /\ ks = r.filter_block.keys
      OBVIOUS
    <3>4. FiltersFor(F, B, r.data_block \cup {key}, fs, ks \cup {IKey[key]})
      BY <1>15, <3>1, <3>2, <3>3, FiltersAdd
    <3> QED BY <1>13, <2>1, <3>3, <3>4
  <2> QED BY <1>10, <1>15, <1>16, <1>17, <1>21, <2>1 DEF Growing
<1>25. Growable(a)
  BY <1>4, <1>7, <1>10, <1>13, <1>15 DEF Growable
<1> QED BY <1>10, <1>14, <1>23, <1>24, <1>25 DEF a

LEMMA FormsAre ==
  ASSUME NEW size \in Nat, NEW form \in Forms(size)
  PROVE  form.size \in Nat /\ (size > 0 => form.size > 0)
<1>1. CASE form = Raw(size)
  BY <1>1 DEF Raw
<1>2. CASE form \in Compressed(size)
  <2>1. PICK s \in 1 .. size - size \div 8 - 1 : form = [type |-> "kSnappyCompression", size |-> s]
    BY <1>2 DEF Compressed
  <2>2. form.size = s
    BY <2>1
  <2> QED BY <2>1, <2>2
<1> QED BY <1>1, <1>2 DEF Forms

(* A data block of that size with a trailer, and its entry, held back.      *)
Flushed(r, w, size, offset) ==
  /\ w.added = r.added /\ w.last_key = r.last_key /\ w.filter_policy = r.filter_policy
  /\ w.index_block = r.index_block /\ w.data_block = {} /\ w.pending_index_entry
  /\ w.pending_handle = Handle(r, size) /\ w.offset = offset /\ w.end = offset
  /\ offset = r.offset + size + kBlockTrailerSize
  /\ w.filter_policy => w.filter_block = StartBlock(r.filter_block, offset)

(* A block of that kind and its trailer, appended to a file.               *)
BlockAppended(f, g, kind, end, size, contents) ==
  /\ Len(g) = Len(f) + 2 /\ \A i \in 1 .. Len(f) : g[i] = f[i]
  /\ g[Len(f) + 1] = Chunk(kind, end, size, contents)
  /\ g[Len(f) + 2].kind = "trailer"
  /\ g[Len(f) + 2].at = end + size /\ g[Len(f) + 2].size = kBlockTrailerSize

LEMMA AppendedInOrder ==
  ASSUME NEW f, NEW g, NEW m \in Nat, Len(f) = m, DOMAIN f = 1 .. m, DOMAIN g = 1 .. m + 2,
         NEW kind, NEW end \in Nat, NEW size \in Nat, NEW contents,
         BlockAppended(f, g, kind, end, size, contents), InOrder(f, end)
  PROVE  InOrder(g, end + size + kBlockTrailerSize)
<1>1. PICK t \in Nat : t = kBlockTrailerSize
  BY SizeAssumption
<1>2. PICK h : h = [i \in 1 .. m + 1 |-> g[i]]
  OBVIOUS
<1>3. DOMAIN h = 1 .. m + 1 /\ \A i \in 1 .. m + 1 : h[i] = g[i]
  BY <1>2
<1> HIDE <1>2
<1>4. g[m + 1].at = end /\ g[m + 1].size = size /\ g[m + 2].at = end + size /\ g[m + 2].size = t
  BY <1>1 DEF BlockAppended, Chunk
<1>5. \A i \in 1 .. m : h[i] = f[i]
  BY <1>3 DEF BlockAppended
<1>6. h[m + 1].at = end /\ h[m + 1].size = size
  BY <1>3, <1>4
<1>7. InOrder(h, end + size)
  BY <1>3, <1>5, <1>6, InOrderAppend
<1>8. PICK p \in Nat, q \in Nat : p = end + size /\ q = m + 1
  OBVIOUS
<1>9. DOMAIN h = 1 .. q /\ DOMAIN g = 1 .. q + 1 /\ (\A i \in 1 .. q : g[i] = h[i])
      /\ g[q + 1].at = p /\ g[q + 1].size = t /\ InOrder(h, p)
  BY <1>3, <1>4, <1>7, <1>8
<1>10. InOrder(g, p + t)
  BY <1>9, InOrderAppend
<1> QED BY <1>1, <1>8, <1>10

LEMMA AppendedBlocks ==
  ASSUME NEW E, NEW F, NEW f, NEW g, NEW n \in Nat, Len(f) = 2 * n, DOMAIN E = 1 .. n,
         DOMAIN F = 1 .. n + 1, \A j \in 1 .. n : F[j] = E[j],
         DOMAIN f = 1 .. 2 * n, DOMAIN g = 1 .. 2 * n + 2, BlocksIn(E, f),
         NEW end \in Nat, NEW size \in Nat, size > 0, NEW contents,
         BlockAppended(f, g, "data", end, size, contents),
         F[n + 1].handle.offset = end, F[n + 1].handle.size = size
  PROVE  BlocksIn(F, g)
<1>1. PICK m \in Nat : m = 2 * n
  OBVIOUS
<1>2. /\ \A i \in 1 .. m : g[i] = f[i]
      /\ g[m + 1].kind = "data" /\ g[m + 1].at = end /\ g[m + 1].size = size
      /\ g[m + 2].kind = "trailer"
  BY <1>1 DEF BlockAppended, Chunk
<1>3. ASSUME NEW j \in DOMAIN F
      PROVE  /\ 2 * j - 1 \in DOMAIN g /\ 2 * j \in DOMAIN g
             /\ g[2 * j - 1].kind = "data" /\ g[2 * j].kind = "trailer"
             /\ g[2 * j - 1].at = F[j].handle.offset
             /\ g[2 * j - 1].size = F[j].handle.size
             /\ g[2 * j - 1].size > 0
  <2>1. CASE j \in 1 .. n
    <3>1. /\ 2 * j - 1 \in 1 .. m /\ 2 * j \in 1 .. m
          /\ 2 * j - 1 \in DOMAIN g /\ 2 * j \in DOMAIN g
      BY <1>1, <2>1
    <3>2. g[2 * j - 1] = f[2 * j - 1] /\ g[2 * j] = f[2 * j] /\ F[j] = E[j]
      BY <1>2, <2>1, <3>1
    <3> QED BY <2>1, <3>1, <3>2 DEF BlocksIn
  <2>2. CASE j = n + 1
    <3>1. 2 * j - 1 = m + 1 /\ 2 * j = m + 2 /\ 2 * j - 1 \in DOMAIN g /\ 2 * j \in DOMAIN g
      BY <1>1, <2>2
    <3> QED BY <1>2, <2>2, <3>1
  <2> QED BY <2>1, <2>2
<1>4. ASSUME NEW i \in DOMAIN g, g[i].kind = "data"
      PROVE  \E j \in DOMAIN F : i = 2 * j - 1
  <2>1. CASE i \in 1 .. m
    <3>1. f[i].kind = "data" /\ i \in DOMAIN f
      BY <1>1, <1>2, <1>4, <2>1
    <3>2. PICK j \in DOMAIN E : i = 2 * j - 1
      BY <3>1 DEF BlocksIn
    <3> QED BY <3>2
  <2>2. CASE i = m + 1
    <3>1. n + 1 \in DOMAIN F /\ i = 2 * (n + 1) - 1
      BY <1>1, <2>2
    <3> QED BY <3>1
  <2>3. CASE i = m + 2
    BY <1>2, <1>4, <2>3
  <2>4. i \in 1 .. m \/ i = m + 1 \/ i = m + 2
    BY <1>1
  <2> QED BY <2>1, <2>2, <2>3, <2>4
<1> QED BY <1>3, <1>4 DEF BlocksIn

LEMMA FlushKeepsGood ==
  ASSUME NEW r, RepType(r), Good(r), Growing(r), Growable(r), r.data_block # {},
         NEW size \in Nat, size > 0, NEW w, RepType(w), NEW offset \in Nat,
         Flushed(r, w, size, offset),
         BlockAppended(r.file, w.file, "data", r.end, size, r.data_block)
  PROVE  Good(w) /\ Growing(w) /\ Growable(w)
<1>0. ~r.pending_index_entry /\ r.last_key \in KeyPlace /\ kBlockTrailerSize \in Nat
  BY LastIsKey, SizeAssumption DEF Good
<1>1. PICK E : E = Entries(r)
  OBVIOUS
<1>2. PICK F : F = Entries(w)
  OBVIOUS
<1>3. /\ E \in Seq(Entry) /\ Len(E) \in Nat /\ DOMAIN E = 1 .. Len(E) /\ Len(E) = Len(r.index_block)
      /\ \A j \in 1 .. Len(E) : E[j] = r.index_block[j]
  <2>1. /\ Entries(r) \in Seq(Entry) /\ Len(Entries(r)) \in Nat
        /\ DOMAIN Entries(r) = 1 .. Len(Entries(r))
        /\ \A j \in 1 .. Len(r.index_block) : Entries(r)[j] = r.index_block[j]
        /\ Len(Entries(r)) = Len(r.index_block)
    BY <1>0, EntriesAre
  <2> QED BY <1>1, <2>1
<1>4. PICK n \in Nat : n = Len(E)
  BY <1>3
<1>5. /\ F \in Seq(Entry) /\ Len(F) = n + 1 /\ DOMAIN F = 1 .. n + 1
      /\ \A j \in 1 .. n : F[j] = E[j]
      /\ F[n + 1] = [key |-> r.last_key, handle |-> Handle(r, size)]
  <2>1. w.pending_index_entry /\ w.last_key \in KeyPlace
    BY <1>0 DEF Flushed
  <2>2. /\ Entries(w) \in Seq(Entry)
        /\ DOMAIN Entries(w) = 1 .. Len(Entries(w))
        /\ \A j \in 1 .. Len(w.index_block) : Entries(w)[j] = w.index_block[j]
        /\ Len(Entries(w)) = Len(w.index_block) + 1
        /\ Entries(w)[Len(w.index_block) + 1] = [key |-> w.last_key, handle |-> w.pending_handle]
    BY <2>1, EntriesAre
  <2>3. w.index_block = r.index_block /\ w.last_key = r.last_key /\ w.pending_handle = Handle(r, size)
    BY DEF Flushed
  <2> QED BY <1>2, <1>3, <1>4, <2>2, <2>3
<1>6. F[n + 1].key = r.last_key /\ F[n + 1].handle.offset = r.offset /\ F[n + 1].handle.size = size
  BY <1>5 DEF Handle
<1>7. Len(r.file) = 2 * n
  BY <1>1, <1>4 DEF Growable
<1>8. DOMAIN r.file = 1 .. 2 * n /\ DOMAIN w.file = 1 .. 2 * n + 2 /\ Len(w.file) = 2 * n + 2
  BY <1>7, FileIs DEF BlockAppended
<1>9. PICK B, C : B = BlocksOf(r) /\ C = BlocksOf(w)
  OBVIOUS
<1>10. PICK f, g : f = r.file /\ g = w.file
  OBVIOUS
<1>11. BlockAppended(f, g, "data", r.end, size, r.data_block)
  BY <1>10
<1>12. C[n + 1] = r.data_block /\ \A j \in 1 .. n : C[j] = B[j]
  <2>1. \A j \in 1 .. n + 1 : C[j] = g[2 * j - 1].contents
    BY <1>2, <1>5, <1>9, <1>10 DEF BlocksOf
  <2>2. \A j \in 1 .. n : B[j] = f[2 * j - 1].contents
    BY <1>1, <1>3, <1>4, <1>9, <1>10 DEF BlocksOf
  <2>3. \A j \in 1 .. n : g[2 * j - 1] = f[2 * j - 1]
    <3>1. \A i \in 1 .. 2 * n : g[i] = f[i]
      BY <1>7, <1>10, <1>11 DEF BlockAppended
    <3>2. \A j \in 1 .. n : 2 * j - 1 \in 1 .. 2 * n
      OBVIOUS
    <3> QED BY <3>1, <3>2
  <2>4. g[2 * n + 1].contents = r.data_block
    BY <1>7, <1>10, <1>11 DEF BlockAppended, Chunk
  <2>5. C[n + 1] = g[2 * n + 1].contents
    <3>1. n + 1 \in 1 .. n + 1 /\ 2 * (n + 1) - 1 = 2 * n + 1
      OBVIOUS
    <3> QED BY <2>1, <3>1
  <2>6. \A j \in 1 .. n : j \in 1 .. n + 1
    OBVIOUS
  <2> QED BY <2>1, <2>2, <2>3, <2>4, <2>5, <2>6
<1>13. PICK A, D, L : A = r.added /\ D = r.data_block /\ L = r.last_key
  OBVIOUS
<1>14. Cut(E, B, D, A) /\ Running(E, B, D, A, L)
  BY <1>1, <1>9, <1>13 DEF Good, Growing
<1>15. Cut(F, C, {}, A) /\ Running(F, C, {}, A, L)
  <2>1. A \in SUBSET KeyPlace /\ L \in KeyPlace /\ D # {} /\ C[n + 1] = D /\ F[n + 1].key = L
    BY <1>0, <1>6, <1>12, <1>13, KeysAre DEF RepType
  <2>2. E \in Seq(Entry) /\ F \in Seq(Entry) /\ DOMAIN E = 1 .. n /\ DOMAIN F = 1 .. n + 1
    BY <1>3, <1>4, <1>5
  <2> QED BY <1>5, <1>12, <1>14, <2>1, <2>2, CutFlush
<1>16. r.end \in Nat /\ r.offset = r.end
  BY DEF Good, RepType
<1>17. BlocksIn(F, g)
  <2>1. PICK end \in Nat : end = r.end
    BY <1>16
  <2>2. BlocksIn(E, f)
    BY <1>1, <1>10 DEF Good
  <2>3. BlockAppended(f, g, "data", end, size, D) /\ F[n + 1].handle.offset = end
    BY <1>6, <1>11, <1>13, <1>16, <2>1
  <2>4. /\ Len(f) = 2 * n /\ DOMAIN f = 1 .. 2 * n /\ DOMAIN g = 1 .. 2 * n + 2
        /\ DOMAIN E = 1 .. n /\ DOMAIN F = 1 .. n + 1
    BY <1>3, <1>4, <1>5, <1>7, <1>8, <1>10
  <2> QED BY <1>5, <1>6, <2>2, <2>3, <2>4, AppendedBlocks
<1>18. InOrder(g, offset)
  <2>1. PICK end \in Nat, m \in Nat : end = r.end /\ m = 2 * n
    BY <1>16
  <2>2. InOrder(f, end) /\ BlockAppended(f, g, "data", end, size, D)
    BY <1>10, <1>11, <1>13, <2>1 DEF Good
  <2>3. Len(f) = m /\ DOMAIN f = 1 .. m /\ DOMAIN g = 1 .. m + 2
    BY <1>7, <1>8, <1>10, <2>1
  <2>4. InOrder(g, end + size + kBlockTrailerSize)
    BY <2>2, <2>3, AppendedInOrder
  <2> QED BY <1>16, <2>1, <2>4 DEF Flushed
<1>19. Good(w)
  BY <1>2, <1>9, <1>10, <1>13, <1>15, <1>17, <1>18 DEF Good, Flushed
<1>20. ASSUME w.filter_policy
       PROVE  /\ FiltersFor(F, C, {}, w.filter_block.filters, w.filter_block.keys)
              /\ Len(w.filter_block.filters) = w.offset \div kFilterBase
  <2>1. PICK p, q : p = r.filter_block /\ q = w.filter_block
    OBVIOUS
  <2>2. p = [filters |-> p.filters, keys |-> p.keys] /\ IsSeq(p.filters) /\ IsFiniteSet(p.keys)
    BY <2>1 DEF RepType
  <2>3. q = StartBlock(p, offset) /\ w.offset = offset /\ r.filter_policy
    BY <1>20, <2>1 DEF Flushed
  <2>4. r.offset \in Nat /\ r.offset <= offset
    <3>1. offset = r.offset + size + kBlockTrailerSize
      BY DEF Flushed
    <3> QED BY <1>0, <1>16, <3>1
  <2>5. Len(p.filters) = r.offset \div kFilterBase
    BY <2>1, <2>3 DEF Growable
  <2>6. Len(p.filters) <= offset \div kFilterBase
    BY <2>4, <2>5, OffsetIndex
  <2>7. /\ Len(p.filters) \in Nat /\ Len(q.filters) = offset \div kFilterBase
        /\ \A i \in 1 .. Len(p.filters) : q.filters[i] = p.filters[i]
        /\ \/ Len(q.filters) = Len(p.filters) /\ q.keys = p.keys
           \/ /\ Len(q.filters) > Len(p.filters)
              /\ \A key \in p.keys : InternalMayMatch(key, q.filters[Len(p.filters) + 1])
    <3>1. LET u == StartBlock(p, offset)
          IN  /\ Len(p.filters) \in Nat
              /\ Len(p.filters) <= offset \div kFilterBase => Len(u.filters) = offset \div kFilterBase
              /\ \A i \in 1 .. Len(p.filters) : u.filters[i] = p.filters[i]
              /\ \/ Len(u.filters) = Len(p.filters) /\ u.keys = p.keys
                 \/ /\ Len(u.filters) > Len(p.filters)
                    /\ \A key \in p.keys : InternalMayMatch(key, u.filters[Len(p.filters) + 1])
      BY <2>2, StartBlockIs
    <3> QED BY <2>3, <2>6, <3>1
  <2>8. Len(q.filters) \in Nat
    BY <2>7, OffsetIndex
  <2>9. FiltersFor(E, B, D, p.filters, p.keys)
    BY <1>1, <1>9, <1>13, <2>1, <2>3 DEF Growing
  <2>10. PICK fs, ks, gs, gk : fs = p.filters /\ ks = p.keys /\ gs = q.filters /\ gk = q.keys
    OBVIOUS
  <2>11. FiltersFor(F, C, {}, gs, gk)
    <3>1. DOMAIN E = 1 .. n /\ DOMAIN F = 1 .. n + 1 /\ C[n + 1] = D
      BY <1>3, <1>4, <1>5, <1>12, <1>13
    <3>2. /\ F[n + 1].handle.offset \in Nat /\ F[n + 1].handle.offset \div kFilterBase = Len(fs)
          /\ Len(fs) \in Nat /\ Len(gs) \in Nat /\ FiltersFor(E, B, D, fs, ks)
      BY <1>6, <2>4, <2>5, <2>7, <2>8, <2>9, <2>10
    <3>3. MoreFilters(fs, ks, gs, gk)
      BY <2>7, <2>8, <2>10 DEF MoreFilters
    <3>4. OneMore(E, B, F, C, D, n)
      BY <1>5, <1>12, <3>1 DEF OneMore
    <3> QED BY <3>2, <3>3, <3>4, FiltersFlush
  <2> QED BY <2>1, <2>3, <2>7, <2>10, <2>11
<1>21. Growing(w)
  BY <1>2, <1>9, <1>13, <1>15, <1>20 DEF Growing, Flushed
<1>22. Growable(w)
  <2>1. Len(w.file) = 2 * Len(F)
    BY <1>5, <1>8
  <2> QED BY <1>2, <1>20, <2>1 DEF Growable
<1> QED BY <1>19, <1>21, <1>22

LEMMA FlushBlockInv ==
  ASSUME NEW r, RepType(r), r.status, Good(r), Growing(r), Growable(r), NoFooter(r),
         NEW form \in Forms(r.data_size)
  PROVE  LET g == FlushBlock(r, form)
         IN  /\ RepType(g) /\ g.closed = r.closed /\ NoFooter(g)
             /\ g.status => Good(g) /\ Growing(g) /\ Growable(g) /\ g.data_block = {}
<1>1. CASE r.data_block = {}
  <2>1. FlushBlock(r, form) = r
    BY <1>1 DEF FlushBlock
  <2> QED BY <1>1, <2>1
<1>2. CASE r.data_block # {}
  <2> DEFINE g == FlushBlock(r, form)
  <2>1. PICK size \in Nat : size = form.size /\ size > 0
    <3>1. r.data_size \in Nat /\ r.data_size > 0
      BY <1>2 DEF RepType, Good
    <3> QED BY <3>1, FormsAre
  <2>2. PICK w : w = WriteRawBlock(r, "data", form, r.data_block)
    OBVIOUS
  <2>3. PICK h : h = Handle(r, size)
    OBVIOUS
  <2>4. PICK reset : reset = [w EXCEPT !.data_block = {}, !.data_size = 0, !.pending_handle = h]
    OBVIOUS
  <2>5. PICK p : p = [reset EXCEPT !.pending_index_entry = TRUE]
    OBVIOUS
  <2>6. PICK f : f = IF reset.status THEN CallFile(p) ELSE reset
    OBVIOUS
  <2>7. g = IF f.filter_policy THEN [f EXCEPT !.filter_block = StartBlock(f.filter_block, f.offset)] ELSE f
    BY <1>2, <2>1, <2>2, <2>3, <2>4, <2>5, <2>6 DEF FlushBlock
  <2>8. /\ RepType(w) /\ Kept(r, w)
        /\ w.status =>
             /\ BlockAppended(r.file, w.file, "data", r.end, size, r.data_block)
             /\ w.end = r.end + size + kBlockTrailerSize
             /\ w.offset = r.offset + size + kBlockTrailerSize
        /\ NoFooter(w)
    <3>1. /\ RepType(w) /\ Kept(r, w)
          /\ w.status =>
               /\ Len(w.file) = Len(r.file) + 2
               /\ \A i \in 1 .. Len(r.file) : w.file[i] = r.file[i]
               /\ w.file[Len(r.file) + 1] = Chunk("data", r.end, form.size, r.data_block)
               /\ w.file[Len(r.file) + 2] = Chunk("trailer", r.end + form.size, kBlockTrailerSize, form.type)
               /\ w.end = r.end + form.size + kBlockTrailerSize
               /\ w.offset = r.offset + form.size + kBlockTrailerSize
          /\ ~w.status => Len(w.file) > 0 /\ w.file[Len(w.file)].kind = "torn"
      <4>1. form.size \in Nat
        BY <2>1
      <4> HIDE <2>1
      <4>2. RawBlockWritten(r, w, "data", form, r.data_block)
        BY <2>2, <4>1, WriteRawBlockIs
      <4> QED BY <4>2 DEF RawBlockWritten
    <3>2. w.status => BlockAppended(r.file, w.file, "data", r.end, size, r.data_block)
      BY <2>1, <3>1 DEF BlockAppended, Chunk
    <3>3. w.status => w.file[Len(w.file)].kind = "trailer"
      BY <3>1 DEF Chunk
    <3> QED BY <2>1, <3>1, <3>2, <3>3 DEF NoFooter
  <2>9. h \in [offset : Int, size : Int]
    BY <2>3 DEF Handle, RepType
  <2>10. /\ RepType(reset) /\ reset.status = w.status /\ reset.closed = r.closed
         /\ reset.added = r.added /\ reset.last_key = r.last_key
         /\ reset.filter_policy = r.filter_policy /\ reset.filter_block = r.filter_block
         /\ reset.index_block = r.index_block /\ reset.data_block = {}
         /\ reset.pending_handle = h /\ reset.file = w.file /\ reset.end = w.end
         /\ reset.offset = w.offset
    <3>1. IsRep(w)
      BY <2>8 DEF RepType
    <3>2. /\ IsRep(reset) /\ reset.file = w.file /\ reset.end = w.end /\ reset.offset = w.offset
          /\ reset.added = w.added /\ reset.last_key = w.last_key
          /\ reset.filter_policy = w.filter_policy /\ reset.filter_block = w.filter_block
          /\ reset.index_block = w.index_block /\ reset.block_size = w.block_size
          /\ reset.other_policy = w.other_policy
          /\ reset.calls = w.calls /\ reset.closed = w.closed /\ reset.status = w.status
      BY <2>4, <3>1 DEF IsRep
    <3>3. reset.data_block = {} /\ reset.data_size = 0 /\ reset.pending_handle = h
      BY <2>4, <3>1 DEF IsRep
    <3>4. reset.pending_index_entry = w.pending_index_entry
      BY <2>4, <3>1 DEF IsRep
    <3> HIDE <2>4
    <3>5. RepType(reset)
      BY <2>8, <2>9, <3>2, <3>3, <3>4 DEF RepType
    <3> QED BY <2>8, <3>2, <3>3, <3>5 DEF Kept
  <2> HIDE <2>4
  <2>11. /\ RepType(p) /\ p.pending_index_entry /\ p.closed = r.closed
         /\ p.added = r.added /\ p.last_key = r.last_key
         /\ p.filter_policy = r.filter_policy /\ p.filter_block = r.filter_block
         /\ p.index_block = r.index_block /\ p.data_block = {}
         /\ p.pending_handle = h /\ p.file = w.file /\ p.end = w.end
         /\ p.offset = w.offset
    <3>1. IsRep(reset)
      BY <2>10 DEF RepType
    <3>2. /\ IsRep(p) /\ p.file = reset.file /\ p.end = reset.end /\ p.offset = reset.offset
          /\ p.added = reset.added /\ p.last_key = reset.last_key
          /\ p.filter_policy = reset.filter_policy /\ p.filter_block = reset.filter_block
          /\ p.index_block = reset.index_block /\ p.block_size = reset.block_size
          /\ p.other_policy = reset.other_policy
          /\ p.calls = reset.calls /\ p.closed = reset.closed /\ p.status = reset.status
          /\ p.data_block = reset.data_block /\ p.data_size = reset.data_size
          /\ p.pending_handle = reset.pending_handle
      BY <2>5, <3>1 DEF IsRep
    <3>3. p.pending_index_entry = TRUE
      BY <2>5, <3>1 DEF IsRep
    <3> HIDE <2>5
    <3>4. RepType(p)
      BY <2>10, <3>2, <3>3 DEF RepType
    <3> QED BY <2>10, <3>2, <3>3, <3>4
  <2> HIDE <2>5
  <2>12. /\ RepType(f) /\ f.closed = r.closed /\ f.file = w.file /\ f.end = w.end
         /\ f.added = r.added /\ f.last_key = r.last_key
         /\ f.filter_policy = r.filter_policy /\ f.filter_block = r.filter_block
         /\ f.index_block = r.index_block /\ f.data_block = {}
         /\ f.pending_handle = h /\ f.offset = w.offset
         /\ f.status => w.status /\ f.pending_index_entry
    <3>1. CASE reset.status
      <4>1. f = CallFile(p) /\ w.status
        BY <2>6, <2>10, <3>1
      <4>2. RepType(f) /\ Kept(p, f) /\ f.offset = p.offset /\ f.file = p.file /\ f.end = p.end
        BY <2>11, <4>1, CallFileIs
      <4> QED BY <2>11, <4>1, <4>2 DEF Kept
    <3>2. CASE ~reset.status
      BY <2>6, <2>10, <3>2
    <3> QED BY <3>1, <3>2
  <2> HIDE <2>6
  <2>13. f.offset \in Nat
    BY <2>12 DEF RepType
  <2>14. PICK u : u = StartBlock(r.filter_block, f.offset)
    OBVIOUS
  <2>15. u = [filters |-> u.filters, keys |-> u.keys] /\ IsSeq(u.filters) /\ IsFiniteSet(u.keys)
    <3>1. PICK b : b = r.filter_block
      OBVIOUS
    <3>2. b = [filters |-> b.filters, keys |-> b.keys] /\ IsSeq(b.filters) /\ IsFiniteSet(b.keys)
      BY <3>1 DEF RepType
    <3>3. LET v == StartBlock(b, f.offset)
          IN  v = [filters |-> v.filters, keys |-> v.keys] /\ IsSeq(v.filters) /\ IsFiniteSet(v.keys)
      BY <2>13, <3>2, StartBlockIs
    <3> QED BY <2>14, <3>1, <3>3
  <2>16. /\ RepType(g) /\ g.closed = r.closed /\ g.file = w.file /\ g.end = w.end
         /\ g.added = r.added /\ g.last_key = r.last_key
         /\ g.filter_policy = r.filter_policy
         /\ g.index_block = r.index_block /\ g.data_block = {}
         /\ g.pending_handle = h /\ g.offset = w.offset
         /\ g.status => w.status /\ g.pending_index_entry
         /\ g.filter_policy => g.filter_block = u
    <3>1. CASE f.filter_policy
      <4>1. g = [f EXCEPT !.filter_block = u] /\ IsRep(f)
        BY <2>7, <2>12, <2>14, <3>1 DEF RepType
      <4>2. /\ IsRep(g) /\ g.file = f.file /\ g.end = f.end /\ g.offset = f.offset
            /\ g.added = f.added /\ g.last_key = f.last_key
            /\ g.filter_policy = f.filter_policy /\ g.filter_block = u
            /\ g.index_block = f.index_block /\ g.block_size = f.block_size
            /\ g.other_policy = f.other_policy
            /\ g.calls = f.calls /\ g.closed = f.closed /\ g.status = f.status
            /\ g.data_block = f.data_block /\ g.data_size = f.data_size
            /\ g.pending_handle = f.pending_handle
        BY <4>1 DEF IsRep
      <4>3. g.pending_index_entry = f.pending_index_entry
        BY <4>1 DEF IsRep
      <4> HIDE DEF g
      <4>4. RepType(g)
        BY <2>12, <2>15, <4>2, <4>3 DEF RepType
      <4> QED BY <2>12, <4>2, <4>3, <4>4
    <3>2. CASE ~f.filter_policy
      <4>1. g = f
        BY <2>7, <3>2
      <4> HIDE DEF g
      <4> QED BY <2>12, <3>2, <4>1
    <3> QED BY <3>1, <3>2
  <2> HIDE DEF g
  <2>17. ASSUME g.status PROVE Good(g) /\ Growing(g) /\ Growable(g)
    <3>1. w.status /\ r.offset = r.end
      BY <2>16, <2>17 DEF Good
    <3>2. PICK offset : offset = r.offset + size + kBlockTrailerSize
      OBVIOUS
    <3>3. g.offset = offset /\ g.end = offset
      BY <2>8, <2>16, <3>1, <3>2
    <3>4. offset \in Nat
      BY <2>16, <3>3 DEF RepType
    <3>5. Flushed(r, g, size, offset)
      BY <2>3, <2>12, <2>14, <2>16, <2>17, <3>2, <3>3 DEF Flushed
    <3>6. BlockAppended(r.file, g.file, "data", r.end, size, r.data_block)
      BY <2>8, <2>16, <3>1
    <3> QED BY <1>2, <2>1, <2>16, <3>4, <3>5, <3>6, FlushKeepsGood
  <2>18. NoFooter(g)
    BY <2>8, <2>16 DEF NoFooter
  <2> QED BY <2>16, <2>17, <2>18 DEF g
<1> QED BY <1>1, <1>2

-----------------------------------------------------------------------------
(* What Finish() adds to the file.                                         *)

(* A block of that kind, which h leads to, with its trailer.               *)
ChunkAt(f, i, kind, h) ==
  /\ i \in DOMAIN f /\ i + 1 \in DOMAIN f
  /\ f[i].kind = kind /\ f[i + 1].kind = "trailer"
  /\ f[i].at = h.offset /\ f[i].size = h.size /\ f[i].size > 0

(* g is f with more chunks, which are no data blocks.                      *)
Longer(f, g) ==
  /\ Len(f) \in Nat /\ DOMAIN f = 1 .. Len(f) /\ Len(g) \in Nat /\ DOMAIN g = 1 .. Len(g)
  /\ Len(f) <= Len(g)
  /\ \A i \in 1 .. Len(f) : g[i] = f[i]
  /\ \A i \in DOMAIN g : i \in 1 .. Len(f) \/ g[i].kind # "data"

LEMMA BlocksStay ==
  ASSUME NEW E, NEW f, NEW g, Longer(f, g), BlocksIn(E, f)
  PROVE  /\ BlocksIn(E, g)
         /\ \A j \in DOMAIN E : g[2 * j - 1] = f[2 * j - 1]
<1>1. \A i \in DOMAIN f : i \in DOMAIN g /\ g[i] = f[i]
  BY DEF Longer
<1>2. \A j \in DOMAIN E : 2 * j - 1 \in DOMAIN f /\ 2 * j \in DOMAIN f
  BY DEF BlocksIn
<1>3. \A i \in DOMAIN g : g[i].kind = "data" => i \in DOMAIN f /\ f[i].kind = "data"
  BY <1>1 DEF Longer
<1> QED BY <1>1, <1>2, <1>3 DEF BlocksIn

LEMMA ChunkStays ==
  ASSUME NEW f, NEW g, Longer(f, g), NEW i, NEW kind, NEW h, ChunkAt(f, i, kind, h)
  PROVE  ChunkAt(g, i, kind, h) /\ g[i] = f[i]
<1>1. \A j \in DOMAIN f : j \in DOMAIN g /\ g[j] = f[j]
  BY DEF Longer
<1> QED BY <1>1 DEF ChunkAt

(* A longer file leaves the rest of the Rep as good as it was.             *)
LEMMA LongerIsGood ==
  ASSUME NEW r, NEW w, Kept(r, w), Longer(r.file, w.file), Good(r),
         w.offset = w.end, InOrder(w.file, w.end)
  PROVE  /\ Good(w) /\ Entries(w) = Entries(r) /\ BlocksOf(w) = BlocksOf(r)
         /\ Growing(r) => Growing(w)
<1>1. Entries(w) = Entries(r)
  BY DEF Kept, Entries
<1>2. BlocksIn(Entries(r), r.file)
  BY DEF Good
<1>3. /\ BlocksIn(Entries(r), w.file)
      /\ \A j \in DOMAIN Entries(r) : w.file[2 * j - 1] = r.file[2 * j - 1]
  BY <1>2, BlocksStay
<1>4. BlocksOf(w) = BlocksOf(r)
  BY <1>1, <1>3 DEF BlocksOf
<1>5. Good(w)
  BY <1>1, <1>3, <1>4 DEF Good, Kept
<1>6. Growing(r) => Growing(w)
  BY <1>1, <1>4 DEF Growing, Kept
<1> QED BY <1>1, <1>4, <1>5, <1>6

LEMMA WriteOther ==
  ASSUME NEW r, RepType(r), Good(r), NEW kind, kind # "data", NEW contents,
         NEW form, form.size \in Nat, form.size > 0
  PROVE  LET w == WriteRawBlock(r, kind, form, contents)
         IN  /\ RepType(w) /\ Kept(r, w)
             /\ ~w.status => NoFooter(w)
             /\ w.status =>
                  /\ Good(w) /\ Entries(w) = Entries(r) /\ BlocksOf(w) = BlocksOf(r)
                  /\ Growing(r) => Growing(w)
                  /\ Longer(r.file, w.file) /\ Len(w.file) = Len(r.file) + 2
                  /\ ChunkAt(w.file, Len(r.file) + 1, kind, Handle(r, form.size))
                  /\ w.file[Len(r.file) + 1].contents = contents
<1>1. PICK size \in Nat : size = form.size
  OBVIOUS
<1>2. form.size = size /\ size > 0
  BY <1>1
<1>3. PICK w : w = WriteRawBlock(r, kind, form, contents)
  OBVIOUS
<1>4. /\ RepType(w) /\ Kept(r, w)
      /\ w.status =>
           /\ Len(w.file) = Len(r.file) + 2
           /\ \A i \in 1 .. Len(r.file) : w.file[i] = r.file[i]
           /\ w.file[Len(r.file) + 1] = Chunk(kind, r.end, form.size, contents)
           /\ w.file[Len(r.file) + 2] = Chunk("trailer", r.end + form.size, kBlockTrailerSize, form.type)
           /\ w.end = r.end + form.size + kBlockTrailerSize
           /\ w.offset = r.offset + form.size + kBlockTrailerSize
      /\ ~w.status => Len(w.file) > 0 /\ w.file[Len(w.file)].kind = "torn"
  <2> DEFINE v == WriteRawBlock(r, kind, form, contents)
  <2>1. /\ RepType(v) /\ Kept(r, v)
        /\ v.status =>
             /\ Len(v.file) = Len(r.file) + 2
             /\ \A i \in 1 .. Len(r.file) : v.file[i] = r.file[i]
             /\ v.file[Len(r.file) + 1] = Chunk(kind, r.end, form.size, contents)
             /\ v.file[Len(r.file) + 2] = Chunk("trailer", r.end + form.size, kBlockTrailerSize, form.type)
             /\ v.end = r.end + form.size + kBlockTrailerSize
             /\ v.offset = r.offset + form.size + kBlockTrailerSize
        /\ ~v.status => Len(v.file) > 0 /\ v.file[Len(v.file)].kind = "torn"
    <3> HIDE DEF v
    <3>1. form.size \in Nat
      OBVIOUS
    <3>2. RawBlockWritten(r, v, kind, form, contents)
      BY <3>1, WriteRawBlockIs DEF v
    <3> QED BY <3>2 DEF RawBlockWritten
  <2> QED BY <1>3, <2>1
<1>5. ~w.status => NoFooter(w)
  BY <1>4 DEF NoFooter
<1>6. ASSUME w.status
      PROVE  /\ Good(w) /\ Entries(w) = Entries(r) /\ BlocksOf(w) = BlocksOf(r)
             /\ Growing(r) => Growing(w)
             /\ Longer(r.file, w.file) /\ Len(w.file) = Len(r.file) + 2
             /\ ChunkAt(w.file, Len(r.file) + 1, kind, Handle(r, size))
             /\ w.file[Len(r.file) + 1].contents = contents
  <2>1. PICK f, g : f = r.file /\ g = w.file
    OBVIOUS
  <2>2. PICK m \in Nat : m = Len(f)
    BY <2>1, FileIs
  <2>3. Len(f) = m /\ DOMAIN f = 1 .. m /\ DOMAIN g = 1 .. m + 2 /\ Len(g) = m + 2
    BY <1>4, <1>6, <2>1, <2>2, FileIs
  <2>4. PICK end \in Nat : end = r.end /\ end = r.offset
    BY DEF Good, RepType
  <2>5. /\ \A i \in 1 .. m : g[i] = f[i]
        /\ g[m + 1].kind = kind /\ g[m + 1].at = end /\ g[m + 1].size = size
        /\ g[m + 1].contents = contents /\ g[m + 2].kind = "trailer"
    BY <1>2, <1>4, <1>6, <2>1, <2>2, <2>4 DEF Chunk
  <2>6. BlockAppended(f, g, kind, end, size, contents)
    BY <1>2, <1>4, <1>6, <2>1, <2>4 DEF BlockAppended, Chunk
  <2>7. InOrder(g, end + size + kBlockTrailerSize)
    <3>1. InOrder(f, end)
      BY <2>1, <2>4 DEF Good
    <3> QED BY <1>2, <2>3, <2>6, <3>1, AppendedInOrder
  <2>8. w.end = end + size + kBlockTrailerSize /\ w.offset = w.end
    BY <1>2, <1>4, <1>6, <2>4
  <2>9. Longer(f, g)
    <3>1. \A i \in 1 .. m + 2 : i \in 1 .. m \/ i = m + 1 \/ i = m + 2
      OBVIOUS
    <3> QED BY <2>3, <2>5, <3>1 DEF Longer
  <2>10. ChunkAt(g, m + 1, kind, Handle(r, size))
    <3>1. m + 1 \in DOMAIN g /\ (m + 1) + 1 \in DOMAIN g /\ (m + 1) + 1 = m + 2
      BY <2>3
    <3> QED BY <1>2, <2>4, <2>5, <3>1 DEF ChunkAt, Handle
  <2>11. /\ Good(w) /\ Entries(w) = Entries(r) /\ BlocksOf(w) = BlocksOf(r)
         /\ Growing(r) => Growing(w)
    <3>1. Longer(r.file, w.file) /\ InOrder(w.file, w.end)
      BY <2>1, <2>7, <2>8, <2>9
    <3> QED BY <1>4, <2>8, <3>1, LongerIsGood
  <2> QED BY <2>1, <2>2, <2>3, <2>5, <2>9, <2>10, <2>11
<1> QED BY <1>2, <1>3, <1>4, <1>5, <1>6

LEMMA MetaFormsAre ==
  ASSUME NEW form \in MetaForms
  PROVE  form.size \in Nat /\ form.size > 0
<1>1. PICK size \in MetaSize : form \in Forms(size)
  BY DEF MetaForms
<1>2. size \in Nat /\ size > 0
  BY SizeAssumption
<1> QED BY <1>1, <1>2, FormsAre

(* How many chunks there are up to the filter block.                       *)
FilterLen(r) == IF r.filter_policy THEN 2 * Len(Entries(r)) + 2 ELSE 2 * Len(Entries(r))

FilterIn(r, h) ==
  r.filter_policy =>
    /\ ChunkAt(r.file, 2 * Len(Entries(r)) + 1, "filter", h)
    /\ r.file[2 * Len(Entries(r)) + 1].contents = FinishFilter(r.filter_block)

(* The filters may have been entered under the name of another policy.     *)
MetaindexIn(r, metaindex, h) ==
  /\ ChunkAt(r.file, FilterLen(r) + 1, "metaindex", metaindex)
  /\ \E f \in BOOLEAN :
       /\ f => r.filter_policy
       /\ r.file[FilterLen(r) + 1].contents = [filter |-> f, handle |-> h]

IndexIn(r, index) ==
  /\ ChunkAt(r.file, FilterLen(r) + 3, "index", index)
  /\ r.file[FilterLen(r) + 3].contents = r.index_block

(* No filter misses a key of its blocks.                                   *)
Matches(r) ==
  r.filter_policy =>
    \A j \in DOMAIN Entries(r) : \A k \in BlocksOf(r)[j] :
      KeyMayMatch(FinishFilter(r.filter_block), Entries(r)[j].handle.offset, IKey[k])

Finished(r) ==
  /\ ~r.pending_index_entry /\ r.data_block = {}
  /\ Len(r.file) = FilterLen(r) + 5 /\ r.file[FilterLen(r) + 5].kind = "footer"
  /\ Matches(r)
  /\ \E h, metaindex, index :
       /\ FilterIn(r, h) /\ MetaindexIn(r, metaindex, h) /\ IndexIn(r, index)
       /\ r.file[FilterLen(r) + 5].contents = [metaindex |-> metaindex, index |-> index]

LEMMA FilterLenIs ==
  ASSUME NEW r, RepType(r), Len(Entries(r)) \in Nat
  PROVE  FilterLen(r) \in Nat
BY DEF FilterLen

LEMMA BlocksBehindStay ==
  ASSUME NEW r, NEW w, w.filter_policy = r.filter_policy, w.filter_block = r.filter_block,
         Len(Entries(w)) = Len(Entries(r)), Longer(r.file, w.file)
  PROVE  /\ FilterLen(w) = FilterLen(r)
         /\ \A h : FilterIn(r, h) => FilterIn(w, h)
         /\ \A m, h : MetaindexIn(r, m, h) => MetaindexIn(w, m, h)
         /\ \A i : w.index_block = r.index_block /\ IndexIn(r, i) => IndexIn(w, i)
<1>1. FilterLen(w) = FilterLen(r)
  BY DEF FilterLen
<1>2. ASSUME NEW h, FilterIn(r, h) PROVE FilterIn(w, h)
  <2>1. PICK i : i = 2 * Len(Entries(r)) + 1
    OBVIOUS
  <2> SUFFICES ASSUME r.filter_policy
               PROVE  ChunkAt(w.file, i, "filter", h) /\ w.file[i].contents = FinishFilter(r.filter_block)
    BY <2>1 DEF FilterIn
  <2>2. ChunkAt(r.file, i, "filter", h) /\ r.file[i].contents = FinishFilter(r.filter_block)
    BY <1>2, <2>1 DEF FilterIn
  <2> QED BY <2>2, ChunkStays
<1>3. ASSUME NEW m, NEW h, MetaindexIn(r, m, h) PROVE MetaindexIn(w, m, h)
  <2>1. PICK i : i = FilterLen(r) + 1
    OBVIOUS
  <2>2. PICK f \in BOOLEAN :
          /\ ChunkAt(r.file, i, "metaindex", m)
          /\ f => r.filter_policy
          /\ r.file[i].contents = [filter |-> f, handle |-> h]
    BY <1>3, <2>1 DEF MetaindexIn
  <2>3. ChunkAt(w.file, i, "metaindex", m) /\ w.file[i] = r.file[i]
    BY <2>2, ChunkStays
  <2> QED BY <1>1, <2>1, <2>2, <2>3 DEF MetaindexIn
<1>4. ASSUME NEW i, w.index_block = r.index_block, IndexIn(r, i) PROVE IndexIn(w, i)
  <2>1. PICK j : j = FilterLen(r) + 3
    OBVIOUS
  <2>2. ChunkAt(r.file, j, "index", i) /\ r.file[j].contents = r.index_block
    BY <1>4, <2>1 DEF IndexIn
  <2>3. ChunkAt(w.file, j, "index", i) /\ w.file[j] = r.file[j]
    BY <2>2, ChunkStays
  <2> QED BY <1>1, <1>4, <2>1, <2>2, <2>3 DEF IndexIn
<1> QED BY <1>1, <1>2, <1>3, <1>4

(* What holds of a Rep between two of the steps of Finish().               *)
Finishing(r) ==
  /\ RepType(r)
  /\ ~r.status => NoFooter(r)
  /\ r.status => Good(r) /\ Growing(r) /\ r.data_block = {}

LEMMA WriteFilterInv ==
  ASSUME NEW r, Finishing(r), r.status => Len(r.file) = 2 * Len(Entries(r))
  PROVE  LET w == WriteFilter(r)
         IN  /\ Finishing(w) /\ w.closed = r.closed
             /\ w.status => r.status /\ Len(w.file) = FilterLen(w) /\ FilterIn(w, Handle(r, 1))
<1> DEFINE w == WriteFilter(r)
<1>0. r.status \in BOOLEAN /\ r.filter_policy \in BOOLEAN
  BY DEF Finishing, RepType
<1>1. CASE ~r.status
  <2>1. w = r
    BY <1>1 DEF WriteFilter
  <2> QED BY <1>1, <2>1
<1>2. CASE r.status /\ ~r.filter_policy
  <2>1. w = r
    BY <1>2 DEF WriteFilter
  <2> QED BY <1>2, <2>1 DEF FilterLen, FilterIn
<1>3. CASE r.status /\ r.filter_policy
  <2>1. PICK c : c = FinishFilter(r.filter_block)
    OBVIOUS
  <2>2. w = WriteRawBlock(r, "filter", Raw(1), c)
    BY <1>3, <2>1 DEF WriteFilter
  <2>3. RepType(r) /\ Good(r) /\ Growing(r) /\ r.data_block = {} /\ Len(r.file) = 2 * Len(Entries(r))
    BY <1>3 DEF Finishing
  <2> HIDE DEF w
  <2>4. /\ RepType(w) /\ Kept(r, w)
        /\ ~w.status => NoFooter(w)
        /\ w.status =>
             /\ Good(w) /\ Entries(w) = Entries(r)
             /\ Growing(w) /\ Len(w.file) = Len(r.file) + 2
             /\ ChunkAt(w.file, Len(r.file) + 1, "filter", Handle(r, 1))
             /\ w.file[Len(r.file) + 1].contents = c
    <3>1. PICK form : form = Raw(1)
      OBVIOUS
    <3>2. form.size \in Nat /\ form.size > 0 /\ form.size = 1
      BY <3>1 DEF Raw
    <3>3. w = WriteRawBlock(r, "filter", form, c)
      BY <2>2, <3>1
    <3> HIDE <3>1
    <3> QED BY <2>3, <3>2, <3>3, WriteOther
  <2>5. Finishing(w) /\ w.closed = r.closed
    BY <2>3, <2>4 DEF Finishing, Kept
  <2>6. ASSUME w.status PROVE Len(w.file) = FilterLen(w) /\ FilterIn(w, Handle(r, 1))
    <3>1. w.filter_policy /\ w.filter_block = r.filter_block
      BY <1>3, <2>4 DEF Kept
    <3> QED BY <2>1, <2>3, <2>4, <2>6, <3>1 DEF FilterLen, FilterIn
  <2> QED BY <1>3, <2>5, <2>6 DEF w
<1> QED BY <1>0, <1>1, <1>2, <1>3

LEMMA WriteMetaindexInv ==
  ASSUME NEW r, Finishing(r), NEW form \in MetaForms, NEW h,
         r.status => Len(r.file) = FilterLen(r) /\ FilterIn(r, h)
  PROVE  LET w == WriteMetaindex(r, form, h)
         IN  /\ Finishing(w) /\ w.closed = r.closed
             /\ w.status => /\ r.status /\ Len(w.file) = FilterLen(w) + 2
                            /\ FilterIn(w, h) /\ MetaindexIn(w, Handle(r, form.size), h)
<1> DEFINE w == WriteMetaindex(r, form, h)
<1>0. r.status \in BOOLEAN
  BY DEF Finishing, RepType
<1>1. CASE ~r.status
  <2>1. w = r
    BY <1>1 DEF WriteMetaindex
  <2> QED BY <1>1, <2>1
<1>2. CASE r.status
  <2>0. PICK f \in BOOLEAN : f = (r.filter_policy /\ ~r.other_policy)
    OBVIOUS
  <2>1. PICK c : c = [filter |-> f, handle |-> h]
    OBVIOUS
  <2>2. w = WriteRawBlock(r, "metaindex", form, c)
    BY <1>2, <2>0, <2>1 DEF WriteMetaindex
  <2>3. RepType(r) /\ Good(r) /\ Growing(r) /\ r.data_block = {}
    BY <1>2 DEF Finishing
  <2> HIDE DEF w
  <2>4. /\ RepType(w) /\ Kept(r, w)
        /\ ~w.status => NoFooter(w)
        /\ w.status =>
             /\ Good(w) /\ Entries(w) = Entries(r) /\ Longer(r.file, w.file)
             /\ Growing(w) /\ Len(w.file) = Len(r.file) + 2
             /\ ChunkAt(w.file, Len(r.file) + 1, "metaindex", Handle(r, form.size))
             /\ w.file[Len(r.file) + 1].contents = c
    BY <2>2, <2>3, MetaFormsAre, WriteOther
  <2>5. Finishing(w) /\ w.closed = r.closed
    BY <2>3, <2>4 DEF Finishing, Kept
  <2>6. ASSUME w.status
        PROVE  /\ Len(w.file) = FilterLen(w) + 2
               /\ FilterIn(w, h) /\ MetaindexIn(w, Handle(r, form.size), h)
    <3>1. w.filter_policy = r.filter_policy /\ w.filter_block = r.filter_block
      BY <2>4 DEF Kept
    <3>2. FilterLen(w) = FilterLen(r) /\ FilterIn(w, h)
      BY <1>2, <2>4, <2>6, <3>1, BlocksBehindStay
    <3>3. MetaindexIn(w, Handle(r, form.size), h)
      <4>1. f => w.filter_policy
        BY <2>0, <3>1
      <4> QED BY <1>2, <2>1, <2>4, <2>6, <3>2, <4>1 DEF MetaindexIn
    <3> QED BY <1>2, <2>4, <2>6, <3>2, <3>3
  <2> QED BY <1>2, <2>5, <2>6 DEF w
<1> QED BY <1>0, <1>1, <1>2

(* What holds of a Rep once the index block is written.                    *)
Indexed(r) ==
  /\ Good(r) /\ ~r.pending_index_entry /\ r.data_block = {} /\ Matches(r)

(* The last entry gets its successor.                                      *)
LEMMA LastEntryInv ==
  ASSUME NEW r, RepType(r), Good(r), Growing(r), r.data_block = {}
  PROVE  LET i == AddIndexEntry(r, Successor(r))
         IN  /\ RepType(i) /\ Indexed(i) /\ i.closed = r.closed
             /\ i.filter_policy = r.filter_policy /\ i.filter_block = r.filter_block
             /\ i.file = r.file /\ i.offset = r.offset /\ i.status = r.status
             /\ Entries(i) = i.index_block /\ Len(Entries(i)) = Len(Entries(r))
             /\ Len(Entries(r)) \in Nat
<1>1. r.pending_index_entry => r.last_key \in KeyPlace
  BY LastIsKey
<1>2. PICK sep : sep = Successor(r)
  OBVIOUS
<1>3. r.pending_index_entry => sep \in KeyPlace /\ r.last_key <= sep
  BY <1>1, <1>2, SuccessorIs
<1>4. PICK i : i = AddIndexEntry(r, sep)
  OBVIOUS
<1>5. PICK E, F : E = Entries(r) /\ F = Entries(i)
  OBVIOUS
<1>6. E \in Seq(Entry) /\ Len(E) \in Nat /\ DOMAIN E = 1 .. Len(E)
  BY <1>1, <1>5, EntriesAre
<1>7. /\ RepType(i) /\ ~i.pending_index_entry
      /\ i.filter_policy = r.filter_policy /\ i.offset = r.offset /\ i.status = r.status
      /\ i.closed = r.closed /\ i.data_block = r.data_block /\ i.last_key = r.last_key
      /\ i.filter_block = r.filter_block /\ i.file = r.file /\ i.end = r.end /\ i.added = r.added
      /\ F = i.index_block /\ F \in Seq(Entry) /\ Len(F) = Len(E)
      /\ \A j \in 1 .. Len(E) : F[j].handle = E[j].handle
      /\ \A j \in 1 .. Len(E) :
           \/ F[j].key = E[j].key
           \/ /\ r.pending_index_entry /\ j = Len(E)
              /\ E[j].key = r.last_key /\ F[j].key = sep
  BY <1>1, <1>3, <1>4, <1>5, AddIndexEntryIs
<1>8. DOMAIN F = DOMAIN E /\ \A j \in DOMAIN E : F[j].handle = E[j].handle
  <2>1. DOMAIN F = 1 .. Len(F)
    BY <1>7
  <2> QED BY <1>6, <1>7, <2>1
<1>9. PICK B : B = BlocksOf(r)
  OBVIOUS
<1>10. BlocksOf(i) = B
  BY <1>5, <1>7, <1>8, <1>9 DEF BlocksOf
<1>11. PICK A, L : A = r.added /\ L = r.last_key
  OBVIOUS
<1>12. Cut(E, B, {}, A) /\ Running(E, B, {}, A, L)
  BY <1>5, <1>9, <1>11 DEF Good, Growing
<1>13. A \in SUBSET KeyPlace /\ L \in Nat
  BY <1>11, KeysAre DEF RepType
<1>14. \A j \in DOMAIN E :
         F[j].key = E[j].key \/ (L <= F[j].key /\ \A l \in DOMAIN E : l <= j)
  <2> SUFFICES ASSUME NEW j \in DOMAIN E, F[j].key # E[j].key
               PROVE  L <= F[j].key /\ \A l \in DOMAIN E : l <= j
    OBVIOUS
  <2>1. r.pending_index_entry /\ j = Len(E) /\ F[j].key = sep
    BY <1>6, <1>7
  <2> QED BY <1>3, <1>6, <1>11, <2>1
<1>15. Cut(F, B, {}, A)
  BY <1>6, <1>7, <1>8, <1>12, <1>13, <1>14, CutFinish
<1>16. BlocksIn(F, r.file)
  <2>1. BlocksIn(E, r.file)
    BY <1>5 DEF Good
  <2> QED BY <1>8, <2>1 DEF BlocksIn
<1>17. Good(i)
  BY <1>5, <1>7, <1>10, <1>11, <1>15, <1>16 DEF Good
<1>18. Matches(i)
  <2> SUFFICES ASSUME r.filter_policy, NEW j \in DOMAIN E, NEW k \in B[j]
               PROVE  KeyMayMatch(FinishFilter(r.filter_block), F[j].handle.offset, IKey[k])
    BY <1>5, <1>7, <1>8, <1>10 DEF Matches
  <2>1. PICK f : f = r.filter_block
    OBVIOUS
  <2>2. IsSeq(f.filters) /\ IsFiniteSet(f.keys)
    BY <2>1 DEF RepType
  <2>3. FiltersFor(E, B, {}, f.filters, f.keys)
    BY <1>5, <1>9, <2>1 DEF Growing
  <2>4. KeyMayMatch(FinishFilter(f), E[j].handle.offset, IKey[k])
    BY <2>2, <2>3, FiltersFinish
  <2> QED BY <1>8, <2>1, <2>4
<1> QED BY <1>2, <1>4, <1>5, <1>6, <1>7, <1>17, <1>18 DEF Indexed

LEMMA WriteIndexInv ==
  ASSUME NEW r, Finishing(r), NEW form \in MetaForms, NEW m, NEW h,
         r.status => /\ Len(r.file) = FilterLen(r) + 2
                     /\ FilterIn(r, h) /\ MetaindexIn(r, m, h)
  PROVE  LET w == WriteIndex(r, form)
         IN  /\ RepType(w) /\ w.closed = r.closed
             /\ ~w.status => NoFooter(w)
             /\ w.status => /\ Indexed(w) /\ Len(Entries(w)) \in Nat /\ Len(w.file) = FilterLen(w) + 4
                            /\ FilterIn(w, h) /\ MetaindexIn(w, m, h) /\ IndexIn(w, Handle(r, form.size))
<1> DEFINE w == WriteIndex(r, form)
<1>0. r.status \in BOOLEAN
  BY DEF Finishing, RepType
<1>1. CASE ~r.status
  <2>1. w = r
    BY <1>1 DEF WriteIndex
  <2> QED BY <1>1, <2>1 DEF Finishing
<1>2. CASE r.status
  <2>1. PICK i : i = AddIndexEntry(r, Successor(r))
    OBVIOUS
  <2>2. w = WriteRawBlock(i, "index", form, i.index_block)
    BY <1>2, <2>1 DEF WriteIndex
  <2>3. /\ RepType(i) /\ Indexed(i) /\ i.closed = r.closed
        /\ i.filter_policy = r.filter_policy /\ i.filter_block = r.filter_block
        /\ i.file = r.file /\ i.offset = r.offset
        /\ Entries(i) = i.index_block /\ Len(Entries(i)) = Len(Entries(r)) /\ Len(Entries(r)) \in Nat
    BY <1>2, <2>1, LastEntryInv DEF Finishing
  <2> HIDE <2>1
  <2> HIDE DEF w
  <2>4. Good(i)
    BY <2>3 DEF Indexed
  <2>5. /\ RepType(w) /\ Kept(i, w)
        /\ ~w.status => NoFooter(w)
        /\ w.status =>
             /\ Good(w) /\ Entries(w) = Entries(i) /\ BlocksOf(w) = BlocksOf(i)
             /\ Longer(i.file, w.file) /\ Len(w.file) = Len(i.file) + 2
             /\ ChunkAt(w.file, Len(i.file) + 1, "index", Handle(i, form.size))
             /\ w.file[Len(i.file) + 1].contents = i.index_block
    BY <2>2, <2>3, <2>4, MetaFormsAre, WriteOther
  <2>6. w.closed = r.closed
    BY <2>3, <2>5 DEF Kept
  <2>7. ASSUME w.status
        PROVE  /\ Indexed(w) /\ Len(Entries(w)) \in Nat /\ Len(w.file) = FilterLen(w) + 4
               /\ FilterIn(w, h) /\ MetaindexIn(w, m, h) /\ IndexIn(w, Handle(r, form.size))
    <3>1. Indexed(w)
      BY <2>3, <2>5, <2>7 DEF Indexed, Matches, Kept
    <3>2. /\ w.filter_policy = r.filter_policy /\ w.filter_block = r.filter_block
          /\ Len(Entries(w)) = Len(Entries(r)) /\ Longer(r.file, w.file)
          /\ w.index_block = i.index_block /\ Len(w.file) = Len(r.file) + 2
      BY <2>3, <2>5, <2>7 DEF Kept
    <3>3. FilterLen(w) = FilterLen(r) /\ FilterIn(w, h) /\ MetaindexIn(w, m, h)
      BY <1>2, <3>2, BlocksBehindStay
    <3>4. FilterLen(r) \in Nat
      BY <2>3, FilterLenIs DEF Finishing
    <3>5. Len(r.file) + 1 = FilterLen(w) + 3 /\ Len(w.file) = FilterLen(w) + 4
      BY <1>2, <3>2, <3>3, <3>4
    <3>6. Handle(i, form.size) = Handle(r, form.size)
      BY <2>3 DEF Handle
    <3>7. IndexIn(w, Handle(r, form.size))
      BY <2>3, <2>5, <2>7, <3>2, <3>5, <3>6 DEF IndexIn
    <3> QED BY <2>3, <3>1, <3>2, <3>3, <3>5, <3>7
  <2> QED BY <2>5, <2>6, <2>7 DEF w
<1> QED BY <1>0, <1>1, <1>2

LEMMA WriteFooterInv ==
  ASSUME NEW r, RepType(r), ~r.status => NoFooter(r), NEW m, NEW i, NEW h,
         r.status => /\ Indexed(r) /\ Len(Entries(r)) \in Nat /\ Len(r.file) = FilterLen(r) + 4
                     /\ FilterIn(r, h) /\ MetaindexIn(r, m, h) /\ IndexIn(r, i)
  PROVE  LET w == WriteFooter(r, m, i)
         IN  /\ RepType(w) /\ w.closed = r.closed
             /\ ~w.status => NoFooter(w)
             /\ w.status => Good(w) /\ Finished(w)
<1> DEFINE w == WriteFooter(r, m, i)
<1>0. r.status \in BOOLEAN
  BY DEF RepType
<1>1. CASE ~r.status
  <2>1. w = r
    BY <1>1 DEF WriteFooter
  <2> QED BY <1>1, <2>1
<1>2. CASE r.status
  <2>1. PICK c : c = [metaindex |-> m, index |-> i]
    OBVIOUS
  <2>2. PICK a : a = AppendFile(r, "footer", 1, c)
    OBVIOUS
  <2>3. w = IF a.status THEN [a EXCEPT !.offset = a.offset + 1] ELSE a
    BY <1>2, <2>1, <2>2 DEF WriteFooter
  <2>4. /\ RepType(a) /\ Kept(r, a) /\ a.offset = r.offset
        /\ Len(a.file) = Len(r.file) + 1
        /\ \A j \in 1 .. Len(r.file) : a.file[j] = r.file[j]
        /\ a.status => /\ a.file[Len(r.file) + 1] = Chunk("footer", r.end, 1, c)
                       /\ a.end = r.end + 1
        /\ ~a.status => a.file[Len(r.file) + 1].kind = "torn"
    BY <2>2, AppendFileIs
  <2>5. a.status \in BOOLEAN
    BY <2>4 DEF RepType
  <2>6. CASE ~a.status
    <3>1. w = a
      BY <2>3, <2>6
    <3>2. NoFooter(a)
      BY <2>4, <2>6 DEF NoFooter
    <3> HIDE DEF w
    <3> QED BY <2>4, <2>6, <3>1, <3>2 DEF Kept, w
  <2>7. CASE a.status
    <3>1. w = [a EXCEPT !.offset = r.offset + 1] /\ IsRep(a)
      BY <2>3, <2>4, <2>7 DEF RepType
    <3>2. /\ IsRep(w) /\ Kept(a, w) /\ w.file = a.file /\ w.end = a.end /\ w.offset = r.offset + 1
          /\ w.calls = a.calls
      BY <3>1 DEF IsRep, Kept
    <3>3. w.status = a.status
      BY <3>1 DEF IsRep
    <3> HIDE DEF w
    <3>4. r.offset \in Nat /\ r.end = r.offset
      BY <1>2 DEF RepType, Indexed, Good
    <3>5. w.offset \in Nat /\ w.end = w.offset
      BY <2>4, <2>7, <3>2, <3>4
    <3>6. RepType(w) /\ Kept(r, w)
      BY <2>4, <3>2, <3>3, <3>5 DEF RepType, Kept
    <3>7. PICK f, g : f = r.file /\ g = w.file
      OBVIOUS
    <3>8. PICK n \in Nat, end \in Nat : n = Len(f) /\ end = r.end
      BY <3>4, <3>7, FileIs
    <3>9. /\ DOMAIN f = 1 .. n /\ DOMAIN g = 1 .. n + 1 /\ Len(g) = n + 1
          /\ \A j \in 1 .. n : g[j] = f[j]
          /\ g[n + 1] = Chunk("footer", end, 1, c)
      BY <2>4, <2>7, <3>2, <3>6, <3>7, <3>8, FileIs
    <3>10. /\ g[n + 1].kind = "footer" /\ g[n + 1].at = end /\ g[n + 1].size = 1
           /\ g[n + 1].contents = c
      BY <3>9 DEF Chunk
    <3>11. Longer(f, g)
      <4>1. \A j \in 1 .. n + 1 : j \in 1 .. n \/ j = n + 1
        OBVIOUS
      <4> QED BY <3>8, <3>9, <3>10, <4>1 DEF Longer
    <3>12. InOrder(g, end + 1)
      <4>1. InOrder(f, end)
        BY <1>2, <3>7, <3>8 DEF Indexed, Good
      <4> QED BY <3>9, <3>10, <4>1, InOrderAppend
    <3>13. w.end = end + 1
      BY <2>4, <2>7, <3>2, <3>8
    <3>14. Longer(r.file, w.file) /\ InOrder(w.file, w.end)
      BY <3>7, <3>11, <3>12, <3>13
    <3>15. Good(w) /\ Entries(w) = Entries(r) /\ BlocksOf(w) = BlocksOf(r)
      BY <1>2, <3>5, <3>6, <3>14, LongerIsGood DEF Indexed
    <3>16. /\ w.filter_policy = r.filter_policy /\ w.filter_block = r.filter_block
           /\ w.index_block = r.index_block
      BY <3>6 DEF Kept
    <3>17. FilterLen(w) = FilterLen(r) /\ FilterIn(w, h) /\ MetaindexIn(w, m, h) /\ IndexIn(w, i)
      BY <1>2, <3>14, <3>15, <3>16, BlocksBehindStay
    <3>18. FilterLen(r) \in Nat /\ n + 1 = FilterLen(w) + 5
      BY <1>2, <3>7, <3>8, <3>17, FilterLenIs
    <3>19. Matches(w) /\ ~w.pending_index_entry /\ w.data_block = {}
      BY <1>2, <3>6, <3>15, <3>16 DEF Indexed, Matches, Kept
    <3>20. /\ Len(w.file) = FilterLen(w) + 5 /\ w.file[FilterLen(w) + 5].kind = "footer"
           /\ w.file[FilterLen(w) + 5].contents = [metaindex |-> m, index |-> i]
      BY <2>1, <3>7, <3>9, <3>10, <3>18
    <3>21. Finished(w)
      BY <3>17, <3>19, <3>20 DEF Finished
    <3>22. w.closed = r.closed
      BY <3>6 DEF Kept
    <3> QED BY <2>7, <3>3, <3>6, <3>15, <3>21, <3>22 DEF w
  <2> QED BY <2>5, <2>6, <2>7
<1> QED BY <1>0, <1>1, <1>2

-----------------------------------------------------------------------------
(* The steps of the builder.                                               *)

RepInv(r) ==
  /\ RepType(r)
  /\ r.status => Good(r)
  /\ r.status /\ ~r.closed => Growing(r) /\ Growable(r)
  /\ ~r.status \/ ~r.closed => NoFooter(r)
  /\ ~NoFooter(r) => Finished(r)

BuilderInv == RepInv(rep)

LEMMA NoFooterYet ==
  ASSUME NEW r, RepType(r), Good(r), Growing(r), Growable(r)
  PROVE  NoFooter(r)
<1>1. r.pending_index_entry => r.last_key \in KeyPlace
  BY LastIsKey
<1>2. PICK n \in Nat : n = Len(Entries(r)) /\ DOMAIN Entries(r) = 1 .. n
  BY <1>1, EntriesAre
<1>3. Len(r.file) = 2 * n
  BY <1>2 DEF Growable
<1>4. CASE n = 0
  BY <1>3, <1>4 DEF NoFooter
<1>5. CASE n > 0
  <2>1. n \in DOMAIN Entries(r)
    BY <1>2, <1>5
  <2>2. r.file[2 * n].kind = "trailer"
    BY <2>1 DEF Good, BlocksIn
  <2> QED BY <1>3, <2>2 DEF NoFooter
<1> QED BY <1>4, <1>5

LEMMA BuilderInitInv == BuilderInit => BuilderInv
<1> SUFFICES ASSUME BuilderInit PROVE RepInv(rep)
  BY DEF BuilderInv
<1>1. PICK policy \in BOOLEAN, block_size \in BlockSize :
        rep = [filter_policy |-> policy,
               block_size |-> block_size,
               other_policy |-> FALSE,
               offset |-> 0, status |-> TRUE, closed |-> FALSE,
               data_block |-> {}, data_size |-> 0,
               last_key |-> 0,
               index_block |-> <<>>,
               pending_index_entry |-> FALSE, pending_handle |-> NoHandle,
               filter_block |-> NewFilterBlockBuilder,
               file |-> <<>>, end |-> 0, calls |-> 0,
               added |-> {}]
  BY DEF BuilderInit
<1>2. /\ rep.filter_policy = policy /\ rep.block_size = block_size /\ rep.offset = 0
      /\ rep.data_block = {} /\ rep.data_size = 0 /\ rep.last_key = 0 /\ rep.index_block = <<>>
      /\ rep.pending_handle = NoHandle /\ rep.filter_block = NewFilterBlockBuilder
      /\ rep.file = <<>> /\ rep.end = 0 /\ rep.calls = 0 /\ rep.added = {}
  BY <1>1
<1>3. /\ rep.status = TRUE /\ rep.closed = FALSE /\ rep.pending_index_entry = FALSE
      /\ rep.other_policy = FALSE
  BY <1>1
<1>4. IsRep(rep)
  BY <1>1 DEF IsRep
<1>5. PICK e : e = <<>>
  OBVIOUS
<1>6. e \in Seq(Entry) /\ Len(e) = 0 /\ DOMAIN e = {}
  BY <1>5
<1>7. IsSeq(e)
  BY <1>6 DEF IsSeq
<1>8. NoHandle \in [offset : Int, size : Int]
  BY DEF NoHandle
<1>9. NewFilterBlockBuilder = [filters |-> e, keys |-> {}]
  BY <1>5 DEF NewFilterBlockBuilder
<1>10. /\ rep.filter_block = [filters |-> rep.filter_block.filters, keys |-> rep.filter_block.keys]
       /\ rep.filter_block.filters = e /\ rep.filter_block.keys = {}
  BY <1>2, <1>9
<1>11. IsFiniteSet({})
  BY FS_EmptySet
<1>12. block_size \in Nat
  BY SizeAssumption
<1> HIDE <1>1
<1>13. RepType(rep)
  <2>1. IsSeq(rep.file) /\ rep.index_block \in Seq(Entry)
    BY <1>2, <1>5, <1>6, <1>7
  <2>2. rep.data_block \subseteq rep.added /\ rep.added \subseteq DataKey
    BY <1>2
  <2>3. IsSeq(rep.filter_block.filters) /\ IsFiniteSet(rep.filter_block.keys)
    BY <1>7, <1>10, <1>11
  <2>4. /\ rep.filter_policy \in BOOLEAN /\ rep.status \in BOOLEAN /\ rep.closed \in BOOLEAN
        /\ rep.pending_index_entry \in BOOLEAN /\ rep.other_policy \in BOOLEAN
    BY <1>2, <1>3
  <2>5. /\ rep.block_size \in Nat /\ rep.offset \in Nat /\ rep.data_size \in Nat
        /\ rep.last_key \in Nat /\ rep.end \in Nat /\ rep.calls \in Nat
    BY <1>2, <1>12
  <2>6. rep.pending_handle \in [offset : Int, size : Int]
    BY <1>2, <1>8
  <2> QED BY <1>4, <1>10, <2>1, <2>2, <2>3, <2>4, <2>5, <2>6 DEF RepType
<1>14. Entries(rep) = e /\ rep.file = e /\ rep.added = {} /\ rep.data_block = {}
  BY <1>2, <1>3, <1>5 DEF Entries
<1>15. Good(rep)
  BY <1>2, <1>3, <1>6, <1>14 DEF Good, Cut, BlocksIn, InOrder
<1>16. Growing(rep)
  BY <1>6, <1>14 DEF Growing, Running, FiltersFor
<1>17. Growable(rep)
  <2>1. 0 \div kFilterBase = 0
    BY FilterBaseAssumption
  <2> QED BY <1>2, <1>6, <1>10, <1>14, <2>1 DEF Growable
<1>18. NoFooter(rep)
  BY <1>6, <1>14 DEF NoFooter
<1> QED BY <1>13, <1>15, <1>16, <1>17, <1>18 DEF RepInv

(* Flush() from a Rep that a file without errors belongs to.               *)
LEMMA FlushRepInv ==
  ASSUME NEW r, RepType(r), r.status, ~r.closed, Good(r), Growing(r), Growable(r),
         NEW form \in Forms(r.data_size)
  PROVE  RepInv(FlushBlock(r, form)) /\ ~FlushBlock(r, form).closed
<1>1. PICK g : g = FlushBlock(r, form)
  OBVIOUS
<1>2. NoFooter(r)
  BY NoFooterYet
<1>3. /\ RepType(g) /\ g.closed = r.closed /\ NoFooter(g)
      /\ g.status => Good(g) /\ Growing(g) /\ Growable(g)
  BY <1>1, <1>2, FlushBlockInv
<1> QED BY <1>1, <1>3 DEF RepInv

LEMMA AddInv ==
  ASSUME NEW r, RepInv(r), ~r.closed, r.status, NEW key \in DataKey, key > r.last_key,
         NEW size \in EntrySize
  PROVE  /\ RepInv(AddEntry(r, key, size))
         /\ \A form \in Forms(AddEntry(r, key, size).data_size) :
              RepInv(FlushBlock(AddEntry(r, key, size), form))
<1>1. PICK a : a = AddEntry(r, key, size)
  OBVIOUS
<1>2. RepType(r) /\ Good(r) /\ Growing(r) /\ Growable(r)
  BY DEF RepInv
<1>3. r.last_key < key
  <2>1. r.last_key \in Nat /\ key \in Nat
    BY <1>2, KeysAre DEF RepType
  <2> QED BY <2>1
<1>4. /\ RepType(a) /\ Good(a) /\ Growing(a) /\ Growable(a)
      /\ a.status = r.status /\ a.closed = r.closed
  BY <1>1, <1>2, <1>3, AddEntryInv
<1>5. NoFooter(a)
  BY <1>4, NoFooterYet
<1>6. RepInv(a)
  BY <1>4, <1>5 DEF RepInv
<1>7. \A form \in Forms(a.data_size) : RepInv(FlushBlock(a, form))
  BY <1>4, FlushRepInv
<1> QED BY <1>1, <1>6, <1>7

(* A Rep that only becomes closed or gets other options.                   *)
WithOptions(r, c, b, o) == [r EXCEPT !.closed = c, !.block_size = b, !.other_policy = o]

LEMMA OptionInv ==
  ASSUME NEW r, RepType(r), NEW c \in BOOLEAN, NEW b \in Nat, NEW o \in BOOLEAN,
         NEW d, d = WithOptions(r, c, b, o)
  PROVE  /\ RepType(d) /\ d.closed = c /\ d.status = r.status /\ d.data_block = r.data_block
         /\ NoFooter(r) <=> NoFooter(d)
         /\ Good(r) => Good(d)
         /\ Growing(r) => Growing(d)
         /\ Growable(r) => Growable(d)
<1>1. d = [r EXCEPT !.closed = c, !.block_size = b, !.other_policy = o]
  BY DEF WithOptions
<1>2. IsRep(r)
  BY DEF RepType
<1>3. /\ IsRep(d) /\ d.file = r.file /\ d.end = r.end /\ d.offset = r.offset
      /\ d.added = r.added /\ d.last_key = r.last_key /\ d.filter_block = r.filter_block
      /\ d.index_block = r.index_block /\ d.block_size = b /\ d.calls = r.calls
      /\ d.data_block = r.data_block /\ d.data_size = r.data_size
      /\ d.pending_handle = r.pending_handle
  BY <1>1, <1>2 DEF IsRep
<1>b. d.other_policy = o
  BY <1>1, <1>2 DEF IsRep
<1>4. d.closed = c
  BY <1>1, <1>2 DEF IsRep
<1>5. d.status = r.status
  BY <1>1, <1>2 DEF IsRep
<1>6. d.pending_index_entry = r.pending_index_entry
  BY <1>1, <1>2 DEF IsRep
<1>7. d.filter_policy = r.filter_policy
  BY <1>1, <1>2 DEF IsRep
<1>8. RepType(d)
  BY <1>b, <1>3, <1>4, <1>5, <1>6, <1>7 DEF RepType
<1>9. Entries(d) = Entries(r)
  BY <1>3, <1>6 DEF Entries
<1>10. BlocksOf(d) = BlocksOf(r)
  BY <1>3, <1>9 DEF BlocksOf
<1>11. Good(r) => Good(d)
  BY <1>3, <1>6, <1>9, <1>10 DEF Good
<1>12. Growing(r) => Growing(d)
  BY <1>3, <1>7, <1>9, <1>10 DEF Growing
<1>13. Growable(r) => Growable(d)
  BY <1>3, <1>7, <1>9 DEF Growable
<1>14. NoFooter(r) <=> NoFooter(d)
  BY <1>3 DEF NoFooter
<1> QED BY <1>3, <1>4, <1>5, <1>8, <1>11, <1>12, <1>13, <1>14

LEMMA ClosedIs ==
  ASSUME NEW r, RepType(r)
  PROVE  [r EXCEPT !.closed = TRUE] = WithOptions(r, TRUE, r.block_size, r.other_policy)
<1>1. IsRep(r)
  BY DEF RepType
<1> QED BY <1>1 DEF IsRep, WithOptions

LEMMA FinishInv ==
  ASSUME NEW r, RepInv(r), ~r.closed, NEW form \in Forms(r.data_size),
         NEW meta_form \in MetaForms, NEW index_form \in MetaForms
  PROVE  LET data == [FlushBlock(r, form) EXCEPT !.closed = TRUE]
             filter == WriteFilter(data)
             meta == WriteMetaindex(filter, meta_form, Handle(data, 1))
             index == WriteIndex(meta, index_form)
         IN  RepInv(WriteFooter(index, Handle(filter, meta_form.size), Handle(meta, index_form.size)))
<1>0. RepType(r) /\ r.status \in BOOLEAN
  BY DEF RepInv, RepType
<1>1. PICK g : g = FlushBlock(r, form)
  OBVIOUS
<1>2. /\ RepType(g) /\ NoFooter(g)
      /\ g.status => Good(g) /\ Growing(g) /\ Growable(g) /\ g.data_block = {}
  <2>1. CASE r.status
    <3>1. Good(r) /\ Growing(r) /\ Growable(r) /\ NoFooter(r)
      BY <2>1 DEF RepInv
    <3> QED BY <1>0, <1>1, <2>1, <3>1, FlushBlockInv
  <2>2. CASE ~r.status
    <3>1. g = r
      BY <1>1, <2>2 DEF FlushBlock
    <3> QED BY <1>0, <2>2, <3>1 DEF RepInv
  <2> QED BY <1>0, <2>1, <2>2
<1>3. PICK data : data = [g EXCEPT !.closed = TRUE]
  OBVIOUS
<1>4. /\ RepType(data) /\ data.closed /\ NoFooter(data) /\ data.status = g.status
      /\ g.status => Good(data) /\ Growing(data) /\ Growable(data) /\ data.data_block = {}
  <2>1. PICK b \in Nat, o \in BOOLEAN : b = g.block_size /\ o = g.other_policy
    BY <1>2 DEF RepType
  <2>2. data = WithOptions(g, TRUE, b, o)
    BY <1>2, <1>3, <2>1, ClosedIs
  <2> HIDE <1>3
  <2>3. /\ RepType(data) /\ data.closed /\ data.status = g.status
        /\ data.data_block = g.data_block
        /\ NoFooter(g) <=> NoFooter(data)
        /\ Good(g) => Good(data)
        /\ Growing(g) => Growing(data)
        /\ Growable(g) => Growable(data)
    <3>1. PICK c \in BOOLEAN : c = TRUE
      OBVIOUS
    <3>2. RepType(g) /\ data = WithOptions(g, c, b, o)
      BY <1>2, <2>2, <3>1
    <3>3. /\ RepType(data) /\ data.closed = c /\ data.status = g.status
          /\ data.data_block = g.data_block
          /\ NoFooter(g) <=> NoFooter(data)
          /\ Good(g) => Good(data)
          /\ Growing(g) => Growing(data)
          /\ Growable(g) => Growable(data)
      BY ONLY c \in BOOLEAN, b \in Nat, o \in BOOLEAN, <3>2, OptionInv
    <3> QED BY <3>1, <3>3
  <2> QED BY <1>2, <2>3
<1>5. Finishing(data) /\ (data.status => Len(data.file) = 2 * Len(Entries(data)))
  BY <1>4 DEF Finishing, Growable
<1>6. PICK filter : filter = WriteFilter(data)
  OBVIOUS
<1>7. PICK h : h = Handle(data, 1)
  OBVIOUS
<1>8. /\ Finishing(filter) /\ filter.closed = data.closed
      /\ filter.status => Len(filter.file) = FilterLen(filter) /\ FilterIn(filter, h)
  BY <1>5, <1>6, <1>7, WriteFilterInv
<1>9. PICK meta : meta = WriteMetaindex(filter, meta_form, h)
  OBVIOUS
<1>10. PICK m : m = Handle(filter, meta_form.size)
  OBVIOUS
<1>11. /\ Finishing(meta) /\ meta.closed = filter.closed
       /\ meta.status => /\ Len(meta.file) = FilterLen(meta) + 2
                         /\ FilterIn(meta, h) /\ MetaindexIn(meta, m, h)
  BY <1>8, <1>9, <1>10, WriteMetaindexInv
<1>12. PICK index : index = WriteIndex(meta, index_form)
  OBVIOUS
<1>13. PICK i : i = Handle(meta, index_form.size)
  OBVIOUS
<1>14. /\ RepType(index) /\ index.closed = meta.closed
       /\ ~index.status => NoFooter(index)
       /\ index.status => /\ Indexed(index) /\ Len(Entries(index)) \in Nat
                          /\ Len(index.file) = FilterLen(index) + 4
                          /\ FilterIn(index, h) /\ MetaindexIn(index, m, h) /\ IndexIn(index, i)
  BY <1>11, <1>12, <1>13, WriteIndexInv
<1>15. PICK w : w = WriteFooter(index, m, i)
  OBVIOUS
<1>16. /\ RepType(w) /\ w.closed = index.closed
       /\ ~w.status => NoFooter(w)
       /\ w.status => Good(w) /\ Finished(w)
  BY <1>14, <1>15, WriteFooterInv
<1>17. w.closed /\ w.status \in BOOLEAN
  BY <1>4, <1>8, <1>11, <1>14, <1>16 DEF RepType
<1>18. RepInv(w)
  BY <1>16, <1>17 DEF RepInv
<1> QED BY <1>1, <1>3, <1>6, <1>7, <1>9, <1>10, <1>12, <1>13, <1>15, <1>18

LEMMA BuilderNextInv == BuilderInv /\ [BuilderNext]_builderVars => BuilderInv'
<1> SUFFICES ASSUME BuilderInv, [BuilderNext]_builderVars PROVE BuilderInv'
  OBVIOUS
<1>0. PICK r, w : r = rep /\ w = rep'
  OBVIOUS
<1>1. RepInv(r) /\ RepType(r)
  BY <1>0 DEF BuilderInv, RepInv
<1>2. RepInv(w) => BuilderInv'
  BY <1>0 DEF BuilderInv
<1>3. ASSUME NEW key \in DataKey, BuilderAdd(key) PROVE RepInv(w)
  <2>1. PICK size \in EntrySize :
          \/ \E form \in Forms(AddEntry(r, key, size).data_size) :
               w = FlushBlock(AddEntry(r, key, size), form)
          \/ w = AddEntry(r, key, size)
    BY <1>0, <1>3 DEF BuilderAdd
  <2>2. ~r.closed /\ r.status /\ key > r.last_key
    BY <1>0, <1>3 DEF BuilderAdd
  <2> HIDE <1>0
  <2> QED BY <1>1, <2>1, <2>2, AddInv
<1>4. ASSUME Flush PROVE RepInv(w)
  <2>1. PICK form \in Forms(r.data_size) : w = FlushBlock(r, form)
    BY <1>0, <1>4 DEF Flush
  <2>2. ~r.closed /\ r.status
    BY <1>0, <1>4 DEF Flush
  <2>3. Good(r) /\ Growing(r) /\ Growable(r)
    BY <1>1, <2>2 DEF RepInv
  <2> HIDE <1>0
  <2> QED BY <1>1, <2>1, <2>2, <2>3, FlushRepInv
<1>5. ASSUME Finish PROVE RepInv(w)
  <2>1. PICK form \in Forms(r.data_size), meta_form \in MetaForms, index_form \in MetaForms :
          LET data == [FlushBlock(r, form) EXCEPT !.closed = TRUE]
              filter == WriteFilter(data)
              meta == WriteMetaindex(filter, meta_form, Handle(data, 1))
              index == WriteIndex(meta, index_form)
          IN  w = WriteFooter(index, Handle(filter, meta_form.size), Handle(meta, index_form.size))
    BY <1>0, <1>5 DEF Finish
  <2>2. ~r.closed
    BY <1>0, <1>5 DEF Finish
  <2> HIDE <1>0
  <2> QED BY <1>1, <2>1, <2>2, FinishInv
<1>6. ASSUME NEW c \in BOOLEAN, NEW b \in Nat, NEW o \in BOOLEAN, ~r.closed,
             w = WithOptions(r, c, b, o)
      PROVE  RepInv(w)
  <2>1. /\ RepType(w) /\ w.status = r.status
        /\ NoFooter(r) <=> NoFooter(w)
        /\ Good(r) => Good(w)
        /\ Growing(r) => Growing(w)
        /\ Growable(r) => Growable(w)
    BY <1>1, <1>6, OptionInv
  <2>2. NoFooter(w)
    BY <1>1, <1>6, <2>1 DEF RepInv
  <2>3. w.status => Good(w) /\ Growing(w) /\ Growable(w)
    BY <1>1, <1>6, <2>1 DEF RepInv
  <2> HIDE <1>6
  <2> QED BY <2>1, <2>2, <2>3 DEF RepInv
<1>7. ASSUME Abandon PROVE RepInv(w)
  <2>1. ~r.closed /\ w = [r EXCEPT !.closed = TRUE]
    BY <1>0, <1>7 DEF Abandon
  <2>2. w = WithOptions(r, TRUE, r.block_size, r.other_policy)
    BY <1>1, <2>1, ClosedIs
  <2>3. r.block_size \in Nat /\ r.other_policy \in BOOLEAN
    BY <1>1 DEF RepType
  <2> QED BY <1>6, <2>1, <2>2, <2>3
<1>8. ASSUME ChangeOptions PROVE RepInv(w)
  <2>1. PICK b \in BlockSize, o \in BOOLEAN : w = [r EXCEPT !.block_size = b, !.other_policy = o]
    BY <1>0, <1>8 DEF ChangeOptions
  <2>2. ~r.closed /\ b \in Nat
    BY <1>0, <1>8, SizeAssumption DEF ChangeOptions
  <2>3. r.closed \in BOOLEAN /\ IsRep(r)
    BY <1>1 DEF RepType
  <2>4. r.closed = FALSE
    BY <2>2, <2>3
  <2>5. w = WithOptions(r, r.closed, b, o)
    BY <2>1, <2>3 DEF IsRep, WithOptions
  <2> QED BY <1>6, <2>2, <2>3, <2>5
<1>9. CASE UNCHANGED builderVars
  BY <1>0, <1>1, <1>2, <1>9 DEF builderVars
<1> QED BY <1>2, <1>3, <1>4, <1>5, <1>7, <1>8, <1>9 DEF BuilderNext

LEMMA BuilderInvariance == BuilderSpec => []BuilderInv
BY BuilderInitInv, BuilderNextInv, PTL DEF BuilderSpec

-----------------------------------------------------------------------------
(* What the invariant says of the readers.                                 *)

LEMMA IndexFollows == BuilderInv => IndexKeepsUp
<1> SUFFICES ASSUME BuilderInv, rep.status
             PROVE  /\ rep.offset = rep.end
                    /\ rep.pending_index_entry => rep.data_block = {}
                    /\ \A i \in Chunks("data") : \E j \in DOMAIN Entries(rep) :
                         /\ Entries(rep)[j].handle = [offset |-> file[i].at, size |-> file[i].size]
                         /\ \A k \in file[i].contents : k <= Entries(rep)[j].key
                         /\ \A k \in rep.added \ file[i].contents :
                              k > Entries(rep)[j].key \/ \A b \in file[i].contents : k < b
  BY DEF IndexKeepsUp, Entries
<1>1. RepType(rep) /\ Good(rep)
  BY DEF BuilderInv, RepInv
<1> SUFFICES ASSUME NEW i \in Chunks("data")
             PROVE  \E j \in DOMAIN Entries(rep) :
                      /\ Entries(rep)[j].handle = [offset |-> file[i].at, size |-> file[i].size]
                      /\ \A k \in file[i].contents : k <= Entries(rep)[j].key
                      /\ \A k \in rep.added \ file[i].contents :
                           k > Entries(rep)[j].key \/ \A b \in file[i].contents : k < b
  BY <1>1 DEF Good
<1>2. PICK E, B, D, A, f : /\ E = Entries(rep) /\ B = BlocksOf(rep) /\ D = rep.data_block
                           /\ A = rep.added /\ f = rep.file
  OBVIOUS
<1>3. Cut(E, B, D, A) /\ BlocksIn(E, f) /\ i \in DOMAIN f /\ f[i].kind = "data"
  BY <1>1, <1>2 DEF Good, Chunks, file
<1>4. PICK j \in DOMAIN E : i = 2 * j - 1
  BY <1>3 DEF BlocksIn
<1>5. f[i].contents = B[j] /\ f[i].at = E[j].handle.offset /\ f[i].size = E[j].handle.size
  BY <1>2, <1>3, <1>4 DEF BlocksIn, BlocksOf
<1>6. DOMAIN E \subseteq Nat /\ (\A l \in DOMAIN E : E[l].key \in Int)
      /\ E[j].handle \in [offset : Int, size : Int]
  <2>1. rep.index_block \in Seq(Entry) /\ rep.last_key \in Nat /\ rep.pending_handle \in [offset : Int, size : Int]
    BY <1>1 DEF RepType
  <2>2. PICK T : T = [key : Nat, handle : [offset : Int, size : Int]]
    OBVIOUS
  <2>3. Entry \subseteq T
    BY <2>2, KeysAre DEF Entry
  <2>4. rep.index_block \in Seq(T)
    BY <2>1, <2>3
  <2>5. [key |-> rep.last_key, handle |-> rep.pending_handle] \in T
    BY <2>1, <2>2
  <2>6. E \in Seq(T)
    BY <1>2, <2>4, <2>5 DEF Entries
  <2>7. \A l \in DOMAIN E : l \in Nat /\ E[l] \in T
    BY <2>6
  <2> QED BY <2>2, <2>7
<1>7. A \subseteq Nat
  BY <1>1, <1>2, KeysAre DEF RepType
<1>8. E[j].handle = [offset |-> f[i].at, size |-> f[i].size]
  BY <1>5, <1>6
<1>9. \A k \in B[j] : k <= E[j].key
  BY <1>3 DEF Cut
<1>10. ASSUME NEW k \in A, k \notin B[j] PROVE k > E[j].key \/ \A b \in B[j] : k < b
  <2>1. CASE k \in D
    BY <1>3, <1>6, <1>7, <2>1 DEF Cut
  <2>2. ASSUME NEW l \in DOMAIN E, k \in B[l] PROVE k > E[j].key \/ \A b \in B[j] : k < b
    <3>1. l # j
      BY <1>10, <2>2
    <3>2. CASE j < l
      BY <1>3, <1>6, <1>7, <2>2, <3>2 DEF Cut
    <3>3. CASE l < j
      <4>1. k <= E[l].key /\ B[j] \subseteq A /\ \A b \in B[j] : E[l].key < b
        BY <1>3, <2>2, <3>3 DEF Cut
      <4> QED BY <1>6, <1>7, <4>1
    <3> QED BY <1>6, <3>1, <3>2, <3>3
  <2>3. k \in D \/ \E l \in DOMAIN E : k \in B[l]
    BY <1>3 DEF Cut
  <2> QED BY <2>1, <2>2, <2>3
<1> QED BY <1>2, <1>5, <1>8, <1>9, <1>10 DEF file

(* While no write of TableBuilder failed, offset is the length of the      *)
(* file, and every block that Flush() wrote has its index entry or is the  *)
(* one of pending_index_entry, with a key at or after its own keys and     *)
(* before all keys added later.                                            *)
THEOREM IndexAlwaysKeepsUp == BuilderSpec => []IndexKeepsUp
BY BuilderInvariance, IndexFollows, PTL

(* A handle with a size leads to one chunk.                                *)
LEMMA AtIs ==
  ASSUME RepType(rep), Good(rep), NEW i, NEW kind, NEW h, ChunkAt(rep.file, i, kind, h)
  PROVE  /\ At(h) = i /\ Readable(h, kind)
         /\ Written(h) = rep.file[i].contents
<1>1. PICK f : f = rep.file
  OBVIOUS
<1>2. /\ i \in DOMAIN f /\ i + 1 \in DOMAIN f
      /\ f[i].kind = kind /\ f[i + 1].kind = "trailer"
      /\ f[i].at = h.offset /\ f[i].size = h.size /\ f[i].size > 0
  BY <1>1 DEF ChunkAt
<1>3. InOrder(f, rep.end) /\ DOMAIN f \subseteq Nat
  BY <1>1, FileIs DEF Good
<1>4. ASSUME NEW j \in DOMAIN f, f[j].at = h.offset, f[j].size = h.size PROVE j = i
  <2>1. /\ f[i].at \in Nat /\ f[i].size \in Nat
        /\ (i < j => f[i].at + f[i].size <= f[j].at)
        /\ (j < i => f[j].at + f[j].size <= f[i].at)
    BY <1>2, <1>3 DEF InOrder
  <2>2. ~(i < j) /\ ~(j < i)
    <3>1. PICK a \in Nat, s \in Nat : a = f[i].at /\ s = f[i].size
      BY <2>1
    <3> QED BY <1>2, <1>4, <2>1, <3>1
  <2> QED BY <1>2, <1>3, <2>2
<1>5. At(h) = i
  BY <1>1, <1>2, <1>4 DEF At, file
<1>6. Readable(h, kind)
  BY <1>1, <1>2 DEF Readable, Chunks, file
<1> QED BY <1>5, <1>6 DEF Written, file

(* What Table::Open() and the readers find in a file with a footer.        *)
LEMMA FooterFacts ==
  ASSUME BuilderInv, HasFooter
  PROVE  /\ RepType(rep) /\ Good(rep) /\ rep.status /\ rep.data_block = {} /\ Matches(rep)
         /\ Readable(Footer.index, "index") /\ Readable(Footer.metaindex, "metaindex")
         /\ index_block = rep.index_block /\ Entries(rep) = index_block
         /\ HasFilter \in BOOLEAN /\ (HasFilter => rep.filter_policy)
         /\ rep.filter_policy => /\ Readable(Written(Footer.metaindex).handle, "filter")
                                 /\ filters = FinishFilter(rep.filter_block)
         /\ \A j \in DOMAIN index_block :
              /\ Readable(index_block[j].handle, "data")
              /\ At(index_block[j].handle) = 2 * j - 1
              /\ Written(index_block[j].handle) = BlocksOf(rep)[j]
              /\ index_block[j].handle.offset <= Footer.metaindex.offset
<1>1. RepInv(rep) /\ RepType(rep)
  BY DEF BuilderInv, RepInv
<1>2. ~NoFooter(rep)
  <2>1. PICK S : rep.file \in Seq(S)
    BY <1>1 DEF RepType, IsSeq
  <2>2. rep.file # <<>> /\ rep.file[Len(rep.file)].kind = "footer"
    BY DEF HasFooter, file
  <2>3. Len(rep.file) # 0
    BY <2>1, <2>2, EmptySeq
  <2> QED BY <2>2, <2>3 DEF NoFooter
<1>3. rep.status /\ Good(rep) /\ Finished(rep)
  <2>1. rep.status \in BOOLEAN
    BY <1>1 DEF RepType
  <2> QED BY <1>1, <1>2, <2>1 DEF RepInv
<1>4. /\ ~rep.pending_index_entry /\ rep.data_block = {}
      /\ Len(rep.file) = FilterLen(rep) + 5 /\ Matches(rep)
  BY <1>3 DEF Finished
<1>5. PICK h, m, i :
        /\ FilterIn(rep, h) /\ MetaindexIn(rep, m, h) /\ IndexIn(rep, i)
        /\ rep.file[FilterLen(rep) + 5].contents = [metaindex |-> m, index |-> i]
  BY <1>3 DEF Finished
<1>6. Footer = [metaindex |-> m, index |-> i]
  BY <1>4, <1>5 DEF Footer, file
<1>7. Footer.metaindex = m /\ Footer.index = i
  BY <1>6
<1>8. PICK p : p = FilterLen(rep) + 3
  OBVIOUS
<1>9. PICK q : q = FilterLen(rep) + 1
  OBVIOUS
<1>10. ChunkAt(rep.file, p, "index", i) /\ rep.file[p].contents = rep.index_block
  BY <1>5, <1>8 DEF IndexIn
<1>11. Readable(Footer.index, "index") /\ index_block = rep.index_block
  BY <1>1, <1>3, <1>7, <1>10, AtIs DEF index_block
<1>12. PICK entered \in BOOLEAN :
         /\ ChunkAt(rep.file, q, "metaindex", m)
         /\ entered => rep.filter_policy
         /\ rep.file[q].contents = [filter |-> entered, handle |-> h]
  BY <1>5, <1>9 DEF MetaindexIn
<1>13. Readable(m, "metaindex") /\ Written(m) = [filter |-> entered, handle |-> h]
  BY <1>1, <1>3, <1>12, AtIs
<1>14. Written(m).handle = h
  BY <1>13
<1>15. Written(m).filter = entered
  BY <1>13
<1>16. HasFilter \in BOOLEAN /\ (HasFilter => rep.filter_policy)
  BY <1>7, <1>12, <1>15 DEF HasFilter
<1>17. ASSUME rep.filter_policy
       PROVE  Readable(Written(Footer.metaindex).handle, "filter") /\ filters = FinishFilter(rep.filter_block)
  <2>1. PICK l : l = 2 * Len(Entries(rep)) + 1
    OBVIOUS
  <2>2. ChunkAt(rep.file, l, "filter", h) /\ rep.file[l].contents = FinishFilter(rep.filter_block)
    BY <1>5, <1>17, <2>1 DEF FilterIn
  <2>3. Readable(h, "filter") /\ Written(h) = FinishFilter(rep.filter_block)
    BY <1>1, <1>3, <2>2, AtIs
  <2> QED BY <1>7, <1>14, <2>3 DEF filters
<1>18. Entries(rep) = rep.index_block
  BY <1>4 DEF Entries
<1>19. PICK E : E = rep.index_block /\ E = Entries(rep)
  BY <1>18
<1>20. DOMAIN E = 1 .. Len(E) /\ Len(E) \in Nat
  <2>1. E \in Seq(Entry)
    BY <1>1, <1>19 DEF RepType
  <2> QED BY <2>1
<1>21. ASSUME NEW j \in DOMAIN E
       PROVE  /\ Readable(E[j].handle, "data") /\ At(E[j].handle) = 2 * j - 1
              /\ Written(E[j].handle) = BlocksOf(rep)[j]
              /\ E[j].handle.offset <= m.offset
  <2>1. PICK f, l : f = rep.file /\ l = 2 * j - 1
    OBVIOUS
  <2>2. /\ l \in DOMAIN f /\ l + 1 \in DOMAIN f
        /\ f[l].kind = "data" /\ f[l + 1].kind = "trailer"
        /\ f[l].at = E[j].handle.offset /\ f[l].size = E[j].handle.size
        /\ f[l].size > 0
    <3>1. BlocksIn(E, f)
      BY <1>3, <1>19, <2>1 DEF Good
    <3>2. l + 1 = 2 * j
      BY <1>20, <2>1
    <3> QED BY <2>1, <3>1, <3>2 DEF BlocksIn
  <2>3. ChunkAt(rep.file, l, "data", E[j].handle)
    BY <2>1, <2>2 DEF ChunkAt
  <2>4. /\ Readable(E[j].handle, "data") /\ At(E[j].handle) = l
        /\ Written(E[j].handle) = f[l].contents
    BY <1>1, <1>3, <2>1, <2>3, AtIs
  <2>5. f[l].contents = BlocksOf(rep)[j]
    BY <1>19, <2>1 DEF BlocksOf
  <2>6. l < q
    <3>1. Len(E) \in Nat /\ j \in 1 .. Len(E)
      BY <1>20
    <3>2. q = 2 * Len(E) + 1 \/ q = 2 * Len(E) + 2 + 1
      BY <1>9, <1>19 DEF FilterLen
    <3> QED BY <2>1, <3>1, <3>2
  <2>7. f[q].at = m.offset /\ q \in DOMAIN f
    BY <1>12, <2>1 DEF ChunkAt
  <2>8. InOrder(f, rep.end)
    BY <1>3, <2>1 DEF Good
  <2>9. f[l].at <= f[q].at
    <3>1. /\ f[l].at \in Nat /\ f[l].size \in Nat /\ f[q].at \in Nat
          /\ f[l].at + f[l].size <= f[q].at
      BY <2>2, <2>6, <2>7, <2>8 DEF InOrder
    <3>2. PICK a \in Nat, s \in Nat, b \in Nat : a = f[l].at /\ s = f[l].size /\ b = f[q].at
      BY <3>1
    <3>3. a + s <= b
      BY <3>1, <3>2
    <3> QED BY <3>2, <3>3
  <2> QED BY <2>1, <2>2, <2>4, <2>5, <2>7, <2>9
<1> QED BY <1>1, <1>3, <1>4, <1>7, <1>11, <1>13, <1>16, <1>17, <1>19, <1>21

LEMMA WholeFollows == BuilderInv => TableWhole
<1> SUFFICES ASSUME BuilderInv, HasFooter
             PROVE  /\ rep.status
                    /\ Readable(Footer.index, "index") /\ Readable(Footer.metaindex, "metaindex")
                    /\ HasFilter => Readable(Written(Footer.metaindex).handle, "filter")
                    /\ \A i \in DOMAIN index_block : Readable(index_block[i].handle, "data")
                    /\ TwoLevel!WellFormed(Layout)
                    /\ UNION {Layout.block[i] : i \in 1 .. Layout.n} = rep.added
  BY DEF TableWhole
<1>1. PICK E, B, A : E = index_block /\ B = BlocksOf(rep) /\ A = rep.added
  OBVIOUS
<1>2. /\ RepType(rep) /\ Good(rep) /\ rep.status /\ rep.data_block = {}
      /\ Readable(Footer.index, "index") /\ Readable(Footer.metaindex, "metaindex")
      /\ E = rep.index_block /\ Entries(rep) = E
      /\ HasFilter => Readable(Written(Footer.metaindex).handle, "filter")
      /\ \A j \in DOMAIN E :
           /\ Readable(E[j].handle, "data") /\ Written(E[j].handle) = B[j]
  BY <1>1, FooterFacts
<1>3. E \in Seq(Entry)
  BY <1>2 DEF RepType
<1>4. PICK n \in Nat : n = Len(E) /\ DOMAIN E = 1 .. n
  BY <1>3
<1>5. \A j \in 1 .. n : E[j].key \in KeyPlace
  <2>1. \A j \in 1 .. n : E[j] \in Entry
    BY <1>3, <1>4
  <2> QED BY <2>1 DEF Entry
<1>6. A \subseteq KeyPlace /\ KeyPlace \subseteq Nat
  BY <1>1, <1>2, KeysAre DEF RepType
<1>7. Cut(E, B, {}, A)
  BY <1>1, <1>2 DEF Good
<1>8. PICK t : t = Layout
  OBVIOUS
<1>9. t = [n |-> n, block |-> [i \in 1 .. n |-> Written(E[i].handle)], sep |-> [i \in 1 .. n |-> E[i].key]]
  BY <1>1, <1>4, <1>8 DEF Layout
<1>10. t.n = n /\ t.block = [i \in 1 .. n |-> Written(E[i].handle)] /\ t.sep = [i \in 1 .. n |-> E[i].key]
  BY <1>9
<1> HIDE <1>9
<1>11. t.block = [i \in 1 .. n |-> B[i]]
  BY <1>2, <1>4, <1>10
<1>12. \A i \in 1 .. n : t.block[i] = B[i] /\ t.sep[i] = E[i].key
  BY <1>10, <1>11
<1>13. \A j \in 1 .. n : B[j] # {} /\ B[j] \subseteq A
  BY <1>4, <1>7 DEF Cut
<1>14. t.block \in [1 .. n -> SUBSET KeyPlace]
  BY <1>6, <1>11, <1>13
<1>15. t.sep \in [1 .. n -> KeyPlace]
  BY <1>5, <1>10
<1> HIDE <1>10, <1>11
<1>16. t.n = n
  BY <1>10
<1>17. \A i, j \in 1 .. n :
         /\ \A k \in t.block[i] : k <= t.sep[i]
         /\ i < j => t.sep[i] < t.sep[j] /\ \A k \in t.block[j] : t.sep[i] < k
  <2> SUFFICES ASSUME NEW i \in 1 .. n, NEW j \in 1 .. n
               PROVE  /\ \A k \in B[i] : k <= E[i].key
                      /\ i < j => E[i].key < E[j].key /\ \A k \in B[j] : E[i].key < k
    BY <1>12
  <2>1. \A k \in B[i] : k <= E[i].key
    BY <1>4, <1>7 DEF Cut
  <2>2. ASSUME i < j PROVE E[i].key < E[j].key /\ \A k \in B[j] : E[i].key < k
    <3>1. \A k \in B[j] : E[i].key < k /\ k <= E[j].key
      BY <1>4, <1>7, <2>2 DEF Cut
    <3>2. PICK k \in B[j] : k \in Nat
      BY <1>6, <1>13
    <3>3. E[i].key \in Nat /\ E[j].key \in Nat
      BY <1>5, <1>6
    <3> QED BY <3>1, <3>2, <3>3
  <2> QED BY <2>1, <2>2
<1>18. TwoLevel!WellFormed(t)
  BY <1>14, <1>15, <1>16, <1>17 DEF TwoLevel!WellFormed
<1>19. UNION {t.block[i] : i \in 1 .. n} = A
  <2>1. \A k \in A : \E j \in 1 .. n : k \in t.block[j]
    BY <1>4, <1>7, <1>12 DEF Cut
  <2>2. \A j \in 1 .. n : t.block[j] \subseteq A
    BY <1>12, <1>13
  <2> QED BY <2>1, <2>2
<1> QED BY <1>1, <1>2, <1>8, <1>16, <1>18, <1>19

(* If Finish() wrote a footer, every handle leads to a block of its kind,  *)
(* the index keys separate the data blocks and these hold all keys that    *)
(* Add() was given, whatever blocks were cut by Flush() and whichever      *)
(* call failed before.  Finish() leaves no footer behind an error that it  *)
(* returns.                                                                *)
THEOREM FinishedTableIsWhole == BuilderSpec => []TableWhole
BY BuilderInvariance, WholeFollows, PTL

-----------------------------------------------------------------------------
(* Lookups.                                                                *)

LEMMA LeastIs ==
  ASSUME NEW S \in SUBSET Nat, S # {}
  PROVE  Least(S) \in S /\ \A j \in S : Least(S) <= j
<1>1. \E k \in S : \A j \in S : k <= j
  BY LeastNatural
<1> QED BY <1>1 DEF Least

LEMMA LeastUnique ==
  ASSUME NEW S \in SUBSET Nat, NEW m \in S, \A j \in S : m <= j
  PROVE  Least(S) = m
<1>1. Least(S) \in S /\ \A j \in S : Least(S) <= j
  BY LeastIs
<1>2. Least(S) <= m /\ m <= Least(S) /\ Least(S) \in Nat /\ m \in Nat
  BY <1>1
<1> QED BY <1>2

(* The index entries of a table with a footer, with their blocks.          *)
IsTable(E, B, A) ==
  /\ Cut(E, B, {}, A) /\ A \subseteq KeyPlace
  /\ E \in Seq(Entry) /\ DOMAIN E \subseteq Nat \ {0}
  /\ \A j \in DOMAIN E : E[j].key \in KeyPlace /\ B[j] \subseteq A

LEMMA FooterTable ==
  ASSUME BuilderInv, HasFooter
  PROVE  IsTable(index_block, BlocksOf(rep), rep.added)
<1>1. PICK E, B, A : E = index_block /\ B = BlocksOf(rep) /\ A = rep.added
  OBVIOUS
<1>2. RepType(rep) /\ Good(rep) /\ rep.data_block = {} /\ E = rep.index_block /\ Entries(rep) = E
  BY <1>1, FooterFacts
<1>3. E \in Seq(Entry)
  BY <1>2 DEF RepType
<1>4. DOMAIN E \subseteq Nat \ {0} /\ \A j \in DOMAIN E : E[j] \in Entry
  BY <1>3
<1>5. \A j \in DOMAIN E : E[j].key \in KeyPlace
  BY <1>4 DEF Entry
<1>6. A \subseteq KeyPlace
  BY <1>1, <1>2, KeysAre DEF RepType
<1>7. Cut(E, B, {}, A)
  BY <1>1, <1>2 DEF Good
<1>8. \A j \in DOMAIN E : B[j] \subseteq A
  BY <1>7 DEF Cut
<1> QED BY <1>1, <1>3, <1>4, <1>5, <1>6, <1>7, <1>8 DEF IsTable

(* Seek() in the index block.                                              *)
LEMMA IndexSeekIs ==
  ASSUME NEW E, E = index_block, NEW B, NEW A, IsTable(E, B, A), NEW k \in KeyPlace
  PROVE  /\ IndexSeek(k) = NULL => \A i \in DOMAIN E : E[i].key < k
         /\ IndexSeek(k) # NULL => /\ IndexSeek(k) \in DOMAIN E /\ E[IndexSeek(k)].key >= k
                                   /\ \A i \in DOMAIN E : E[i].key >= k => IndexSeek(k) <= i
<1>1. PICK S : S = {i \in DOMAIN E : E[i].key >= k}
  OBVIOUS
<1>2. IndexSeek(k) = Least(S)
  BY <1>1 DEF IndexSeek
<1>3. S \in SUBSET Nat /\ 0 \notin S /\ k \in Nat /\ \A i \in DOMAIN E : E[i].key \in Nat
  BY <1>1, KeysAre DEF IsTable
<1>4. CASE S = {}
  <2>1. IndexSeek(k) = NULL
    BY <1>2, <1>4 DEF Least
  <2> QED BY <1>1, <1>3, <1>4, <2>1
<1>5. CASE S # {}
  <2>1. Least(S) \in S /\ \A j \in S : Least(S) <= j
    BY <1>3, <1>5, LeastIs
  <2>2. IndexSeek(k) # NULL
    BY <1>2, <1>3, <2>1 DEF NULL
  <2> QED BY <1>1, <1>2, <2>1, <2>2
<1> QED BY <1>4, <1>5

(* The index leads a key that was added to its block.                      *)
LEMMA IndexSeekFinds ==
  ASSUME NEW E, E = index_block, NEW B, NEW A, IsTable(E, B, A), NEW b \in DOMAIN E, NEW k \in B[b]
  PROVE  IndexSeek(k) = b /\ IndexSeek(k) # NULL
<1>1. k \in KeyPlace /\ Cut(E, B, {}, A) /\ k \in Nat /\ b \in Nat
  BY KeysAre DEF IsTable
<1>2. E[b].key >= k /\ E[b].key \in Nat
  BY <1>1, KeysAre DEF Cut, IsTable
<1>3. PICK s : s = IndexSeek(k)
  OBVIOUS
<1>4. /\ s = NULL => \A i \in DOMAIN E : E[i].key < k
      /\ s # NULL => /\ s \in DOMAIN E /\ E[s].key >= k
                     /\ \A i \in DOMAIN E : E[i].key >= k => s <= i
  BY <1>1, <1>3, IndexSeekIs
<1>5. s # NULL
  BY <1>1, <1>2, <1>4
<1>6. s \in DOMAIN E /\ s \in Nat /\ s <= b /\ E[s].key >= k /\ E[s].key \in Nat
  BY <1>2, <1>4, <1>5, KeysAre DEF IsTable
<1>7. ~(s < b)
  <2> SUFFICES ASSUME s < b PROVE FALSE
    OBVIOUS
  <2>1. E[s].key < k
    BY <1>1, <1>6 DEF Cut
  <2> QED BY <1>1, <1>6, <2>1
<1> QED BY <1>1, <1>3, <1>5, <1>6, <1>7

(* The filter rules out the block at h for k.                              *)
RuledOut(h, k) ==
  rep.filter_policy /\ HasFilter /\ ~KeyMayMatch(filters, h.offset, IKey[k])

(* InternalGet() where no block that it reads is compressed.               *)
LEMMA InternalGetIs ==
  ASSUME NEW k, ReadsRaw(k), NEW s, s = IndexSeek(k), s # NULL, NEW h, h = index_block[s].handle,
         NEW b, b = Written(h)
  PROVE  InternalGet(k) = IF RuledOut(h, k) THEN {NULL} ELSE {Least({j \in b : j >= k})}
<1>1. IndexRead /\ IsRaw(h) /\ (rep.filter_policy => IsRaw(Footer.metaindex))
  BY DEF ReadsRaw
<1>2. ReadBlock(h, SUBSET DataKey) = {b}
  BY <1>1 DEF ReadBlock
<1>3. PICK S : S = {Least({j \in b : j >= k})}
  OBVIOUS
<1>4. BlockSeek(h, k) = S
  BY <1>2, <1>3 DEF BlockSeek
<1>5. InternalGet(k) = UNION {IF matches THEN S ELSE {NULL} : matches \in MayMatch(h, k)}
  BY <1>1, <1>4 DEF InternalGet
<1>6. CASE RuledOut(h, k)
  <2>1. MayMatch(h, k) = {FALSE}
    <3>1. (~HasFilter \/ KeyMayMatch(filters, h.offset, IKey[k])) = FALSE
      BY <1>6 DEF RuledOut
    <3> QED BY <1>1, <1>6, <3>1 DEF MayMatch, RuledOut
  <2> QED BY <1>5, <1>6, <2>1
<1>7. CASE ~RuledOut(h, k)
  <2>1. MayMatch(h, k) = {TRUE}
    <3>1. CASE ~rep.filter_policy
      BY <3>1 DEF MayMatch
    <3>2. CASE rep.filter_policy
      <4>1. (~HasFilter \/ KeyMayMatch(filters, h.offset, IKey[k])) = TRUE
        BY <1>7, <3>2 DEF RuledOut
      <4> QED BY <1>1, <3>2, <4>1 DEF MayMatch
    <3> QED BY <3>1, <3>2
  <2> QED BY <1>3, <1>5, <1>7, <2>1
<1> QED BY <1>6, <1>7

(* A key behind all entries of the index is behind all keys of the table.  *)
LEMMA NothingBehind ==
  ASSUME NEW E, E = index_block, NEW B, NEW A, IsTable(E, B, A), NEW k \in KeyPlace,
         IndexSeek(k) = NULL
  PROVE  \A j \in A : ~(j >= k)
<1> SUFFICES ASSUME NEW j \in A PROVE ~(j >= k)
  OBVIOUS
<1>1. \A i \in DOMAIN E : E[i].key < k
  BY IndexSeekIs
<1>2. PICK b \in DOMAIN E : j \in B[b]
  BY DEF IsTable, Cut
<1>3. j <= E[b].key
  BY <1>2 DEF IsTable, Cut
<1>4. j \in Nat /\ k \in Nat /\ E[b].key \in Nat
  BY KeysAre DEF IsTable
<1> QED BY <1>1, <1>3, <1>4

LEMMA LookupAnswers ==
  ASSUME BuilderInv, HasFooter, NEW k \in KeyPlace, ReadsRaw(k), IndexSeek(k) # NULL, NEW seen,
         seen = {j \in rep.added : IKey[j].user_key = IKey[k].user_key /\ j >= k}
  PROVE  IF seen # {} THEN InternalGet(k) = {Least(seen)}
         ELSE \A j \in InternalGet(k) : j # NULL => IKey[j].user_key # IKey[k].user_key
<1>1. PICK E, B, A : E = index_block /\ B = BlocksOf(rep) /\ A = rep.added
  OBVIOUS
<1>2. IsTable(E, B, A)
  BY <1>1, FooterTable
<1>3. /\ Matches(rep) /\ Entries(rep) = E
      /\ rep.filter_policy => filters = FinishFilter(rep.filter_block)
      /\ \A j \in DOMAIN E : Written(E[j].handle) = B[j]
  BY <1>1, FooterFacts
<1>4. PICK s : s = IndexSeek(k)
  OBVIOUS
<1>5. /\ s \in DOMAIN E /\ E[s].key >= k
      /\ \A i \in DOMAIN E : E[i].key >= k => s <= i
  BY <1>1, <1>2, <1>4, IndexSeekIs
<1>6. PICK h : h = E[s].handle
  OBVIOUS
<1>7. PICK g : g = {j \in B[s] : j >= k}
  OBVIOUS
<1>8. InternalGet(k) = IF RuledOut(h, k) THEN {NULL} ELSE {Least(g)}
  <2>1. Written(h) = B[s]
    BY <1>3, <1>5, <1>6
  <2> QED BY <1>1, <1>4, <1>6, <1>7, <2>1, InternalGetIs
<1>9. /\ A \subseteq KeyPlace /\ KeyPlace \subseteq Nat /\ k \in Nat /\ 0 \notin KeyPlace
      /\ B[s] \subseteq A /\ E[s].key \in KeyPlace /\ DOMAIN E \subseteq Nat
      /\ Cut(E, B, {}, A)
  BY <1>2, <1>5, KeysAre DEF IsTable
<1>10. g \in SUBSET Nat
  BY <1>7, <1>9
<1>11. CASE seen = {}
  <2> SUFFICES ASSUME NEW j \in InternalGet(k), j # NULL PROVE IKey[j].user_key # IKey[k].user_key
    BY <1>11
  <2>1. j = Least(g)
    BY <1>8
  <2>2. g # {}
    BY <2>1 DEF Least
  <2>3. j \in g
    BY <1>10, <2>1, <2>2, LeastIs
  <2>4. j \in A /\ j >= k
    BY <1>7, <1>9, <2>3
  <2> QED BY <1>1, <1>11, <2>4
<1>12. CASE seen # {}
  <2>1. seen \in SUBSET Nat
    BY <1>1, <1>9
  <2>2. PICK m : m = Least(seen)
    OBVIOUS
  <2>3. m \in seen /\ \A j \in seen : m <= j
    BY <1>12, <2>1, <2>2, LeastIs
  <2>4. m \in A /\ m \in KeyPlace /\ m \in Nat /\ k <= m /\ IKey[m].user_key = IKey[k].user_key
    BY <1>1, <1>9, <2>3
  <2>5. ASSUME NEW j \in A, j >= k PROVE j >= m
    <3> SUFFICES ASSUME j < m PROVE FALSE
      BY <1>9, <2>4
    <3>1. IKey[j].user_key = IKey[k].user_key
      <4>1. j \in KeyPlace /\ k <= j /\ j <= m
        BY <1>9, <2>4, <2>5
      <4> QED BY <2>4, <4>1, SameUserBetween
    <3>2. j \in seen
      BY <1>1, <2>5, <3>1
    <3> QED BY <1>9, <2>3, <2>4, <3>2
  <2>6. PICK b \in DOMAIN E : m \in B[b]
    BY <1>9, <2>4 DEF Cut
  <2>7. s = b
    <3>1. E[b].key >= m /\ E[b].key \in KeyPlace
      BY <1>2, <1>9, <2>6, <2>4, KeysAre DEF Cut, IsTable
    <3>2. E[b].key >= k
      <4>1. E[b].key \in Nat
        BY <1>9, <3>1
      <4> QED BY <1>9, <2>4, <3>1, <4>1
    <3>3. s <= b
      BY <1>5, <2>6, <3>2
    <3>4. ~(s < b)
      <4> SUFFICES ASSUME s < b PROVE FALSE
        OBVIOUS
      <4>1. E[s].key < m
        BY <1>5, <1>9, <2>6 DEF Cut
      <4>2. E[s].key \notin A
        <5>1. E[s].key \in Nat
          BY <1>9
        <5>2. E[s].key \in A => E[s].key >= m
          BY <1>5, <2>5
        <5> QED BY <2>4, <4>1, <5>1, <5>2
      <4>3. UserBefore(E[s].key, m)
        BY <1>5, <1>9, <2>4, <4>1, <4>2 DEF Cut
      <4>4. k <= E[s].key
        BY <1>5, <1>9
      <4>5. ~UserBefore(E[s].key, k)
        BY <1>9, <4>4, UserKeysInOrder
      <4> QED BY <2>4, <4>3, <4>5 DEF UserBefore
    <3> QED BY <1>5, <1>9, <2>6, <3>3, <3>4
  <2>8. ~RuledOut(h, k)
    <3> SUFFICES ASSUME rep.filter_policy PROVE KeyMayMatch(filters, h.offset, IKey[k])
      BY DEF RuledOut
    <3>1. KeyMayMatch(filters, h.offset, IKey[m])
      BY <1>1, <1>3, <1>6, <2>6, <2>7 DEF Matches
    <3> QED BY <2>4, <3>1 DEF KeyMayMatch, InternalMayMatch, ExtractUserKey
  <2>9. m \in g /\ \A j \in g : m <= j
    BY <1>7, <1>9, <2>4, <2>5, <2>6, <2>7
  <2>10. Least(g) = m
    BY <1>10, <2>9, LeastUnique
  <2> QED BY <1>8, <1>12, <2>2, <2>8, <2>10
<1> QED BY <1>11, <1>12

LEMMA OffsetsInOrder ==
  ASSUME BuilderInv, HasFooter, NEW i \in DOMAIN index_block, NEW j \in DOMAIN index_block, i <= j
  PROVE  /\ index_block[i].handle.offset <= index_block[j].handle.offset
         /\ index_block[i].handle.offset <= Footer.metaindex.offset
         /\ index_block[i].handle.offset \in Nat
<1>1. PICK E, f : E = index_block /\ f = rep.file
  OBVIOUS
<1>2. Good(rep) /\ Entries(rep) = E /\ E[i].handle.offset <= Footer.metaindex.offset
  BY <1>1, FooterFacts
<1>3. BlocksIn(E, f) /\ InOrder(f, rep.end)
  BY <1>1, <1>2 DEF Good
<1>4. /\ 2 * i - 1 \in DOMAIN f /\ 2 * j - 1 \in DOMAIN f
      /\ f[2 * i - 1].at = E[i].handle.offset /\ f[2 * j - 1].at = E[j].handle.offset
  BY <1>1, <1>3 DEF BlocksIn
<1>5. i \in Nat /\ j \in Nat
  BY FooterTable DEF IsTable
<1>6. PICK p, q : p = 2 * i - 1 /\ q = 2 * j - 1
  OBVIOUS
<1>7. p = q \/ p < q
  BY <1>5, <1>6
<1>8. f[p].at \in Nat /\ f[p].size \in Nat /\ f[q].at \in Nat /\ (p < q => f[p].at + f[p].size <= f[q].at)
  BY <1>3, <1>4, <1>6 DEF InOrder
<1>9. PICK a \in Nat, s \in Nat, b \in Nat : a = f[p].at /\ s = f[p].size /\ b = f[q].at
  BY <1>8
<1>10. a <= b
  BY <1>7, <1>8, <1>9
<1> QED BY <1>1, <1>2, <1>4, <1>6, <1>9, <1>10

LEMMA FooterOffset ==
  ASSUME BuilderInv, HasFooter
  PROVE  Footer.metaindex.offset \in Nat
<1>1. PICK h : h = Footer.metaindex
  OBVIOUS
<1>2. Good(rep) /\ Readable(h, "metaindex")
  BY <1>1, FooterFacts
<1>3. PICK i \in DOMAIN rep.file : rep.file[i].at = h.offset
  BY <1>2 DEF Readable, Chunks, file
<1>4. rep.file[i].at \in Nat
  BY <1>2 DEF Good, InOrder
<1> QED BY <1>1, <1>3, <1>4

LEMMA LookupsFollow == BuilderInv => LookupsAnswer
<1> SUFFICES ASSUME BuilderInv, HasFooter PROVE
      /\ \A u \in IUserKey, snapshot \in 0 .. kMaxSequenceNumber :
           ReadsRaw(PlaceOf(LookupKey(u, snapshot))) => Answers(u, snapshot)
      /\ IndexRead =>
           /\ \A k \in rep.added : \E i \in Chunks("data") :
                k \in file[i].contents /\ ApproximateOffsetOf(k) = {file[i].at}
           /\ \A k \in KeyPlace : k + 1 \in KeyPlace =>
                \A a \in ApproximateOffsetOf(k), b \in ApproximateOffsetOf(k + 1) : a <= b
  BY DEF LookupsAnswer
<1>1. PICK E, B, A : E = index_block /\ B = BlocksOf(rep) /\ A = rep.added
  OBVIOUS
<1>2. IsTable(E, B, A)
  BY <1>1, FooterTable
<1>3. ASSUME NEW u \in IUserKey, NEW snapshot \in 0 .. kMaxSequenceNumber,
             ReadsRaw(PlaceOf(LookupKey(u, snapshot)))
      PROVE  Answers(u, snapshot)
  <2>a. PICK k : k = PlaceOf(LookupKey(u, snapshot))
    OBVIOUS
  <2>b. PICK seen : seen = {j \in rep.added : IKey[j].user_key = u /\ j >= k}
    OBVIOUS
  <2>1. PICK i \in KeyPlace : IKey[i].user_key = u
    BY DEF IUserKey
  <2>2. \E l \in KeyPlace : IKey[l] = LookupKey(u, snapshot)
    BY <2>1, IKeyAssumption
  <2>3. k \in KeyPlace /\ IKey[k] = LookupKey(u, snapshot)
    BY <2>a, <2>2, PlaceOfIs
  <2>4. IKey[k].user_key = u
    BY <2>3 DEF LookupKey, InternalKey
  <2>5. seen = {j \in rep.added : IKey[j].user_key = IKey[k].user_key /\ j >= k}
    BY <2>b, <2>4
  <2>6. ReadsRaw(k) /\ IndexRead
    BY <1>3, <2>a DEF ReadsRaw
  <2>7. IF seen # {} THEN InternalGet(k) = {Least(seen)}
        ELSE \A j \in InternalGet(k) : j # NULL => IKey[j].user_key # u
    <3>1. CASE IndexSeek(k) = NULL
      <4>1. InternalGet(k) = {NULL}
        BY <2>6, <3>1 DEF InternalGet
      <4>2. seen = {}
        BY <1>1, <1>2, <2>b, <2>3, <3>1, NothingBehind
      <4> QED BY <4>1, <4>2
    <3>2. CASE IndexSeek(k) # NULL
      BY <2>3, <2>4, <2>5, <2>6, <3>2, LookupAnswers
    <3> QED BY <3>1, <3>2
  <2> QED BY <2>a, <2>b, <2>7 DEF Answers
<1>4. ASSUME IndexRead, NEW k \in A
      PROVE  \E i \in Chunks("data") : k \in file[i].contents /\ ApproximateOffsetOf(k) = {file[i].at}
  <2>1. PICK b \in DOMAIN E : k \in B[b]
    BY <1>2 DEF IsTable, Cut
  <2>2. IndexSeek(k) = b /\ IndexSeek(k) # NULL
    BY <1>1, <1>2, <2>1, IndexSeekFinds
  <2>3. ApproximateOffsetOf(k) = {E[b].handle.offset}
    BY <1>1, <1>4, <2>2 DEF ApproximateOffsetOf
  <2>4. Good(rep) /\ Entries(rep) = E
    BY <1>1, FooterFacts
  <2>5. PICK i : i = 2 * b - 1
    OBVIOUS
  <2>6. i \in DOMAIN rep.file /\ rep.file[i].kind = "data" /\ rep.file[i].at = E[b].handle.offset
    BY <2>1, <2>4, <2>5 DEF Good, BlocksIn
  <2>7. B[b] = rep.file[i].contents
    BY <1>1, <2>4, <2>5 DEF BlocksOf
  <2>8. i \in Chunks("data") /\ k \in file[i].contents /\ ApproximateOffsetOf(k) = {file[i].at}
    BY <2>1, <2>3, <2>6, <2>7 DEF Chunks, file
  <2> QED BY <2>8
<1>5. ASSUME IndexRead, NEW k \in KeyPlace, k + 1 \in KeyPlace
      PROVE  \A a \in ApproximateOffsetOf(k), b \in ApproximateOffsetOf(k + 1) : a <= b
  <2>1. PICK l \in KeyPlace : l = k + 1
    BY <1>5
  <2>2. PICK s, t : s = IndexSeek(k) /\ t = IndexSeek(l)
    OBVIOUS
  <2>3. /\ s = NULL => \A i \in DOMAIN E : E[i].key < k
        /\ s # NULL => /\ s \in DOMAIN E /\ E[s].key >= k
                       /\ \A i \in DOMAIN E : E[i].key >= k => s <= i
    BY <1>1, <1>2, <2>2, IndexSeekIs
  <2>4. /\ t = NULL => \A i \in DOMAIN E : E[i].key < l
        /\ t # NULL => /\ t \in DOMAIN E /\ E[t].key >= l
                       /\ \A i \in DOMAIN E : E[i].key >= l => t <= i
    BY <1>1, <1>2, <2>2, IndexSeekIs
  <2>5. k \in Nat /\ l \in Nat /\ \A i \in DOMAIN E : E[i].key \in Nat
    BY <1>2, KeysAre DEF IsTable
  <2>6. CASE s = NULL
    <3>1. t = NULL
      <4> SUFFICES ASSUME t # NULL PROVE FALSE
        OBVIOUS
      <4>1. t \in DOMAIN E /\ E[t].key >= l /\ E[t].key < k /\ E[t].key \in Nat
        BY <2>3, <2>4, <2>5, <2>6
      <4> QED BY <2>1, <2>5, <4>1
    <3>2. /\ ApproximateOffsetOf(k) = {Footer.metaindex.offset}
          /\ ApproximateOffsetOf(l) = {Footer.metaindex.offset}
      BY <1>5, <2>2, <2>6, <3>1 DEF ApproximateOffsetOf
    <3>3. Footer.metaindex.offset \in Nat
      BY FooterOffset
    <3> QED BY <2>1, <3>2, <3>3
  <2>7. CASE s # NULL /\ t = NULL
    <3>1. /\ ApproximateOffsetOf(k) = {E[s].handle.offset}
          /\ ApproximateOffsetOf(l) = {Footer.metaindex.offset}
      BY <1>1, <1>5, <2>2, <2>7 DEF ApproximateOffsetOf
    <3>2. s <= s
      BY <1>2, <2>3, <2>7 DEF IsTable
    <3>3. E[s].handle.offset <= Footer.metaindex.offset
      BY <1>1, <2>3, <2>7, <3>2, OffsetsInOrder
    <3> QED BY <2>1, <3>1, <3>3
  <2>8. CASE s # NULL /\ t # NULL
    <3>1. ApproximateOffsetOf(k) = {E[s].handle.offset} /\ ApproximateOffsetOf(l) = {E[t].handle.offset}
      BY <1>1, <1>5, <2>2, <2>8 DEF ApproximateOffsetOf
    <3>2. E[t].key >= k
      BY <2>1, <2>4, <2>5, <2>8
    <3>3. s <= t
      BY <2>3, <2>4, <2>8, <3>2
    <3>4. E[s].handle.offset <= E[t].handle.offset
      BY <1>1, <2>3, <2>4, <2>8, <3>3, OffsetsInOrder
    <3> QED BY <2>1, <3>1, <3>4
  <2> QED BY <2>6, <2>7, <2>8
<1> QED BY <1>1, <1>3, <1>4, <1>5

(* In a finished table InternalGet() passes on the newest entry of the     *)
(* user key that the snapshot sees or no entry of that key, for any hash   *)
(* of the bloom filter and any separators, if none of the blocks it reads  *)
(* is compressed: index, data and, with a filter policy, metaindex.  If    *)
(* the index block is not, ApproximateOffsetOf() gives the block of a key  *)
(* and grows with the key.                                                 *)
THEOREM TableLookupsAnswer == BuilderSpec => []LookupsAnswer
BY BuilderInvariance, LookupsFollow, PTL
=============================================================================
