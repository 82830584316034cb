------------------------------ MODULE SkipList ------------------------------
(***************************************************************************)
(* db/skiplist.h: one writer thread inserts, any number of reader threads  *)
(* iterate without a lock.  Every load or store of a next_[] pointer that  *)
(* another thread can observe is one atomic step.                          *)
(*                                                                         *)
(* A node is named by its key: Insert() requires that no equal key is in   *)
(* the list, so keys and addresses correspond.                             *)
(*                                                                         *)
(* Memory order.  There is one writer, so its stores have one order.  An   *)
(* acquire load that returns a release store makes every earlier store     *)
(* visible, hence the loads of one reader see the list at instants that    *)
(* never go back, which is what an interleaving of loads and stores gives. *)
(* max_height_ is loaded relaxed: the value may be older or newer than the *)
(* links the reader sees, so a search may start on any level.              *)
(***************************************************************************)
EXTENDS Integers

CONSTANTS Key,          \* keys that may be inserted
          Reader,       \* reader threads
          Writer,       \* the externally synchronised inserting thread
          kMaxHeight    \* the enum of line 99, 12 in the code

ASSUME KeyAssumption == Key \subseteq Nat \ {0}
ASSUME ThreadAssumption == Writer \notin Reader
ASSUME HeightAssumption == kMaxHeight \in Nat \ {0}

VARIABLES
  next_,        \* next_[n][l]: the link of node n on level l
  max_height_,  \* the writer's own, exact view of max_height_
  node_,        \* node_[r]: the node reader r's Iterator stands on
  found,        \* found[r]: what r's last Contains() returned
  pc,           \* pc[t]: the function thread t is in
  x,            \* x[t]: the local x of a search
  level,        \* level[t]: the local level of a search, i in Insert's loop
  target,       \* target[t]: the key argument of the search
  prev,         \* the local prev[] of Insert()
  height        \* the local height of Insert()

vars == <<next_, max_height_, node_, found, pc, x, level, target, prev, height>>
searchVars == <<x, level, target, pc>>
insertVars == <<max_height_, prev, height>>

nullptr == -1
uninit == -2        \* what arena memory holds before the first store
head_ == 0          \* "any key will do": below every key, never compared

Level == 0 .. kMaxHeight - 1
Node == Key \cup {head_}
Thread == Reader \cup {Writer}

ReaderSearch == {"Seek", "Contains", "Prev", "SeekToLast"}
WriterStage == {"Insert", "link", "publish"}
Searching(t) == pc[t] \in ReaderSearch \cup {"Insert"}

TypeOK ==
  /\ next_ \in [Node -> [Level -> Key \cup {nullptr, uninit}]]
  /\ max_height_ \in 1 .. kMaxHeight
  /\ node_ \in [Reader -> Key \cup {nullptr}]
  /\ found \in [Reader -> BOOLEAN]
  /\ pc \in [Thread -> ReaderSearch \cup WriterStage \cup {"idle"}]
  /\ pc[Writer] \in WriterStage \cup {"idle"}
  /\ \A r \in Reader : pc[r] \in ReaderSearch \cup {"idle"}
  /\ x \in [Thread -> Node]
  /\ level \in [Thread -> Level]
  /\ target \in [Thread -> Node]
  /\ prev \in [Level -> Node]
  /\ height \in 1 .. kMaxHeight

-----------------------------------------------------------------------------
(* The constructor has returned: every link of head_ is nullptr.           *)
Init ==
  /\ next_ = [n \in Node |->
                [l \in Level |-> IF n = head_ THEN nullptr ELSE uninit]]
  /\ max_height_ = 1
  /\ node_ = [r \in Reader |-> nullptr]
  /\ found = [r \in Reader |-> FALSE]
  /\ pc = [t \in Thread |-> "idle"]
  /\ x = [t \in Thread |-> head_]
  /\ level = [t \in Thread |-> 0]
  /\ target = [t \in Thread |-> head_]
  /\ prev = [l \in Level |-> head_]
  /\ height = 1

-----------------------------------------------------------------------------
(* The search loop of FindGreaterOrEqual, FindLessThan and FindLast: the   *)
(* three differ only in when they move on along a level.                   *)

KeyIsAfterNode(key, n) == n # nullptr /\ n < key

StartSearch(t, fn, key, l) ==
  /\ pc[t] = "idle"
  /\ pc' = [pc EXCEPT ![t] = fn]
  /\ x' = [x EXCEPT ![t] = head_]
  /\ level' = [level EXCEPT ![t] = l]
  /\ target' = [target EXCEPT ![t] = key]

LoadNext(t) == next_[x[t]][level[t]]

MovesOn(t) ==
  IF pc[t] = "SeekToLast" THEN LoadNext(t) # nullptr
                          ELSE KeyIsAfterNode(target[t], LoadNext(t))

(* x = next                                                                *)
FollowLink(t) ==
  /\ Searching(t)
  /\ MovesOn(t)
  /\ x' = [x EXCEPT ![t] = LoadNext(t)]
  /\ UNCHANGED <<next_, node_, found, pc, level, target, insertVars>>

(* Mutant: the predecessor found on a level is not recorded.               *)
DropLevelNoPrev(t) ==
  /\ Searching(t) /\ ~MovesOn(t) /\ level[t] > 0
  /\ level' = [level EXCEPT ![t] = @ - 1]
  /\ UNCHANGED <<next_, node_, found, pc, x, target, insertVars>>

(* Mutant: level-- is forgotten.                                           *)
DropLevelStuck(t) ==
  /\ Searching(t) /\ ~MovesOn(t) /\ level[t] > 0
  /\ prev' = IF t = Writer THEN [prev EXCEPT ![level[t]] = x[t]] ELSE prev
  /\ UNCHANGED <<next_, node_, found, pc, x, level, target, max_height_, height>>

(* "Switch to next list"; Insert's search records prev[level].             *)
DropLevel(t) ==
  /\ Searching(t)
  /\ ~MovesOn(t)
  /\ level[t] > 0
  /\ level' = [level EXCEPT ![t] = @ - 1]
  /\ prev' = IF t = Writer THEN [prev EXCEPT ![level[t]] = x[t]] ELSE prev
  /\ UNCHANGED <<next_, node_, found, pc, x, target, max_height_, height>>

(* The load after which the search returns.                                *)
AtEnd(t) == ~MovesOn(t) /\ level[t] = 0

-----------------------------------------------------------------------------
(* Iterator and Contains().                                                *)

ReaderFrame == UNCHANGED <<next_, insertVars>>

IterSeekToFirst(r) ==
  /\ pc[r] = "idle"
  /\ node_' = [node_ EXCEPT ![r] = next_[head_][0]]
  /\ UNCHANGED <<found, searchVars>> /\ ReaderFrame

IterNext(r) ==
  /\ pc[r] = "idle"
  /\ node_[r] # nullptr
  /\ node_' = [node_ EXCEPT ![r] = next_[node_[r]][0]]
  /\ UNCHANGED <<found, searchVars>> /\ ReaderFrame

(* Seek(k), Contains(k), Prev() and SeekToLast() start with the relaxed    *)
(* load of max_height_.                                                    *)
StartRead(r) ==
  /\ \E l \in Level :
       \/ \E k \in Key, fn \in {"Seek", "Contains"} : StartSearch(r, fn, k, l)
       \/ node_[r] # nullptr /\ StartSearch(r, "Prev", node_[r], l)
       \/ StartSearch(r, "SeekToLast", head_, l)
  /\ UNCHANGED <<node_, found>> /\ ReaderFrame

Return(t) == pc' = [pc EXCEPT ![t] = "idle"] /\ UNCHANGED <<x, level, target>>

(* Seek() returns next, the earliest node at or after the target.          *)
SeekReturns(r) ==
  /\ pc[r] = "Seek" /\ AtEnd(r)
  /\ node_' = [node_ EXCEPT ![r] = LoadNext(r)]
  /\ Return(r) /\ UNCHANGED found /\ ReaderFrame

(* Mutant: any node at or after the key counts as found.                   *)
ContainsAnything(r) ==
  /\ pc[r] = "Contains" /\ AtEnd(r)
  /\ found' = [found EXCEPT ![r] = LoadNext(r) # nullptr]
  /\ Return(r) /\ UNCHANGED node_ /\ ReaderFrame

ContainsReturns(r) ==
  /\ pc[r] = "Contains" /\ AtEnd(r)
  /\ found' = [found EXCEPT ![r] = LoadNext(r) = target[r]]
  /\ Return(r) /\ UNCHANGED node_ /\ ReaderFrame

(* Prev() and SeekToLast() return x; head_ becomes nullptr.                *)
BackwardReturns(r) ==
  /\ pc[r] \in {"Prev", "SeekToLast"} /\ AtEnd(r)
  /\ node_' = [node_ EXCEPT ![r] = IF x[r] = head_ THEN nullptr ELSE x[r]]
  /\ Return(r) /\ UNCHANGED found /\ ReaderFrame

-----------------------------------------------------------------------------
(* Insert().                                                               *)

(* REQUIRES: nothing that compares equal to key is in the list.            *)
StartInsert(k) ==
  /\ next_[k][0] = uninit
  /\ StartSearch(Writer, "Insert", k, max_height_ - 1)
  /\ UNCHANGED <<next_, node_, found, insertVars>>

(* Any height may come out of RandomHeight().                              *)
RandomHeight == 1 .. kMaxHeight

(* Mutant: RandomHeight() may exceed kMaxHeight by one.                    *)
ChooseHeightTooTall(h) ==
  /\ pc[Writer] = "Insert" /\ AtEnd(Writer)
  /\ height' = h + 1
  /\ prev' = [l \in Level |-> IF l = 0 THEN x[Writer]
                              ELSE IF l >= max_height_ THEN head_ ELSE prev[l]]
  /\ max_height_' = IF h > max_height_ THEN h ELSE max_height_
  /\ pc' = [pc EXCEPT ![Writer] = "link"]
  /\ UNCHANGED <<next_, node_, found, x, level, target>>

(* The search ends, the new node gets height h, levels above max_height_ get   *)
(* head_ as predecessor, max_height_ is raised, the node is allocated.     *)
ChooseHeight(h) ==
  /\ pc[Writer] = "Insert" /\ AtEnd(Writer)
  /\ height' = h
  /\ prev' = [l \in Level |-> IF l = 0 THEN x[Writer]
                              ELSE IF l >= max_height_ /\ l < h THEN head_
                              ELSE prev[l]]
  /\ max_height_' = IF h > max_height_ THEN h ELSE max_height_
  /\ pc' = [pc EXCEPT ![Writer] = "link"]
  /\ UNCHANGED <<next_, node_, found, x, level, target>>

(* Mutant: the successor is taken from level 0 on every level.             *)
LinkNodeLevel0 ==
  LET i == level[Writer]
  IN  /\ pc[Writer] = "link"
      /\ next_' = [next_ EXCEPT ![target[Writer]][i] = next_[prev[i]][0]]
      /\ pc' = [pc EXCEPT ![Writer] = "publish"]
      /\ UNCHANGED <<node_, found, x, level, target, insertVars>>

(* Mutant: the node is published before its own link is set.               *)
LinkNodeForgotten ==
  /\ pc[Writer] = "link"
  /\ pc' = [pc EXCEPT ![Writer] = "publish"]
  /\ UNCHANGED <<next_, node_, found, x, level, target, insertVars>>

(* x->NoBarrier_SetNext(i, prev[i]->NoBarrier_Next(i)): no reader can see  *)
(* this store before the next one.                                         *)
LinkNode ==
  LET i == level[Writer]
      k == target[Writer]
  IN  /\ pc[Writer] = "link"
      /\ next_' = [next_ EXCEPT ![k][i] = next_[prev[i]][i]]
      /\ pc' = [pc EXCEPT ![Writer] = "publish"]
      /\ UNCHANGED <<node_, found, x, level, target, insertVars>>

(* prev[i]->SetNext(i, x), then the next level or the end of Insert().     *)
PublishNode ==
  LET i == level[Writer]
      k == target[Writer]
      more == i + 1 < height
  IN  /\ pc[Writer] = "publish"
      /\ next_' = [next_ EXCEPT ![prev[i]][i] = k]
      /\ level' = [level EXCEPT ![Writer] = IF more THEN i + 1 ELSE i]
      /\ pc' = [pc EXCEPT ![Writer] = IF more THEN "link" ELSE "idle"]
      /\ UNCHANGED <<node_, found, x, target, insertVars>>

-----------------------------------------------------------------------------
Search(t) == FollowLink(t) \/ DropLevel(t)

ReaderReturns(r) == SeekReturns(r) \/ ContainsReturns(r) \/ BackwardReturns(r)

ReaderNext(r) ==
  \/ IterSeekToFirst(r) \/ IterNext(r) \/ StartRead(r)
  \/ Search(r) \/ ReaderReturns(r)

WriterNext ==
  \/ \E k \in Key : StartInsert(k)
  \/ Search(Writer)
  \/ \E h \in RandomHeight : ChooseHeight(h)
  \/ LinkNode \/ PublishNode

Next == WriterNext \/ \E r \in Reader : ReaderNext(r)

(* A reader that runs gets on with the call it is in.  Nothing is assumed  *)
(* of the writer: it may stop for ever between two stores.                 *)
Fairness == \A r \in Reader : WF_vars(Search(r) \/ ReaderReturns(r))

Spec == Init /\ [][Next]_vars
FairSpec == Spec /\ Fairness

-----------------------------------------------------------------------------
(* The nodes that level l's links lead to, and head_.                      *)
Published(l) ==
  {n \in Node : /\ next_[n][l] # uninit
                /\ ~(pc[Writer] = "publish" /\ n = target[Writer] /\ l = level[Writer])}

(* Every level is the ascending chain of exactly its published nodes, and  *)
(* each level's nodes are on all levels below.  In particular a node       *)
(* half inserted on level l already separates its neighbours on the levels *)
(* below l (Insert() links bottom up, lines 394-401), so that a search may *)
(* drop from it.                                                           *)
ChainsExact ==
  \A l \in Level :
    /\ head_ \in Published(l)
    /\ \A j \in Level : j < l => Published(l) \subseteq Published(j)
    /\ \A n \in Published(l) :
         /\ next_[n][l] \in (Published(l) \ {head_}) \cup {nullptr}
         /\ next_[n][l] # nullptr => n < next_[n][l]
         /\ \A m \in Published(l) :
              n < m => next_[n][l] # nullptr /\ next_[n][l] <= m

(* No thread ever loads a link that was not stored first: the node a       *)
(* search stands on is as high as the level it searches, although readers  *)
(* take the starting level from a max_height_ of another instant (the race *)
(* argued for at lines 382-388), and an iterator stands on a node whose    *)
(* level 0 link is set.                                                    *)
LoadsInitialized ==
  /\ \A t \in Thread : Searching(t) => x[t] \in Published(level[t])
  /\ \A r \in Reader : node_[r] # nullptr => node_[r] \in Published(0)

(* prev[l] is the last node of level l before the key being inserted.      *)
IsPosition(l) ==
  /\ prev[l] \in Published(l)
  /\ prev[l] < target[Writer]
  /\ next_[prev[l]][l] # nullptr => target[Writer] < next_[prev[l]][l]

(* The asserts of Insert (line 373, no equal key in the list) and of       *)
(* FindLessThan (line 309, x stays before the key), with what Insert's     *)
(* search must deliver: prev[i] is the last node before key on each level  *)
(* still to be linked.                                                     *)
InsertPositions ==
  /\ \A t \in Thread :
       Searching(t) /\ pc[t] # "SeekToLast" => x[t] = head_ \/ x[t] < target[t]
  /\ pc[Writer] \in {"link", "publish"} =>
       \A l \in level[Writer] .. height - 1 : IsPosition(l)

(* SkipList implements OrderedSet: an insertion takes effect at the store  *)
(* that publishes the node on level 0, a read at the last load of its      *)
(* search, whatever the writer does in between.                            *)
Set == INSTANCE OrderedSet WITH
         keys <- Published(0) \ {head_}, cursor <- node_, found <- found,
         call <- [r \in Reader |-> pc[r]], arg <- [r \in Reader |-> target[r]],
         noKey <- head_

ImplementsOrderedSet == Set!Spec

(* "Reads progress without any internal locking or synchronization": every *)
(* call of a reader returns even if the writer stops in the middle of an   *)
(* insertion.                                                              *)
ReadsReturn == \A r \in Reader : Searching(r) ~> pc[r] = "idle"
=============================================================================
