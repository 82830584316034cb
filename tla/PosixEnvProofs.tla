--------------------------- MODULE PosixEnvProofs ---------------------------
(***************************************************************************)
(* The parts of PosixEnv that threads share, and the file that it must not *)
(* lose: what LockFile() and UnlockFile() guarantee for any number of      *)
(* processes and threads, what BackgroundWork promises for any clients and *)
(* any number of items, and that CURRENT is whole after any crash, for     *)
(* every set of manifests and files.                                       *)
(***************************************************************************)
EXTENDS FileLock, BackgroundWork, CurrentFile, TLAPS

-----------------------------------------------------------------------------
(* File locks.                                                             *)

LockInv == LockTypeOK /\ TableExact /\ LockHasHolder

LEMMA LockInitInv == LockInit => LockInv
BY ProcessAssumption DEF LockInit, LockInv, LockTypeOK, Stage, TableExact, Named, LockHasHolder

LEMMA LockTypeStep ==
  ASSUME LockInv, [LockNext]_lockVars
  PROVE  LockTypeOK'
<1> USE DEF LockInv, LockTypeOK, Stage, MoveTo, close, Drop
<1>1. ASSUME NEW p \in Process, NEW t \in Caller, OpenFile(p, t) PROVE LockTypeOK'
  BY <1>1 DEF OpenFile
<1>2. ASSUME NEW p \in Process, NEW t \in Caller, InsertName(p, t) PROVE LockTypeOK'
  BY <1>2 DEF InsertName
<1>3. ASSUME NEW p \in Process, NEW t \in Caller, CloseBusy(p, t) PROVE LockTypeOK'
  BY <1>3 DEF CloseBusy
<1>4. ASSUME NEW p \in Process, NEW t \in Caller, SetLock(p, t) PROVE LockTypeOK'
  BY <1>4 DEF SetLock
<1>5. ASSUME NEW p \in Process, NEW t \in Caller, SetLockFails(p, t) PROVE LockTypeOK'
  BY <1>5 DEF SetLockFails
<1>6. ASSUME NEW p \in Process, NEW t \in Caller, CloseRefused(p, t) PROVE LockTypeOK'
  BY <1>6 DEF CloseRefused
<1>7. ASSUME NEW p \in Process, NEW t \in Caller, RemoveRefused(p, t) PROVE LockTypeOK'
  BY <1>7 DEF RemoveRefused
<1>8. ASSUME NEW p \in Process, NEW t \in Caller, ClearLock(p, t) PROVE LockTypeOK'
  BY <1>8 DEF ClearLock
<1>9. ASSUME NEW p \in Process, NEW t \in Caller, RemoveName(p, t) PROVE LockTypeOK'
  BY <1>9 DEF RemoveName
<1>10. ASSUME NEW p \in Process, NEW t \in Caller, CloseUnlocked(p, t) PROVE LockTypeOK'
  BY <1>10 DEF CloseUnlocked
<1>11. ASSUME NEW p \in Process, Exit(p) PROVE LockTypeOK'
  BY <1>11 DEF Exit
<1>12. CASE UNCHANGED lockVars
  BY <1>12 DEF lockVars
<1> QED
  BY <1>1, <1>2, <1>3, <1>4, <1>5, <1>6, <1>7, <1>8, <1>9, <1>10, <1>11, <1>12, ThreadsAssumption DEF LockNext, Step

(* The name goes into the table with the thread that found it absent, and  *)
(* leaves it with the same thread.                                         *)
LEMMA TableStep ==
  ASSUME LockInv, [LockNext]_lockVars
  PROVE  TableExact'
<1> USE DEF LockInv, LockTypeOK, Stage, Named, TableExact, MoveTo
<1>1. ASSUME NEW p \in Process, NEW t \in Caller, OpenFile(p, t) PROVE TableExact'
  BY <1>1 DEF OpenFile
<1>2. ASSUME NEW p \in Process, NEW t \in Caller, InsertName(p, t) PROVE TableExact'
  BY <1>2 DEF InsertName
<1>3. ASSUME NEW p \in Process, NEW t \in Caller, CloseBusy(p, t) PROVE TableExact'
  BY <1>3 DEF CloseBusy
<1>4. ASSUME NEW p \in Process, NEW t \in Caller, SetLock(p, t) PROVE TableExact'
  BY <1>4 DEF SetLock
<1>5. ASSUME NEW p \in Process, NEW t \in Caller, SetLockFails(p, t) PROVE TableExact'
  BY <1>5 DEF SetLockFails
<1>6. ASSUME NEW p \in Process, NEW t \in Caller, CloseRefused(p, t) PROVE TableExact'
  BY <1>6 DEF CloseRefused
<1>7. ASSUME NEW p \in Process, NEW t \in Caller, RemoveRefused(p, t) PROVE TableExact'
  BY <1>7 DEF RemoveRefused
<1>8. ASSUME NEW p \in Process, NEW t \in Caller, ClearLock(p, t) PROVE TableExact'
  BY <1>8 DEF ClearLock
<1>9. ASSUME NEW p \in Process, NEW t \in Caller, RemoveName(p, t) PROVE TableExact'
  BY <1>9 DEF RemoveName
<1>10. ASSUME NEW p \in Process, NEW t \in Caller, CloseUnlocked(p, t) PROVE TableExact'
  BY <1>10 DEF CloseUnlocked
<1>11. ASSUME NEW p \in Process, Exit(p) PROVE TableExact'
  BY <1>11 DEF Exit
<1>12. CASE UNCHANGED lockVars
  BY <1>12 DEF lockVars
<1> QED
  BY <1>1, <1>2, <1>3, <1>4, <1>5, <1>6, <1>7, <1>8, <1>9, <1>10, <1>11, <1>12, ThreadsAssumption DEF LockNext, Step

LEMMA HolderStep ==
  ASSUME LockInv, [LockNext]_lockVars
  PROVE  LockHasHolder'
<1> USE ProcessAssumption DEF LockInv, LockTypeOK, Stage, LockHasHolder, MoveTo, close, Drop
<1>1. ASSUME NEW p \in Process, NEW t \in Caller, OpenFile(p, t) PROVE LockHasHolder'
  BY <1>1 DEF OpenFile
<1>2. ASSUME NEW p \in Process, NEW t \in Caller, InsertName(p, t) PROVE LockHasHolder'
  BY <1>2 DEF InsertName
<1>3. ASSUME NEW p \in Process, NEW t \in Caller, CloseBusy(p, t) PROVE LockHasHolder'
  BY <1>3 DEF CloseBusy
<1>4. ASSUME NEW p \in Process, NEW t \in Caller, SetLock(p, t) PROVE LockHasHolder'
  BY <1>4 DEF SetLock
<1>5. ASSUME NEW p \in Process, NEW t \in Caller, SetLockFails(p, t) PROVE LockHasHolder'
  BY <1>5 DEF SetLockFails
<1>6. ASSUME NEW p \in Process, NEW t \in Caller, CloseRefused(p, t) PROVE LockHasHolder'
  BY <1>6 DEF CloseRefused
<1>7. ASSUME NEW p \in Process, NEW t \in Caller, RemoveRefused(p, t) PROVE LockHasHolder'
  BY <1>7 DEF RemoveRefused
<1>8. ASSUME NEW p \in Process, NEW t \in Caller, ClearLock(p, t) PROVE LockHasHolder'
  BY <1>8 DEF ClearLock
<1>9. ASSUME NEW p \in Process, NEW t \in Caller, RemoveName(p, t) PROVE LockHasHolder'
  BY <1>9 DEF RemoveName
<1>10. ASSUME NEW p \in Process, NEW t \in Caller, CloseUnlocked(p, t) PROVE LockHasHolder'
  BY <1>10 DEF CloseUnlocked
<1>11. ASSUME NEW p \in Process, Exit(p) PROVE LockHasHolder'
  BY <1>11 DEF Exit
<1>12. CASE UNCHANGED lockVars
  BY <1>12 DEF lockVars
<1> QED
  BY <1>1, <1>2, <1>3, <1>4, <1>5, <1>6, <1>7, <1>8, <1>9, <1>10, <1>11, <1>12, ThreadsAssumption DEF LockNext, Step

LEMMA LockInvAlways == LockSpec => []LockInv
<1>1. LockInv /\ [LockNext]_lockVars => LockInv'
  BY LockTypeStep, TableStep, HolderStep DEF LockInv
<1> QED BY LockInitInv, <1>1, PTL DEF LockSpec

(* The lock table admits one thread of a process at a time, and its entry  *)
(* lives exactly as long as that thread's use of the lock.                 *)
THEOREM TableAlwaysExact == LockSpec => []TableExact
BY LockInvAlways, PTL DEF LockInv

(* A record lock always has a thread that holds it.                        *)
THEOREM NoAbandonedLock == LockSpec => []LockHasHolder
BY LockInvAlways, PTL DEF LockInv

-----------------------------------------------------------------------------
(* Closing a descriptor drops a lock that some thread of the process may   *)
(* still hold; if there is only one thread, it is the one that closes.     *)
LEMMA SoleThreadStep ==
  ASSUME LockTypeOK, SoleThreadKeepsLock, [LockNext]_lockVars
  PROVE  SoleThreadKeepsLock'
<1> USE ProcessAssumption, ThreadsAssumption DEF LockTypeOK, Stage, SoleThreadKeepsLock, MoveTo, close, Drop, Lockable
<1>1. ASSUME NEW p \in Process, NEW t \in ThreadsOf[p], OpenFile(p, t) PROVE SoleThreadKeepsLock'
  BY <1>1 DEF OpenFile
<1>2. ASSUME NEW p \in Process, NEW t \in ThreadsOf[p], InsertName(p, t) PROVE SoleThreadKeepsLock'
  BY <1>2 DEF InsertName
<1>3. ASSUME NEW p \in Process, NEW t \in ThreadsOf[p], CloseBusy(p, t) PROVE SoleThreadKeepsLock'
  BY <1>3 DEF CloseBusy
<1>4. ASSUME NEW p \in Process, NEW t \in ThreadsOf[p], SetLock(p, t) PROVE SoleThreadKeepsLock'
  BY <1>4 DEF SetLock
<1>5. ASSUME NEW p \in Process, NEW t \in ThreadsOf[p], SetLockFails(p, t) PROVE SoleThreadKeepsLock'
  BY <1>5 DEF SetLockFails
<1>6. ASSUME NEW p \in Process, NEW t \in ThreadsOf[p], CloseRefused(p, t) PROVE SoleThreadKeepsLock'
  BY <1>6 DEF CloseRefused
<1>7. ASSUME NEW p \in Process, NEW t \in ThreadsOf[p], RemoveRefused(p, t) PROVE SoleThreadKeepsLock'
  BY <1>7 DEF RemoveRefused
<1>8. ASSUME NEW p \in Process, NEW t \in ThreadsOf[p], ClearLock(p, t) PROVE SoleThreadKeepsLock'
  BY <1>8 DEF ClearLock
<1>9. ASSUME NEW p \in Process, NEW t \in ThreadsOf[p], RemoveName(p, t) PROVE SoleThreadKeepsLock'
  BY <1>9 DEF RemoveName
<1>10. ASSUME NEW p \in Process, NEW t \in ThreadsOf[p], CloseUnlocked(p, t) PROVE SoleThreadKeepsLock'
  BY <1>10 DEF CloseUnlocked
<1>11. ASSUME NEW p \in Process, Exit(p) PROVE SoleThreadKeepsLock'
  BY <1>11 DEF Exit
<1>12. CASE UNCHANGED lockVars
  BY <1>12 DEF lockVars
<1> QED
  BY <1>1, <1>2, <1>3, <1>4, <1>5, <1>6, <1>7, <1>8, <1>9, <1>10, <1>11, <1>12 DEF LockNext, Step

(* A process in which a single thread uses the lock keeps it: the others   *)
(* can only drop their own.                                                *)
THEOREM SoleThreadAlwaysKeepsLock == LockSpec => []SoleThreadKeepsLock
<1>1. LockInit => SoleThreadKeepsLock
  BY DEF LockInit, SoleThreadKeepsLock
<1>2. LockTypeOK /\ SoleThreadKeepsLock /\ [LockNext]_lockVars => SoleThreadKeepsLock'
  BY SoleThreadStep
<1>3. LockInv => LockTypeOK
  BY DEF LockInv
<1> QED BY <1>1, <1>2, <1>3, LockInvAlways, PTL DEF LockSpec

(* Two processes, in each of which one thread uses the lock, never both    *)
(* hold it.                                                                *)
SoleThreadsExclude ==
  \A p, q \in Process : \A t, u \in Caller :
    (ThreadsOf[p] = {t} /\ ThreadsOf[q] = {u} /\ at[p][t] = "held" /\ at[q][u] = "held")
      => p = q

(* LockFile() keeps processes apart in each of which one thread calls it.  *)
COROLLARY SoleThreadsAlwaysExclude == LockSpec => []SoleThreadsExclude
<1>1. SoleThreadKeepsLock => SoleThreadsExclude
  BY DEF SoleThreadKeepsLock, SoleThreadsExclude
<1> QED BY <1>1, SoleThreadAlwaysKeepsLock, PTL

-----------------------------------------------------------------------------
(* Background work.                                                         *)

(* The stages in which a thread holds the mutex.                           *)
MutexInv ==
  \A t \in Thread : pc[t] \in {"signal", "emplace", "check"} => mutex = t

(* The bound on items cannot be passed by the caller who holds the mutex.  *)
RoomInv ==
  \A t \in Thread : pc[t] \in {"signal", "emplace"} => scheduled < MaxItems

(* Clients and background threads keep to their own stages; only a thread  *)
(* inside Wait() sleeps.                                                   *)
StageInv ==
  /\ \A t \in Client : pc[t] \in {"idle", "signal", "emplace"}
  /\ \A b \in Background : pc[b] # "idle"
  /\ \A b \in sleeping : pc[b] = "wait"

(* started_background_thread_ admits one background thread.                *)
OneThread ==
  /\ \A b, c \in Background : pc[b] # "none" /\ pc[c] # "none" => b = c
  /\ ~started_background_thread_ => \A b \in Background : pc[b] = "none"

(* The number of items taken from the queue so far.                        *)
Taken == scheduled - Len(queue)

(* The queue holds the items after those taken, in order; the last one     *)
(* taken may still be running, all before it have run once.                *)
QueueInv ==
  /\ Len(queue) <= scheduled
  /\ \A k \in 1 .. Len(queue) : queue[k] = Taken + k
  /\ \A b \in Background :
       IF pc[b] \in {"run", "signal", "emplace"} THEN item[b] = Taken /\ Taken > 0
                                                 ELSE item[b] = 0
  /\ \A i \in Item :
       executed[i] = IF i <= Taken /\ \A b \in Background : item[b] # i THEN 1 ELSE 0

Inv ==
  /\ TypeOK /\ MutexInv /\ RoomInv /\ StageInv /\ OneThread
  /\ NoLostWakeup /\ QueueInv

-----------------------------------------------------------------------------
LEMMA InitInv == Init => Inv
<1> SUFFICES ASSUME Init PROVE Inv
  OBVIOUS
<1> USE ThreadAssumption DEF Init
<1>1. TypeOK
  <2>1. pc \in [Thread -> {"idle"} \cup ScheduleStage \cup BackgroundStage]
    BY DEF Thread, ScheduleStage, BackgroundStage
  <2>2. queue \in Seq(Item) /\ scheduled \in 0 .. MaxItems
    OBVIOUS
  <2>3. item \in [Background -> Item \cup {0}] /\ executed \in [Item -> Nat]
    OBVIOUS
  <2> QED BY <2>1, <2>2, <2>3 DEF TypeOK
<1>2. MutexInv /\ RoomInv /\ StageInv /\ OneThread /\ NoLostWakeup
  BY DEF MutexInv, RoomInv, StageInv, OneThread, NoLostWakeup, Thread
<1>3. QueueInv
  BY DEF QueueInv, Taken, Thread, Item
<1> QED BY <1>1, <1>2, <1>3 DEF Inv

-----------------------------------------------------------------------------
(* The stages of a thread, the queue and the counts keep their types.       *)
LEMMA TypeStep ==
  ASSUME Inv, [Next]_vars
  PROVE  TypeOK'
<1> USE ThreadAssumption DEF Inv, TypeOK, Thread, ScheduleStage, BackgroundStage, Goto, Lock, Unlock, IdleStage
<1>1. ASSUME NEW t \in Thread, ScheduleLock(t) PROVE TypeOK'
  BY <1>1 DEF ScheduleLock
<1>2. ASSUME NEW t \in Thread, ScheduleSignal(t) PROVE TypeOK'
  BY <1>2 DEF ScheduleSignal
<1>3. ASSUME NEW t \in Thread, ScheduleEmplace(t) PROVE TypeOK'
  BY <1>3 DEF ScheduleEmplace, RoomInv, Item
<1>4. ASSUME NEW b \in Background, BackgroundLock(b) PROVE TypeOK'
  BY <1>4 DEF BackgroundLock
<1>5. ASSUME NEW b \in Background, Wait(b) PROVE TypeOK'
  BY <1>5 DEF Wait
<1>6. ASSUME NEW b \in Background, SpuriousWakeup(b) PROVE TypeOK'
  BY <1>6 DEF SpuriousWakeup
<1>7. ASSUME NEW b \in Background, WaitReturns(b) PROVE TypeOK'
  BY <1>7 DEF WaitReturns
<1>8. ASSUME NEW b \in Background, TakeItem(b) PROVE TypeOK'
  BY <1>8 DEF TakeItem
<1>9. ASSUME NEW b \in Background, RunItem(b) PROVE TypeOK'
  <2>1. item[b] \in Item
    BY <1>9 DEF RunItem, QueueInv, Taken
  <2>2. executed' \in [Item -> Nat]
    BY <1>9, <2>1 DEF RunItem
  <2> QED BY <1>9, <2>2 DEF RunItem
<1>10. CASE UNCHANGED vars
  BY <1>10 DEF vars
<1> QED
  BY <1>1, <1>2, <1>3, <1>4, <1>5, <1>6, <1>7, <1>8, <1>9, <1>10 DEF Next, BackgroundThreadMain

-----------------------------------------------------------------------------
(* Whoever holds the mutex is alone in the stages that need it.            *)
LEMMA MutexStep ==
  ASSUME Inv, [Next]_vars
  PROVE  MutexInv' /\ RoomInv'
<1> USE ThreadAssumption DEF Inv, TypeOK, Thread, MutexInv, RoomInv, StageInv, Goto, Lock, Unlock, IdleStage
<1>1. ASSUME NEW t \in Thread, ScheduleLock(t) PROVE MutexInv' /\ RoomInv'
  BY <1>1 DEF ScheduleLock
<1>2. ASSUME NEW t \in Thread, ScheduleSignal(t) PROVE MutexInv' /\ RoomInv'
  BY <1>2 DEF ScheduleSignal
<1>3. ASSUME NEW t \in Thread, ScheduleEmplace(t) PROVE MutexInv' /\ RoomInv'
  BY <1>3 DEF ScheduleEmplace
<1>4. ASSUME NEW b \in Background, BackgroundLock(b) PROVE MutexInv' /\ RoomInv'
  BY <1>4 DEF BackgroundLock
<1>5. ASSUME NEW b \in Background, Wait(b) PROVE MutexInv' /\ RoomInv'
  BY <1>5 DEF Wait
<1>6. ASSUME NEW b \in Background, SpuriousWakeup(b) PROVE MutexInv' /\ RoomInv'
  BY <1>6 DEF SpuriousWakeup
<1>7. ASSUME NEW b \in Background, WaitReturns(b) PROVE MutexInv' /\ RoomInv'
  BY <1>7 DEF WaitReturns
<1>8. ASSUME NEW b \in Background, TakeItem(b) PROVE MutexInv' /\ RoomInv'
  BY <1>8 DEF TakeItem
<1>9. ASSUME NEW b \in Background, RunItem(b) PROVE MutexInv' /\ RoomInv'
  BY <1>9 DEF RunItem
<1>10. CASE UNCHANGED vars
  BY <1>10 DEF vars
<1> QED
  BY <1>1, <1>2, <1>3, <1>4, <1>5, <1>6, <1>7, <1>8, <1>9, <1>10 DEF Next, BackgroundThreadMain

-----------------------------------------------------------------------------
(* One background thread at most, in its own stages.                       *)
LEMMA ThreadStep ==
  ASSUME Inv, [Next]_vars
  PROVE  StageInv' /\ OneThread'
<1> USE ThreadAssumption DEF Inv, TypeOK, Thread, StageInv, OneThread, Goto, Lock, Unlock, IdleStage
<1>1. ASSUME NEW t \in Thread, ScheduleLock(t) PROVE StageInv' /\ OneThread'
  <2>1. CASE started_background_thread_
    <3>1. /\ pc' = [pc EXCEPT ![t] = "signal"] /\ pc[t] = IdleStage(t)
          /\ started_background_thread_' = TRUE /\ sleeping' = sleeping
      BY <1>1, <2>1 DEF ScheduleLock
    <3>2. t \in sleeping => pc[t] = "wait"
      OBVIOUS
    <3>3. StageInv'
      BY <3>1, <3>2
    <3>4. OneThread'
      BY <3>1
    <3> QED BY <3>3, <3>4
  <2>2. CASE ~started_background_thread_
    <3>1. PICK b \in Background : pc' = [pc EXCEPT ![t] = "signal", ![b] = "top"]
      BY <1>1, <2>2 DEF ScheduleLock
    <3>2. t \in Client /\ t # b /\ started_background_thread_' = TRUE /\ sleeping' = sleeping
      BY <1>1, <2>2 DEF ScheduleLock
    <3> QED BY <2>2, <3>1, <3>2
  <2> QED BY <2>1, <2>2
<1>2. ASSUME NEW t \in Thread, ScheduleSignal(t) PROVE StageInv' /\ OneThread'
  BY <1>2 DEF ScheduleSignal
<1>3. ASSUME NEW t \in Thread, ScheduleEmplace(t) PROVE StageInv' /\ OneThread'
  BY <1>3 DEF ScheduleEmplace
<1>4. ASSUME NEW b \in Background, BackgroundLock(b) PROVE StageInv' /\ OneThread'
  BY <1>4 DEF BackgroundLock
<1>5. ASSUME NEW b \in Background, Wait(b) PROVE StageInv' /\ OneThread'
  BY <1>5 DEF Wait
<1>6. ASSUME NEW b \in Background, SpuriousWakeup(b) PROVE StageInv' /\ OneThread'
  BY <1>6 DEF SpuriousWakeup
<1>7. ASSUME NEW b \in Background, WaitReturns(b) PROVE StageInv' /\ OneThread'
  BY <1>7 DEF WaitReturns
<1>8. ASSUME NEW b \in Background, TakeItem(b) PROVE StageInv' /\ OneThread'
  BY <1>8 DEF TakeItem
<1>9. ASSUME NEW b \in Background, RunItem(b) PROVE StageInv' /\ OneThread'
  BY <1>9 DEF RunItem
<1>10. CASE UNCHANGED vars
  BY <1>10 DEF vars
<1> QED
  BY <1>1, <1>2, <1>3, <1>4, <1>5, <1>6, <1>7, <1>8, <1>9, <1>10 DEF Next, BackgroundThreadMain

-----------------------------------------------------------------------------
(* The step that matters: Schedule() passes its signal while it holds the  *)
(* mutex, and the only thread there is to wake is the one it wakes.        *)
LEMMA WakeupStep ==
  ASSUME Inv, [Next]_vars
  PROVE  NoLostWakeup'
<1> USE ThreadAssumption DEF Inv, TypeOK, Thread, MutexInv, StageInv, OneThread, NoLostWakeup, Goto, Lock, Unlock, IdleStage
<1>1. ASSUME NEW t \in Thread, ScheduleLock(t) PROVE NoLostWakeup'
  BY <1>1 DEF ScheduleLock
<1>2. ASSUME NEW t \in Thread, ScheduleSignal(t) PROVE NoLostWakeup'
  BY <1>2 DEF ScheduleSignal
<1>3. ASSUME NEW t \in Thread, ScheduleEmplace(t) PROVE NoLostWakeup'
  BY <1>3 DEF ScheduleEmplace
<1>4. ASSUME NEW b \in Background, BackgroundLock(b) PROVE NoLostWakeup'
  BY <1>4 DEF BackgroundLock
<1>5. ASSUME NEW b \in Background, Wait(b) PROVE NoLostWakeup'
  BY <1>5 DEF Wait
<1>6. ASSUME NEW b \in Background, SpuriousWakeup(b) PROVE NoLostWakeup'
  BY <1>6 DEF SpuriousWakeup
<1>7. ASSUME NEW b \in Background, WaitReturns(b) PROVE NoLostWakeup'
  BY <1>7 DEF WaitReturns
<1>8. ASSUME NEW b \in Background, TakeItem(b) PROVE NoLostWakeup'
  BY <1>8 DEF TakeItem
<1>9. ASSUME NEW b \in Background, RunItem(b) PROVE NoLostWakeup'
  BY <1>9 DEF RunItem
<1>10. CASE UNCHANGED vars
  BY <1>10 DEF vars
<1> QED
  BY <1>1, <1>2, <1>3, <1>4, <1>5, <1>6, <1>7, <1>8, <1>9, <1>10 DEF Next, BackgroundThreadMain

-----------------------------------------------------------------------------
(* Head and tail of a sequence by their elements.                          *)
LEMMA HeadTail ==
  ASSUME NEW S, NEW q \in Seq(S), q # <<>>
  PROVE  /\ Len(q) \in Nat \ {0}
         /\ Head(q) = q[1]
         /\ Tail(q) \in Seq(S) /\ Len(Tail(q)) = Len(q) - 1
         /\ \A k \in 1 .. Len(q) - 1 : Tail(q)[k] = q[k + 1]
OBVIOUS

(* A step that leaves the queue, the items taken and the counts alone, and *)
(* moves no thread into or out of the stages of a running item.            *)
LEMMA QueueFrame ==
  ASSUME QueueInv, UNCHANGED <<queue, scheduled, item, executed>>,
         \A b \in Background :
           pc[b] \in {"run", "signal", "emplace"} <=> pc'[b] \in {"run", "signal", "emplace"}
  PROVE  QueueInv'
BY DEF QueueInv, Taken

(* Only TakeItem, RunItem and ScheduleEmplace touch the items.             *)
LEMMA QueueStep ==
  ASSUME Inv, [Next]_vars
  PROVE  QueueInv'
<1> USE ThreadAssumption DEF Inv, TypeOK, Thread, StageInv, Goto, IdleStage
<1>1. ASSUME NEW t \in Thread, ScheduleLock(t) PROVE QueueInv'
  <2>1. CASE started_background_thread_
    BY <1>1, <2>1, QueueFrame DEF ScheduleLock
  <2>2. CASE ~started_background_thread_
    <3>1. PICK b \in Background :
            pc[b] = "none" /\ pc' = [pc EXCEPT ![t] = "signal", ![b] = "top"]
      BY <1>1, <2>2 DEF ScheduleLock
    <3>2. t \in Client /\ t # b
      BY <1>1, <2>2 DEF ScheduleLock, OneThread
    <3> QED BY <1>1, <3>1, <3>2, QueueFrame DEF ScheduleLock
  <2> QED BY <2>1, <2>2
<1>2. ASSUME NEW t \in Thread, ScheduleSignal(t) PROVE QueueInv'
  BY <1>2, QueueFrame DEF ScheduleSignal
<1>3. ASSUME NEW t \in Thread, ScheduleEmplace(t) PROVE QueueInv'
  <2>1. /\ queue' = Append(queue, scheduled + 1) /\ scheduled' = scheduled + 1
        /\ item' = item /\ executed' = executed
    BY <1>3 DEF ScheduleEmplace
  <2>2. /\ Len(queue) \in Nat /\ scheduled \in Nat
        /\ Len(queue') = Len(queue) + 1
        /\ \A k \in 1 .. Len(queue) : queue'[k] = queue[k]
        /\ queue'[Len(queue) + 1] = scheduled + 1
    BY <2>1 DEF Item
  <2>3. Taken' = Taken
    BY <2>1, <2>2 DEF Taken
  <2>4. \A k \in 1 .. Len(queue') : queue'[k] = Taken' + k
    BY <2>2, <2>3 DEF QueueInv, Taken
  <2>5. \A b \in Background :
          pc[b] \in {"run", "signal", "emplace"} <=> pc'[b] \in {"run", "signal", "emplace"}
    BY <1>3 DEF ScheduleEmplace
  <2> QED BY <2>1, <2>2, <2>3, <2>4, <2>5 DEF QueueInv
<1>4. ASSUME NEW b \in Background, BackgroundLock(b) PROVE QueueInv'
  BY <1>4, QueueFrame DEF BackgroundLock
<1>5. ASSUME NEW b \in Background, Wait(b) PROVE QueueInv'
  BY <1>5, QueueFrame DEF Wait
<1>6. ASSUME NEW b \in Background, SpuriousWakeup(b) PROVE QueueInv'
  BY <1>6, QueueFrame DEF SpuriousWakeup
<1>7. ASSUME NEW b \in Background, WaitReturns(b) PROVE QueueInv'
  BY <1>7, QueueFrame DEF WaitReturns
<1>8. ASSUME NEW b \in Background, TakeItem(b) PROVE QueueInv'
  <2>1. /\ queue # <<>> /\ pc[b] = "check" /\ pc' = [pc EXCEPT ![b] = "run"]
        /\ queue' = Tail(queue) /\ scheduled' = scheduled
        /\ item' = [item EXCEPT ![b] = Head(queue)] /\ executed' = executed
    BY <1>8 DEF TakeItem
  <2>2. /\ Len(queue) \in Nat \ {0} /\ scheduled \in Nat
        /\ Len(queue') = Len(queue) - 1
        /\ Head(queue) = queue[1]
        /\ \A k \in 1 .. Len(queue) - 1 : queue'[k] = queue[k + 1]
    BY <2>1, HeadTail
  <2>3. Taken' = Taken + 1 /\ Taken \in Nat /\ Head(queue) = Taken + 1
    BY <2>1, <2>2 DEF QueueInv, Taken
  <2>4. \A k \in 1 .. Len(queue') : queue'[k] = Taken' + k
    BY <2>2, <2>3 DEF QueueInv
  <2>5. \A c \in Background \ {b} : pc[c] = "none" /\ pc'[c] = "none" /\ item'[c] = item[c]
    BY <2>1 DEF OneThread
  <2>6. pc'[b] = "run" /\ item'[b] = Taken' /\ item[b] = 0
    BY <2>1, <2>3 DEF QueueInv
  <2>7. \A c \in Background \ {b} : item[c] = 0 /\ item'[c] = 0
    BY <2>5 DEF QueueInv
  <2>8. ASSUME NEW i \in Item
        PROVE  executed'[i] = IF i <= Taken' /\ \A c \in Background : item'[c] # i THEN 1 ELSE 0
    <3>1. i \in Nat \ {0}
      BY DEF Item
    <3>2. (\A c \in Background : item[c] # i) /\ (i # Taken' <=> \A c \in Background : item'[c] # i)
      BY <2>6, <2>7, <3>1
    <3> QED BY <2>1, <2>3, <3>1, <3>2 DEF QueueInv
  <2> QED BY <2>1, <2>2, <2>3, <2>4, <2>5, <2>6, <2>7, <2>8 DEF QueueInv
<1>9. ASSUME NEW b \in Background, RunItem(b) PROVE QueueInv'
  <2>1. /\ queue' = queue /\ scheduled' = scheduled
        /\ pc[b] = "run" /\ pc' = [pc EXCEPT ![b] = "top"]
        /\ item' = [item EXCEPT ![b] = 0]
        /\ executed' = [executed EXCEPT ![item[b]] = @ + 1]
    BY <1>9 DEF RunItem
  <2>2. Taken' = Taken /\ item[b] = Taken /\ Taken > 0
    BY <2>1 DEF QueueInv, Taken
  <2>3. \A c \in Background \ {b} : pc[c] = "none" /\ pc'[c] = "none" /\ item[c] = 0
    BY <2>1 DEF OneThread, QueueInv
  <2>4. item'[b] = 0 /\ pc'[b] = "top" /\ \A c \in Background \ {b} : item'[c] = 0
    BY <2>1, <2>3
  <2>5. ASSUME NEW i \in Item
        PROVE  executed'[i] = IF i <= Taken' /\ \A c \in Background : item'[c] # i THEN 1 ELSE 0
    <3>1. i \in Nat \ {0} /\ Taken \in Int
      BY DEF Item, Taken
    <3>2. \A c \in Background : item'[c] # i
      BY <2>4, <3>1
    <3>3. i # Taken <=> \A c \in Background : item[c] # i
      BY <2>2, <2>3, <3>1
    <3>4. executed'[i] = IF i = Taken THEN executed[i] + 1 ELSE executed[i]
      BY <2>1, <2>2
    <3> QED BY <2>2, <3>1, <3>2, <3>3, <3>4 DEF QueueInv
  <2> QED BY <2>1, <2>2, <2>3, <2>4, <2>5 DEF QueueInv
<1>10. CASE UNCHANGED vars
  BY <1>10, QueueFrame DEF vars
<1> QED
  BY <1>1, <1>2, <1>3, <1>4, <1>5, <1>6, <1>7, <1>8, <1>9, <1>10 DEF Next, BackgroundThreadMain

-----------------------------------------------------------------------------
LEMMA InvAlways == Spec => []Inv
<1>1. Inv /\ [Next]_vars => Inv'
  BY TypeStep, MutexStep, ThreadStep, WakeupStep, QueueStep DEF Inv
<1> QED BY InitInv, <1>1, PTL DEF Spec

(* A sleeping background thread has nothing to do: Schedule()'s rule to    *)
(* signal only when the queue is empty loses no wakeup, for any number of  *)
(* clients.                                                                *)
THEOREM WakeupNeverLost == Spec => []NoLostWakeup
BY InvAlways, PTL DEF Inv

(* Every item put into the queue is in exactly one place, and is run once. *)
THEOREM ItemsRunOnce == Spec => []EachItemOnce
<1>1. Inv => EachItemOnce
  <2> SUFFICES ASSUME Inv, NEW i \in Item
               PROVE  LET waiting == {k \in DOMAIN queue : queue[k] = i}
                          taken == {b \in Background : item[b] = i}
                      IN  IF i > scheduled THEN executed[i] = 0 /\ waiting = {} /\ taken = {}
                          ELSE \/ executed[i] = 1 /\ waiting = {} /\ taken = {}
                               \/ executed[i] = 0 /\ \E k \in DOMAIN queue : waiting = {k} /\ taken = {}
                               \/ executed[i] = 0 /\ \E b \in Background : waiting = {} /\ taken = {b}
    BY DEF EachItemOnce
  <2> DEFINE waiting == {k \in DOMAIN queue : queue[k] = i}
             taken == {b \in Background : item[b] = i}
  <2>1. /\ i \in Nat \ {0} /\ scheduled \in Nat /\ Len(queue) \in Nat
        /\ DOMAIN queue = 1 .. Len(queue) /\ Taken \in Nat /\ Taken <= scheduled
    BY ThreadAssumption DEF Inv, TypeOK, Item, QueueInv, Taken
  <2>2. \A k \in DOMAIN queue : queue[k] = Taken + k
    BY <2>1 DEF Inv, QueueInv
  <2>3. \A b \in Background : item[b] = i => item[b] = Taken /\ i = Taken /\ pc[b] # "none"
    BY <2>1 DEF Inv, QueueInv
  <2>4. \A b, c \in Background : item[b] = i /\ item[c] = i => b = c
    BY <2>3 DEF Inv, OneThread
  <2>5. executed[i] = IF i <= Taken /\ \A b \in Background : item[b] # i THEN 1 ELSE 0
    BY DEF Inv, QueueInv
  <2>6. CASE i > scheduled
    BY <2>1, <2>2, <2>3, <2>5, <2>6 DEF Taken
  <2>7. CASE Taken < i /\ i <= scheduled
    <3>1. i - Taken \in DOMAIN queue /\ waiting = {i - Taken}
      BY <2>1, <2>2, <2>7 DEF Taken
    <3>2. taken = {} /\ executed[i] = 0
      BY <2>1, <2>3, <2>5, <2>7
    <3> QED BY <2>1, <2>7, <3>1, <3>2
  <2>8. CASE i <= Taken
    <3>1. waiting = {}
      BY <2>1, <2>2, <2>8
    <3>2. CASE \E b \in Background : item[b] = i
      BY <2>1, <2>4, <2>5, <2>8, <3>1, <3>2
    <3>3. CASE \A b \in Background : item[b] # i
      BY <2>1, <2>5, <2>8, <3>1, <3>3
    <3> QED BY <3>2, <3>3
  <2> QED BY <2>1, <2>6, <2>7, <2>8
<1> QED BY <1>1, InvAlways, PTL

(* Items run in the order in which Schedule() put them in.                 *)
THEOREM ItemsRunInOrder == Spec => []RunsInOrder
<1>1. Inv => RunsInOrder
  <2> SUFFICES ASSUME Inv, NEW i \in Item, executed[i] > 0, NEW j \in 1 .. i - 1
               PROVE  executed[j] > 0
    BY DEF RunsInOrder
  <2>1. i \in Nat /\ j \in Item /\ j < i /\ Taken \in Int
    BY ThreadAssumption DEF Item, Inv, TypeOK, Taken
  <2>2. i <= Taken
    BY <2>1 DEF Inv, QueueInv
  <2>3. \A b \in Background : item[b] # j
    BY <2>1, <2>2 DEF Inv, QueueInv, Item
  <2> QED BY <2>1, <2>2, <2>3 DEF Inv, QueueInv
<1> QED BY <1>1, InvAlways, PTL

-----------------------------------------------------------------------------
(* CURRENT.                                                                *)
(*                                                                         *)
(* CurrentWhole speaks of the directory as it is; a power failure brings   *)
(* back an older one.  The invariant therefore says of every directory the *)
(* disk may hold that its CURRENT is a synced file, and that the temporary *)
(* files, the only ones that are written to, are none of those.            *)

(* In each directory names lead to different files.                        *)
NamesDiffer ==
  \A d \in dirsOnDisk : \A a, b \in Name : a # b /\ d[a] = d[b] => d[a] = none

(* The file is the synced name of a manifest.                              *)
Synced(f) == \E d \in Descriptor : contents[f] = Whole(d) /\ onDisk[f] = {Whole(d)}

CurrentSynced ==
  \A d \in dirsOnDisk : d[CURRENT] # none => Synced(d[CURRENT])

TemporariesApart ==
  \A d \in dirsOnDisk : \A a \in Descriptor : dir[a] # none => d[CURRENT] # dir[a]

(* How far the temporary file has come.                                    *)
TmpProgress ==
  /\ syscall \in {"write", "fdatasync", "close", "rename"} => tmp # none
  /\ syscall = "fdatasync" => contents[tmp] = Whole(number)
  /\ syscall \in {"close", "rename"} => contents[tmp] = Whole(number) /\ onDisk[tmp] = {Whole(number)}

Types ==
  /\ dirsOnDisk \subseteq [Name -> Inode \cup {none}] /\ dir \in dirsOnDisk
  /\ contents \in [Inode -> Contents]
  /\ onDisk \in [Inode -> SUBSET Contents]
  /\ \A f \in Inode : contents[f] \in onDisk[f]
  /\ syscall \in SystemCall /\ number \in Descriptor /\ ok \in BOOLEAN

CurrentInv == Types /\ NamesDiffer /\ CurrentSynced /\ TemporariesApart /\ TmpProgress

LEMMA NamesTyped ==
  /\ CURRENT \in Name /\ CURRENT \notin Descriptor
  /\ \A d \in Descriptor : d \in Name /\ d # CURRENT
BY DescriptorAssumption DEF Name, CURRENT

LEMMA ContentsTyped ==
  /\ Empty \in Contents
  /\ \A d \in Descriptor : Whole(d) \in Contents /\ Torn(d) \in Contents
BY DEF Contents

LEMMA CurrentInitInv == CurrentInit => CurrentInv
<1> SUFFICES ASSUME CurrentInit PROVE CurrentInv
  OBVIOUS
<1> USE InodeAssumption, NamesTyped, ContentsTyped
<1>1. Types
  BY DEF CurrentInit, Types, SystemCall
<1>2. \A d \in dirsOnDisk : \A a \in Name : d[a] = none
  BY DEF CurrentInit
<1>3. NamesDiffer /\ CurrentSynced /\ TemporariesApart
  BY <1>1, <1>2 DEF NamesDiffer, CurrentSynced, TemporariesApart, Types
<1>4. TmpProgress
  BY DEF CurrentInit, TmpProgress
<1> QED BY <1>1, <1>3, <1>4 DEF CurrentInv

(* Writing to the temporary file touches no CURRENT.                       *)
LEMMA TmpWrite ==
  ASSUME CurrentInv, tmp # none, UNCHANGED dirVars,
         \A f \in Inode : f # tmp => contents'[f] = contents[f] /\ onDisk'[f] = onDisk[f]
  PROVE  NamesDiffer' /\ CurrentSynced' /\ TemporariesApart'
<1> USE NamesTyped DEF CurrentInv, Types, dirVars, tmp
<1>1. NamesDiffer' /\ TemporariesApart'
  BY DEF NamesDiffer, TemporariesApart
<1>2. ASSUME NEW d \in dirsOnDisk, d[CURRENT] # none PROVE Synced(d[CURRENT])'
  <2>1. d[CURRENT] \in Inode /\ d[CURRENT] # tmp
    BY <1>2 DEF TemporariesApart
  <2> QED BY <1>2, <2>1 DEF CurrentSynced, Synced
<1> QED BY <1>1, <1>2 DEF CurrentSynced

(* Removing a temporary file's name leaves the rest as it is.              *)
LEMMA TmpRemoved ==
  ASSUME CurrentInv, UNCHANGED <<contents, onDisk>>,
         SetDir([dir EXCEPT ![number] = none]) \/ UNCHANGED dirVars
  PROVE  /\ dirsOnDisk' \subseteq [Name -> Inode \cup {none}] /\ dir' \in dirsOnDisk'
         /\ NamesDiffer' /\ CurrentSynced' /\ TemporariesApart'
<1> USE NamesTyped DEF CurrentInv, Types, dirVars
<1>1. CASE UNCHANGED dirVars
  BY <1>1 DEF NamesDiffer, CurrentSynced, TemporariesApart, Synced
<1>2. CASE SetDir([dir EXCEPT ![number] = none])
  <2>1. /\ dir' \in [Name -> Inode \cup {none}]
        /\ dirsOnDisk' = dirsOnDisk \cup {dir'}
        /\ \A a \in Name : dir'[a] = IF a = number THEN none ELSE dir[a]
    BY <1>2 DEF SetDir
  <2>2. dir'[CURRENT] = dir[CURRENT]
    BY <2>1
  <2>3. NamesDiffer'
    BY <2>1 DEF NamesDiffer
  <2>4. CurrentSynced'
    BY <2>1, <2>2 DEF CurrentSynced, Synced
  <2>5. TemporariesApart'
    BY <2>1, <2>2 DEF TemporariesApart
  <2> QED BY <2>1, <2>3, <2>4, <2>5
<1> QED BY <1>1, <1>2

LEMMA CurrentNextInv == CurrentInv /\ [CurrentNext]_currentVars => CurrentInv'
<1> SUFFICES ASSUME CurrentInv, [CurrentNext]_currentVars PROVE CurrentInv'
  OBVIOUS
<1> USE InodeAssumption, NamesTyped, ContentsTyped
<1> USE DEF GoTo, Fail
<1>0. dir \in [Name -> Inode \cup {none}] /\ dir \in dirsOnDisk
  BY DEF CurrentInv, Types
<1>1. ASSUME NEW d \in Descriptor, SetCurrentFile(d) PROVE CurrentInv'
  <2>1. Types' /\ TmpProgress'
    BY <1>1 DEF CurrentInv, Types, TmpProgress, SetCurrentFile, SystemCall, dirVars, fileVars
  <2>2. NamesDiffer' /\ CurrentSynced' /\ TemporariesApart'
    BY <1>1 DEF CurrentInv, NamesDiffer, CurrentSynced, TemporariesApart, Synced, SetCurrentFile,
                dirVars, fileVars
  <2> QED BY <2>1, <2>2 DEF CurrentInv
<1>2. ASSUME Open PROVE CurrentInv'
  <2>1. CASE tmp # none /\ SetContents(tmp, Empty) /\ UNCHANGED dirVars
             /\ GoTo("write") /\ UNCHANGED ok
    <3>1. tmp \in Inode
      BY <1>0, <2>1 DEF CurrentInv, Types, tmp
    <3>2. Types' /\ TmpProgress'
      BY <2>1, <3>1 DEF CurrentInv, Types, TmpProgress, SetContents, SystemCall, dirVars, tmp
    <3>3. \A f \in Inode : f # tmp => contents'[f] = contents[f] /\ onDisk'[f] = onDisk[f]
      BY <2>1 DEF CurrentInv, Types, SetContents
    <3> QED BY <2>1, <3>2, <3>3, TmpWrite DEF CurrentInv
  <2>2. ASSUME tmp = none, NEW f \in Inode,
               \A d \in dirsOnDisk : \A name \in Name : d[name] # f,
               SetDir([dir EXCEPT ![number] = f]),
               contents' = [contents EXCEPT ![f] = Empty],
               onDisk' = [onDisk EXCEPT ![f] = {Empty}],
               GoTo("write"), UNCHANGED ok
        PROVE  CurrentInv'
    <3> USE DEF CurrentInv
    <3>1. /\ dir' \in [Name -> Inode \cup {none}]
          /\ dirsOnDisk' = dirsOnDisk \cup {dir'}
          /\ \A a \in Name : dir'[a] = IF a = number THEN f ELSE dir[a]
          /\ number' = number /\ number \in Descriptor
      BY <1>0, <2>2 DEF SetDir, Types
    <3>2. Types' /\ TmpProgress'
      BY <2>2, <3>1 DEF Types, TmpProgress, SystemCall, tmp
    <3>3. dir'[CURRENT] = dir[CURRENT]
      BY <3>1
    <3>4. NamesDiffer'
      BY <1>0, <2>2, <3>1 DEF NamesDiffer
    <3>5. \A d \in dirsOnDisk : d[CURRENT] # none => d[CURRENT] \in Inode /\ d[CURRENT] # f
      BY <2>2 DEF Types
    <3>6. \A d \in dirsOnDisk : d[CURRENT] # none => Synced(d[CURRENT])'
      BY <2>2, <3>5 DEF CurrentSynced, Synced, Types
    <3>7. CurrentSynced'
      BY <1>0, <3>1, <3>3, <3>6 DEF CurrentSynced
    <3>8. TemporariesApart'
      BY <1>0, <2>2, <3>1, <3>3 DEF TemporariesApart
    <3> QED BY <3>2, <3>4, <3>7, <3>8
  <2>3. CASE Fail("DeleteFile(tmp)") /\ UNCHANGED <<dirVars, fileVars>>
    <3>1. Types' /\ TmpProgress'
      BY <2>3 DEF CurrentInv, Types, TmpProgress, SystemCall, dirVars, fileVars
    <3> QED BY <2>3, <3>1 DEF CurrentInv, NamesDiffer, CurrentSynced, TemporariesApart, Synced,
                              dirVars, fileVars
  <2> QED BY <1>2, <2>1, <2>2, <2>3 DEF Open
<1>3. ASSUME Write PROVE CurrentInv'
  <2>1. tmp # none /\ tmp \in Inode /\ number \in Descriptor /\ number' = number /\ UNCHANGED dirVars
    BY <1>0, <1>3 DEF CurrentInv, Types, TmpProgress, Write, tmp
  <2>2. Types'
    <3>1. CASE UNCHANGED fileVars /\ Fail("delete file")
      BY <2>1, <3>1 DEF CurrentInv, Types, SystemCall, dirVars, fileVars
    <3>2. ASSUME NEW c \in Contents, SetContents(tmp, c), syscall' \in SystemCall, ok' \in BOOLEAN PROVE Types'
      BY <2>1, <3>2 DEF CurrentInv, Types, SetContents, dirVars
    <3> QED BY <1>3, <2>1, <3>1, <3>2 DEF Write, SystemCall, CurrentInv, Types
  <2>a. TmpProgress'
    BY <1>3, <2>1 DEF CurrentInv, Types, TmpProgress, Write, SetContents, dirVars, tmp
  <2>3. \A f \in Inode : f # tmp => contents'[f] = contents[f] /\ onDisk'[f] = onDisk[f]
    BY <1>3 DEF CurrentInv, Types, Write, SetContents, fileVars
  <2> QED BY <2>1, <2>2, <2>a, <2>3, TmpWrite DEF CurrentInv
<1>4. ASSUME SyncTmp PROVE CurrentInv'
  <2>1. /\ tmp # none /\ tmp \in Inode /\ number \in Descriptor /\ number' = number /\ UNCHANGED dirVars
        /\ contents[tmp] = Whole(number)
    BY <1>0, <1>4 DEF CurrentInv, Types, TmpProgress, SyncTmp, tmp
  <2>2. Types'
    <3>1. contents' = contents /\ syscall' \in SystemCall /\ ok' \in BOOLEAN
      BY <1>4 DEF CurrentInv, Types, SyncTmp, SystemCall
    <3>2. onDisk' = onDisk \/ onDisk' = [onDisk EXCEPT ![tmp] = {contents[tmp]}]
      BY <1>4 DEF SyncTmp
    <3>3. /\ onDisk' \in [Inode -> SUBSET Contents]
          /\ \A f \in Inode : contents[f] \in onDisk'[f]
      BY <2>1, <3>2 DEF CurrentInv, Types
    <3> QED BY <2>1, <3>1, <3>3 DEF CurrentInv, Types, dirVars
  <2>a. TmpProgress'
    BY <1>4, <2>1 DEF CurrentInv, Types, TmpProgress, SyncTmp, dirVars, tmp
  <2>3. \A f \in Inode : f # tmp => contents'[f] = contents[f] /\ onDisk'[f] = onDisk[f]
    BY <1>4 DEF CurrentInv, Types, SyncTmp
  <2> QED BY <2>1, <2>2, <2>a, <2>3, TmpWrite DEF CurrentInv
<1>5. ASSUME CloseTmp \/ DeleteWritable PROVE CurrentInv'
  <2>1. Types' /\ TmpProgress'
    BY <1>5 DEF CurrentInv, Types, TmpProgress, CloseTmp, DeleteWritable, SystemCall, dirVars, fileVars, tmp
  <2>2. UNCHANGED <<dirVars, fileVars>>
    BY <1>5 DEF CloseTmp, DeleteWritable
  <2> QED BY <2>1, <2>2 DEF CurrentInv, NamesDiffer, CurrentSynced, TemporariesApart, Synced,
                            dirVars, fileVars
<1>6. ASSUME DeleteFile \/ DeleteTmp PROVE CurrentInv'
  <2>1. /\ dirsOnDisk' \subseteq [Name -> Inode \cup {none}] /\ dir' \in dirsOnDisk'
        /\ NamesDiffer' /\ CurrentSynced' /\ TemporariesApart'
    BY <1>6, TmpRemoved DEF DeleteFile, DeleteTmp, fileVars
  <2>2. TmpProgress'
    BY <1>6 DEF TmpProgress, DeleteFile, DeleteTmp
  <2>3. Types'
    BY <1>6, <2>1 DEF CurrentInv, Types, DeleteFile, DeleteTmp, SystemCall, fileVars
  <2> QED BY <2>1, <2>2, <2>3 DEF CurrentInv
<1>7. ASSUME Rename PROVE CurrentInv'
  <2> USE DEF CurrentInv
  <2>0. number \in Descriptor /\ number' = number /\ UNCHANGED fileVars /\ syscall = "rename"
    BY <1>7 DEF Types, Rename
  <2>1. CASE SetDir([dir EXCEPT ![CURRENT] = tmp, ![number] = none]) /\ GoTo("idle") /\ UNCHANGED ok
    <3>1. /\ dir' \in [Name -> Inode \cup {none}]
          /\ dirsOnDisk' = dirsOnDisk \cup {dir'}
          /\ \A a \in Name : dir'[a] = IF a = CURRENT THEN tmp ELSE IF a = number THEN none ELSE dir[a]
          /\ tmp = dir[number] /\ tmp # none
      BY <1>0, <2>0, <2>1 DEF SetDir, tmp, TmpProgress
    <3>2. Types' /\ TmpProgress'
      BY <2>0, <2>1, <3>1 DEF Types, TmpProgress, SystemCall, fileVars
    <3>3. dir'[CURRENT] = tmp
      BY <3>1
    <3>4. Synced(tmp)
      BY <2>0 DEF Synced, TmpProgress
    <3>5. CurrentSynced'
      BY <2>0, <3>1, <3>3, <3>4 DEF CurrentSynced, Synced, fileVars
    <3>6. NamesDiffer'
      <4>1. \A a, b \in Name : a # b /\ dir'[a] = dir'[b] => dir'[a] = none
        BY <1>0, <2>0, <3>1 DEF NamesDiffer
      <4> QED BY <3>1, <4>1 DEF NamesDiffer
    <3>7. TemporariesApart'
      <4>1. ASSUME NEW a \in Descriptor, dir'[a] # none PROVE dir'[a] = dir[a] /\ dir[a] # tmp
        BY <1>0, <2>0, <3>1, <4>1 DEF NamesDiffer
      <4> QED BY <3>1, <3>3, <4>1 DEF TemporariesApart
    <3> QED BY <3>2, <3>5, <3>6, <3>7
  <2>2. CASE UNCHANGED dirVars /\ Fail("DeleteFile(tmp)")
    <3>1. Types' /\ TmpProgress'
      BY <2>0, <2>2 DEF Types, TmpProgress, SystemCall, dirVars, fileVars
    <3> QED BY <2>0, <2>2, <3>1 DEF NamesDiffer, CurrentSynced, TemporariesApart, Synced,
                                    dirVars, fileVars
  <2> QED BY <1>7, <2>1, <2>2 DEF Rename
<1>8. ASSUME Crash PROVE CurrentInv'
  <2>1. Types' /\ TmpProgress'
    BY <1>8 DEF CurrentInv, Types, TmpProgress, Crash, SystemCall, dirVars, fileVars
  <2>2. UNCHANGED <<dirVars, fileVars>>
    BY <1>8 DEF Crash
  <2> QED BY <2>1, <2>2 DEF CurrentInv, NamesDiffer, CurrentSynced, TemporariesApart, Synced,
                            dirVars, fileVars
<1>9. ASSUME PowerLost PROVE CurrentInv'
  <2> USE DEF CurrentInv
  <2> DEFINE named == {dir'[name] : name \in Name} \ {none}
  <2>1. /\ dir' \in dirsOnDisk /\ dirsOnDisk' = {dir'} /\ dir' \in [Name -> Inode \cup {none}]
        /\ number' = number /\ syscall' = "idle" /\ ok' = FALSE
        /\ onDisk' = [f \in Inode |-> {contents'[f]}]
    BY <1>9 DEF PowerLost, Types
  <2>2. PICK c \in [named -> UNION {onDisk[f] : f \in named}] :
          /\ \A f \in named : c[f] \in onDisk[f]
          /\ contents' = [f \in Inode |-> IF f \in named THEN c[f] ELSE Empty]
    BY <1>9 DEF PowerLost
  <2>3. named \subseteq Inode
    BY <2>1
  <2>4. contents' \in [Inode -> Contents]
    BY <2>2, <2>3 DEF Types
  <2>5. Types' /\ TmpProgress'
    BY <2>1, <2>4 DEF Types, TmpProgress, SystemCall
  <2>6. NamesDiffer'
    BY <2>1 DEF NamesDiffer
  <2>7. CurrentSynced'
    <3>1. ASSUME dir'[CURRENT] # none PROVE Synced(dir[CURRENT])'
      <4>1. dir'[CURRENT] \in named /\ dir'[CURRENT] \in Inode
        BY <2>1, <3>1
      <4>2. PICK d \in Descriptor : onDisk[dir'[CURRENT]] = {Whole(d)}
        BY <2>1, <3>1 DEF CurrentSynced, Synced
      <4>3. contents'[dir'[CURRENT]] = Whole(d)
        BY <2>2, <4>1, <4>2
      <4> QED BY <2>1, <4>1, <4>3 DEF Synced
    <3> QED BY <2>1, <3>1 DEF CurrentSynced
  <2>8. TemporariesApart'
    BY <2>1 DEF NamesDiffer, TemporariesApart
  <2> QED BY <2>5, <2>6, <2>7, <2>8
<1>10. CASE UNCHANGED currentVars
  BY <1>10 DEF CurrentInv, Types, NamesDiffer, CurrentSynced, TemporariesApart, TmpProgress, Synced,
               currentVars, tmp
<1> QED BY <1>1, <1>2, <1>3, <1>4, <1>5, <1>6, <1>7, <1>8, <1>9, <1>10 DEF CurrentNext

(* CURRENT holds the whole name of a manifest, or does not exist, at every *)
(* instant of SetCurrentFile() and after every crash and power failure     *)
(* (db/filename.cpp, lines 129-147, util/env.cpp, lines 36-56).            *)
THEOREM CrashSafe == CurrentSpec => []CurrentWhole
<1>1. ASSUME CurrentInv PROVE CurrentWhole
  <2>1. dir \in dirsOnDisk
    BY <1>1 DEF CurrentInv, Types
  <2>2. CASE dir[CURRENT] = none
    BY <2>2 DEF CurrentWhole, Read
  <2>3. CASE dir[CURRENT] # none
    BY <1>1, <2>1, <2>3 DEF CurrentInv, CurrentSynced, Synced, CurrentWhole, Read
  <2> QED BY <2>2, <2>3
<1> QED BY <1>1, CurrentInitInv, CurrentNextInv, PTL DEF CurrentSpec

-----------------------------------------------------------------------------
(* What SetCurrentFile() returns.  A call is on its way to OK up to the    *)
(* rename, and on its way to an error in the stages that clean up.         *)
StatusFollows ==
  /\ syscall \in {"open", "write", "fdatasync", "close", "rename"} => ok
  /\ syscall \in {"delete file", "DeleteFile", "DeleteFile(tmp)"} => ~ok

Truth == ReturnsTruth /\ StatusFollows

(* CURRENT reads the same as long as neither its name nor its file change. *)
LEMMA ReadKept ==
  ASSUME CurrentInv, dir'[CURRENT] = dir[CURRENT],
         \A f \in Inode : f # tmp \/ tmp = none => contents'[f] = contents[f]
  PROVE  Read(CURRENT)' = Read(CURRENT)
<1> USE NamesTyped DEF CurrentInv, Types
<1>1. CASE dir[CURRENT] = none
  BY <1>1 DEF Read
<1>2. CASE dir[CURRENT] # none
  <2>1. dir[CURRENT] \in Inode /\ (dir[CURRENT] # tmp \/ tmp = none)
    BY <1>2 DEF NamesDiffer, tmp
  <2> QED BY <1>2, <2>1 DEF Read
<1> QED BY <1>1, <1>2

LEMMA InitTruth == CurrentInit => Truth
BY NamesTyped DEF CurrentInit, Truth, ReturnsTruth, StatusFollows, Read

LEMMA NextTruth == CurrentInv /\ Truth /\ [CurrentNext]_currentVars => Truth'
<1> SUFFICES ASSUME CurrentInv, Truth, [CurrentNext]_currentVars PROVE Truth'
  OBVIOUS
<1> USE NamesTyped DEF GoTo, Fail
<1>0. /\ dir \in [Name -> Inode \cup {none}] /\ contents \in [Inode -> Contents]
      /\ number \in Descriptor /\ number # CURRENT /\ ok \in BOOLEAN
  BY DEF CurrentInv, Types
<1>1. ASSUME NEW d \in Descriptor, SetCurrentFile(d) PROVE Truth'
  BY <1>1 DEF SetCurrentFile, Truth, ReturnsTruth, StatusFollows, Read, dirVars, fileVars
<1>2. ASSUME Open PROVE Truth'
  <2>1. dir'[CURRENT] = dir[CURRENT]
    BY <1>0, <1>2 DEF Open, SetDir, dirVars
  <2>2. ASSUME NEW f \in Inode, f = dir[CURRENT] PROVE contents'[f] = contents[f]
    <3>1. dir \in dirsOnDisk /\ f # tmp
      BY <1>0, <2>2, InodeAssumption DEF CurrentInv, Types, NamesDiffer, tmp
    <3> QED BY <1>0, <1>2, <2>2, <3>1 DEF Open, SetContents, fileVars
  <2>3. Read(CURRENT)' = Read(CURRENT)
    BY <1>0, <2>1, <2>2 DEF Read
  <2>4. before' = before /\ syscall = "open" /\ syscall' # "idle" /\ StatusFollows'
    BY <1>2 DEF Open, Truth, StatusFollows
  <2> QED BY <2>3, <2>4 DEF Truth, ReturnsTruth
<1>3. ASSUME Write \/ SyncTmp \/ CloseTmp \/ DeleteWritable \/ DeleteFile \/ DeleteTmp PROVE Truth'
  <2>1. dir'[CURRENT] = dir[CURRENT]
    BY <1>0, <1>3 DEF Write, SyncTmp, CloseTmp, DeleteWritable, DeleteFile, DeleteTmp, SetDir, dirVars
  <2>2. \A f \in Inode : f # tmp \/ tmp = none => contents'[f] = contents[f]
    BY <1>0, <1>3 DEF Write, SyncTmp, CloseTmp, DeleteWritable, DeleteFile, DeleteTmp, SetContents,
                      fileVars, CurrentInv, TmpProgress
  <2>3. Read(CURRENT)' = Read(CURRENT)
    BY <2>1, <2>2, ReadKept
  <2>4. /\ before' = before /\ StatusFollows'
        /\ syscall # "idle" /\ (syscall' = "idle" => ~ok')
    <3>1. CASE Write \/ SyncTmp \/ CloseTmp
      BY <1>0, <3>1 DEF Write, SyncTmp, CloseTmp, Truth, StatusFollows
    <3>2. CASE DeleteWritable \/ DeleteFile \/ DeleteTmp
      <4>1. ok' = ok /\ before' = before
        BY <3>2 DEF DeleteWritable, DeleteFile, DeleteTmp
      <4>2. ~ok /\ syscall' \in {"DeleteFile", "DeleteFile(tmp)", "idle"} /\ syscall # "idle"
        BY <3>2 DEF DeleteWritable, DeleteFile, DeleteTmp, Truth, StatusFollows
      <4> QED BY <1>0, <4>1, <4>2 DEF StatusFollows
    <3> QED BY <1>3, <3>1, <3>2
  <2> QED BY <2>3, <2>4 DEF Truth, ReturnsTruth
<1>4. ASSUME Rename PROVE Truth'
  <2>1. CASE SetDir([dir EXCEPT ![CURRENT] = tmp, ![number] = none]) /\ GoTo("idle") /\ UNCHANGED ok
    <3>1. dir'[CURRENT] = tmp /\ tmp # none /\ contents[tmp] = Whole(number)
      BY <1>0, <1>4, <2>1 DEF Rename, SetDir, CurrentInv, TmpProgress
    <3>2. Read(CURRENT)' = Whole(number)'
      BY <1>4, <2>1, <3>1 DEF Rename, Read, Whole, fileVars
    <3>3. syscall' = "idle" /\ ok'
      BY <1>4, <2>1 DEF Rename, Truth, StatusFollows
    <3> QED BY <3>2, <3>3 DEF Truth, ReturnsTruth, StatusFollows
  <2>2. CASE UNCHANGED dirVars /\ Fail("DeleteFile(tmp)")
    BY <1>4, <2>2 DEF Rename, Truth, ReturnsTruth, StatusFollows, Read, dirVars, fileVars
  <2> QED BY <1>4, <2>1, <2>2 DEF Rename
<1>5. ASSUME Crash PROVE Truth'
  BY <1>5 DEF Crash, Truth, ReturnsTruth, StatusFollows, Read, dirVars, fileVars
<1>6. ASSUME PowerLost PROVE Truth'
  BY <1>6 DEF PowerLost, Truth, ReturnsTruth, StatusFollows
<1>7. CASE UNCHANGED currentVars
  BY <1>7 DEF currentVars, Truth, ReturnsTruth, StatusFollows, Read, Whole
<1> QED BY <1>1, <1>2, <1>3, <1>4, <1>5, <1>6, <1>7 DEF CurrentNext

(* SetCurrentFile() tells the truth: after OK CURRENT names the manifest,  *)
(* after an error it reads as before, and while the call runs it does too, *)
(* whichever of its system calls failed (db/filename.cpp, lines 129-147).  *)
THEOREM TellsTruth == CurrentSpec => []ReturnsTruth
<1>1. Truth => ReturnsTruth
  BY DEF Truth
<1> QED BY <1>1, CurrentInitInv, CurrentNextInv, InitTruth, NextTruth, PTL DEF CurrentSpec
=============================================================================
