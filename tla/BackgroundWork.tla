--------------------------- MODULE BackgroundWork ---------------------------
(***************************************************************************)
(* util/env_posix.cpp: PosixEnv::Schedule() and the background thread that *)
(* it starts.  Everything but running a work item happens under            *)
(* background_work_mutex_; a step is what happens between two points where *)
(* another thread may act on the mutex or the condition variable.          *)
(*                                                                         *)
(* External: Wait() releases the mutex and sleeps in one step, may wake    *)
(* without a Signal(), and takes the mutex again before it returns; a      *)
(* Signal() when nobody sleeps is lost.                                    *)
(***************************************************************************)
EXTENDS Integers, Sequences

CONSTANTS Client,      \* the threads that call Schedule()
          Background,  \* the threads that std::thread can start
          NoThread,
          MaxItems     \* bound on the calls of Schedule()

ASSUME ThreadAssumption ==
  /\ Client \cap Background = {}
  /\ NoThread \notin Client \cup Background
  /\ MaxItems \in Nat

VARIABLES
  mutex,       \* background_work_mutex_: its holder, or NoThread
  started_background_thread_,
  queue,       \* background_work_queue_
  scheduled,   \* the number of items put in so far; an item is its number
  pc,          \* pc[t]: where thread t is
  sleeping,    \* the threads inside Wait() that nothing has woken
  item,        \* item[b]: the work background thread b has taken
  executed     \* executed[i]: how many times item i was run

vars == <<mutex, started_background_thread_, queue, scheduled, pc, sleeping, item, executed>>

Thread == Client \cup Background
Item == 1 .. MaxItems

(* A work item may itself call Schedule(), so background threads go        *)
(* through the stages of a client too.                                     *)
ScheduleStage == {"signal", "emplace"}
BackgroundStage == {"none", "top", "check", "wait", "run"}
IdleStage(t) == IF t \in Client THEN "idle" ELSE "run"

TypeOK ==
  /\ mutex \in Thread \cup {NoThread}
  /\ started_background_thread_ \in BOOLEAN
  /\ queue \in Seq(Item)
  /\ scheduled \in 0 .. MaxItems
  /\ pc \in [Thread -> {"idle"} \cup ScheduleStage \cup BackgroundStage]
  /\ sleeping \subseteq Background
  /\ item \in [Background -> Item \cup {0}]
  /\ executed \in [Item -> Nat]

Init ==
  /\ mutex = NoThread
  /\ started_background_thread_ = FALSE
  /\ queue = <<>>
  /\ scheduled = 0
  /\ pc = [t \in Thread |-> IF t \in Client THEN "idle" ELSE "none"]
  /\ sleeping = {}
  /\ item = [b \in Background |-> 0]
  /\ executed = [i \in Item |-> 0]

Goto(t, stage) == pc' = [pc EXCEPT ![t] = stage]
Lock(t) == mutex = NoThread /\ mutex' = t
Unlock(t) == mutex = t /\ mutex' = NoThread

-----------------------------------------------------------------------------

(* Mutant: the flag is never set.                                          *)
ScheduleLockUnflagged(t) ==
  /\ pc[t] = IdleStage(t)
  /\ scheduled < MaxItems
  /\ Lock(t)
  /\ \E b \in Background :
       /\ pc[b] = "none"
       /\ pc' = [pc EXCEPT ![t] = "signal", ![b] = "top"]
  /\ UNCHANGED <<started_background_thread_, queue, scheduled, sleeping, item, executed>>

(* Schedule(): the mutex is taken, and the background thread started if it *)
(* is not.                                                                 *)
ScheduleLock(t) ==
  /\ pc[t] = IdleStage(t)
  /\ scheduled < MaxItems
  /\ Lock(t)
  /\ IF started_background_thread_
       THEN Goto(t, "signal")
       ELSE \E b \in Background :
              /\ pc[b] = "none"
              /\ pc' = [pc EXCEPT ![t] = "signal", ![b] = "top"]
  /\ started_background_thread_' = TRUE
  /\ UNCHANGED <<queue, scheduled, sleeping, item, executed>>

(* Mutant: signals when there was work already.                            *)
ScheduleSignalNonempty(t) ==
  /\ pc[t] = "signal"
  /\ IF queue # <<>> /\ sleeping # {}
       THEN \E b \in sleeping : sleeping' = sleeping \ {b}
       ELSE UNCHANGED sleeping
  /\ Goto(t, "emplace")
  /\ UNCHANGED <<mutex, started_background_thread_, queue, scheduled, item, executed>>

(* notify_one() if the queue is empty.                                     *)
ScheduleSignal(t) ==
  /\ pc[t] = "signal"
  /\ IF queue = <<>> /\ sleeping # {}
       THEN \E b \in sleeping : sleeping' = sleeping \ {b}
       ELSE UNCHANGED sleeping
  /\ Goto(t, "emplace")
  /\ UNCHANGED <<mutex, started_background_thread_, queue, scheduled, item, executed>>

(* Mutant: Schedule() returns without Unlock().                            *)
ScheduleEmplaceLocked(t) ==
  /\ pc[t] = "emplace"
  /\ scheduled' = scheduled + 1
  /\ queue' = Append(queue, scheduled + 1)
  /\ Goto(t, IdleStage(t))
  /\ UNCHANGED <<mutex, started_background_thread_, sleeping, item, executed>>

ScheduleEmplace(t) ==
  /\ pc[t] = "emplace"
  /\ scheduled' = scheduled + 1
  /\ queue' = Append(queue, scheduled + 1)
  /\ Unlock(t)
  /\ Goto(t, IdleStage(t))
  /\ UNCHANGED <<started_background_thread_, sleeping, item, executed>>

-----------------------------------------------------------------------------
(* BackgroundThreadMain().                                                 *)

BackgroundLock(b) ==
  /\ pc[b] = "top"
  /\ Lock(b)
  /\ Goto(b, "check")
  /\ UNCHANGED <<started_background_thread_, queue, scheduled, sleeping, item, executed>>

Wait(b) ==
  /\ pc[b] = "check" /\ queue = <<>>
  /\ Unlock(b)
  /\ sleeping' = sleeping \cup {b}
  /\ Goto(b, "wait")
  /\ UNCHANGED <<started_background_thread_, queue, scheduled, item, executed>>

SpuriousWakeup(b) ==
  /\ b \in sleeping
  /\ sleeping' = sleeping \ {b}
  /\ UNCHANGED <<mutex, started_background_thread_, queue, scheduled, pc, item, executed>>

(* Wait() returns into the condition of the while loop.                    *)
WaitReturns(b) ==
  /\ pc[b] = "wait" /\ b \notin sleeping
  /\ Lock(b)
  /\ Goto(b, "check")
  /\ UNCHANGED <<started_background_thread_, queue, scheduled, sleeping, item, executed>>

(* Mutant: the item is not popped.                                         *)
TakeItemNoPop(b) ==
  /\ pc[b] = "check" /\ queue # <<>>
  /\ item' = [item EXCEPT ![b] = Head(queue)]
  /\ Unlock(b)
  /\ Goto(b, "run")
  /\ UNCHANGED <<started_background_thread_, queue, scheduled, sleeping, executed>>

TakeItem(b) ==
  /\ pc[b] = "check" /\ queue # <<>>
  /\ item' = [item EXCEPT ![b] = Head(queue)]
  /\ queue' = Tail(queue)
  /\ Unlock(b)
  /\ Goto(b, "run")
  /\ UNCHANGED <<started_background_thread_, scheduled, sleeping, executed>>

(* The function returns.                                                   *)
RunItem(b) ==
  /\ pc[b] = "run"
  /\ executed' = [executed EXCEPT ![item[b]] = @ + 1]
  /\ item' = [item EXCEPT ![b] = 0]
  /\ Goto(b, "top")
  /\ UNCHANGED <<mutex, started_background_thread_, queue, scheduled, sleeping>>

-----------------------------------------------------------------------------
BackgroundThreadMain(b) ==
  BackgroundLock(b) \/ Wait(b) \/ WaitReturns(b) \/ TakeItem(b) \/ RunItem(b)

Next ==
  \/ \E t \in Thread : ScheduleLock(t) \/ ScheduleSignal(t) \/ ScheduleEmplace(t)
  \/ \E b \in Background : BackgroundThreadMain(b) \/ SpuriousWakeup(b)

(* Threads run: a caller that holds the mutex gets on, and so does the     *)
(* background thread when it could take its next step from some point on;  *)
(* work items return.  Nothing makes a thread call Schedule() or wake up   *)
(* spuriously, and no order is assumed among threads that want the mutex.  *)
Fairness ==
  /\ \A t \in Thread : WF_vars(ScheduleSignal(t) \/ ScheduleEmplace(t))
  /\ \A b \in Background : WF_vars(BackgroundThreadMain(b))

Spec == Init /\ [][Next]_vars
FairSpec == Spec /\ Fairness

-----------------------------------------------------------------------------
(* No wakeup is lost: although Schedule() signals only when the queue is   *)
(* empty, and before it puts the item in, the background thread never      *)
(* sleeps on while there is work, or while a caller that has already       *)
(* signalled is about to add some.                                         *)
NoLostWakeup ==
  \A b \in sleeping :
    queue = <<>> /\ \A t \in Thread : pc[t] # "emplace"

(* Each item put in is in exactly one place, run or to be run once.        *)
EachItemOnce ==
  \A i \in Item :
    LET waiting == {n \in DOMAIN queue : queue[n] = i}
        taken == {b \in Background : item[b] = i}
    IN  IF i > scheduled THEN executed[i] = 0 /\ waiting = {} /\ taken = {}
        ELSE \/ executed[i] = 1 /\ waiting = {} /\ taken = {}
             \/ executed[i] = 0 /\ \E n \in DOMAIN queue : waiting = {n} /\ taken = {}
             \/ executed[i] = 0 /\ \E b \in Background : waiting = {} /\ taken = {b}

(* There is one background thread, so work is run in the order of          *)
(* Schedule(), one item at a time: an item has run only if all earlier     *)
(* ones have.                                                              *)
RunsInOrder ==
  \A i \in Item : executed[i] > 0 => \A j \in 1 .. i - 1 : executed[j] > 0

(* Arrange to run the function "once in a background thread" (env.h:150):  *)
(* every item that was put in is run.                                      *)
EveryItemRuns == \A i \in Item : scheduled >= i ~> executed[i] = 1
=============================================================================
