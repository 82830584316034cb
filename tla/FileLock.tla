------------------------------ MODULE FileLock ------------------------------
(***************************************************************************)
(* util/env_posix.cpp: PosixEnv::LockFile() and UnlockFile() of one lock   *)
(* file, called by the threads of several processes.  Every system call    *)
(* and every locked access to the process's PosixLockTable is a step.      *)
(*                                                                         *)
(* External: a record lock of fcntl() belongs to a process, not to a       *)
(* descriptor.  The process loses it when it closes any descriptor of the  *)
(* file, and may set it again while it has it.                             *)
(***************************************************************************)
EXTENDS Integers

CONSTANTS Process, Caller,
          ThreadsOf,      \* ThreadsOf[p]: the threads of p that use the lock
          NoProcess

ASSUME ProcessAssumption == NoProcess \notin Process
ASSUME ThreadsAssumption == ThreadsOf \in [Process -> SUBSET Caller]

VARIABLES
  at,             \* at[p][t]: where thread t of process p is in its call
  locked_files_,  \* the processes whose lock table holds the file's name
  owner           \* the process that has the record lock, or NoProcess

lockVars == <<at, locked_files_, owner>>

Stage == {"idle", "opened", "busy", "inserted", "refused", "closed",
          "held", "unlocked", "removed"}

LockTypeOK ==
  /\ at \in [Process -> [Caller -> Stage]]
  /\ locked_files_ \subseteq Process
  /\ owner \in Process \cup {NoProcess}

LockInit ==
  /\ at = [p \in Process |-> [t \in Caller |-> "idle"]]
  /\ locked_files_ = {}
  /\ owner = NoProcess

MoveTo(p, t, stage) == at' = [at EXCEPT ![p][t] = stage]

-----------------------------------------------------------------------------
(* The kernel.                                                             *)

Drop(p) == owner' = IF owner = p THEN NoProcess ELSE owner
close(p) == Drop(p)

(* fcntl(F_SETLK) does not wait.                                           *)
Lockable(p) == owner \in {p, NoProcess}

-----------------------------------------------------------------------------
(* LockFile().  A failing open() leaves everything as it is.               *)

OpenFile(p, t) ==
  /\ at[p][t] = "idle"
  /\ MoveTo(p, t, "opened")
  /\ UNCHANGED <<locked_files_, owner>>

InsertName(p, t) ==
  /\ at[p][t] = "opened"
  /\ MoveTo(p, t, IF p \in locked_files_ THEN "busy" ELSE "inserted")
  /\ locked_files_' = locked_files_ \cup {p}
  /\ UNCHANGED owner

(* Mutant: the error path removes the name another thread owns.            *)
CloseBusyRemoves(p, t) ==
  /\ at[p][t] = "busy"
  /\ close(p)
  /\ MoveTo(p, t, "idle")
  /\ locked_files_' = locked_files_ \ {p}

(* "already held by process"                                               *)
CloseBusy(p, t) ==
  /\ at[p][t] = "busy"
  /\ close(p)
  /\ MoveTo(p, t, "idle")
  /\ UNCHANGED locked_files_

SetLock(p, t) ==
  /\ at[p][t] = "inserted"
  /\ Lockable(p)
  /\ owner' = p
  /\ MoveTo(p, t, "held")
  /\ UNCHANGED locked_files_

(* Mutant: the result of fcntl() is ignored.                               *)
SetLockUnchecked(p, t) ==
  /\ at[p][t] = "inserted"
  /\ MoveTo(p, t, "held")
  /\ UNCHANGED <<locked_files_, owner>>

(* fcntl() fails: another process has the lock, or the kernel is out of    *)
(* locks.                                                                  *)
SetLockFails(p, t) ==
  /\ at[p][t] = "inserted"
  /\ MoveTo(p, t, "refused")
  /\ UNCHANGED <<locked_files_, owner>>

CloseRefused(p, t) ==
  /\ at[p][t] = "refused"
  /\ close(p)
  /\ MoveTo(p, t, "closed")
  /\ UNCHANGED locked_files_

RemoveRefused(p, t) ==
  /\ at[p][t] = "closed"
  /\ locked_files_' = locked_files_ \ {p}
  /\ MoveTo(p, t, "idle")
  /\ UNCHANGED owner

-----------------------------------------------------------------------------
(* UnlockFile() of the lock that LockFile() returned.  If fcntl() fails    *)
(* the caller still has the lock and nothing has changed.                  *)

(* Mutant: the record lock is left to close().                             *)
ClearLockSkipped(p, t) ==
  /\ at[p][t] = "held"
  /\ MoveTo(p, t, "unlocked")
  /\ UNCHANGED <<locked_files_, owner>>

ClearLock(p, t) ==
  /\ at[p][t] = "held"
  /\ Drop(p)
  /\ MoveTo(p, t, "unlocked")
  /\ UNCHANGED locked_files_

RemoveName(p, t) ==
  /\ at[p][t] = "unlocked"
  /\ locked_files_' = locked_files_ \ {p}
  /\ MoveTo(p, t, "removed")
  /\ UNCHANGED owner

CloseUnlocked(p, t) ==
  /\ at[p][t] = "removed"
  /\ close(p)
  /\ MoveTo(p, t, "idle")
  /\ UNCHANGED locked_files_

-----------------------------------------------------------------------------
(* The process exits, or dies, and a new one takes its place.              *)
Exit(p) ==
  /\ \E t \in Caller : at[p][t] # "idle"
  /\ at' = [at EXCEPT ![p] = [t \in Caller |-> "idle"]]
  /\ locked_files_' = locked_files_ \ {p}
  /\ Drop(p)

Step(p, t) ==
  \/ OpenFile(p, t) \/ InsertName(p, t) \/ CloseBusy(p, t)
  \/ SetLock(p, t) \/ SetLockFails(p, t) \/ CloseRefused(p, t) \/ RemoveRefused(p, t)
  \/ ClearLock(p, t) \/ RemoveName(p, t) \/ CloseUnlocked(p, t)

LockNext == \E p \in Process : Exit(p) \/ \E t \in ThreadsOf[p] : Step(p, t)

LockSpec == LockInit /\ [][LockNext]_lockVars

-----------------------------------------------------------------------------
(* The stages between a successful Insert() and the matching Remove().     *)
Named == {"inserted", "refused", "closed", "held", "unlocked"}

(* The lock table admits one thread of a process at a time, and holds the  *)
(* name for as long as that thread uses the lock: a failing call, or one   *)
(* that races the end of UnlockFile(), neither removes another thread's    *)
(* name nor leaves its own behind.                                         *)
TableExact ==
  \A p \in Process :
    /\ p \in locked_files_ <=> \E t \in Caller : at[p][t] \in Named
    /\ \A t, u \in Caller : at[p][t] \in Named /\ at[p][u] \in Named => t = u

(* A record lock always has a thread that will release it: no failed or    *)
(* finished call, and no exit, leaves the file locked.                     *)
LockHasHolder ==
  owner # NoProcess => \E t \in Caller : at[owner][t] = "held"

(* A process in which one thread uses the lock keeps what LockFile() has   *)
(* given it until its UnlockFile(), whatever the threads of the others do: *)
(* such processes exclude each other.                                      *)
SoleThreadKeepsLock ==
  \A p \in Process : \A t \in Caller :
    at[p][t] = "held" /\ ThreadsOf[p] = {t} => owner = p

(* "Used to prevent concurrent access to the same db by multiple           *)
(* processes.  If somebody else already holds the lock, finishes           *)
(* immediately with a failure" (env.h:129-138): two processes do not both  *)
(* hold the lock.                                                          *)
ProcessesExclude ==
  \A p, q \in Process : \A t, u \in Caller :
    at[p][t] = "held" /\ at[q][u] = "held" => p = q
=============================================================================
