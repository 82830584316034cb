---------------------------- MODULE ReadableFiles ---------------------------
(***************************************************************************)
(* util/env_posix.cpp: PosixEnv::NewRandomAccessFile(), the two file       *)
(* classes it creates, and the Limiters that bound how many files are      *)
(* mapped and how many descriptors stay open.  The threads that open, read *)
(* and close files run concurrently; an access to a Limiter's atomic       *)
(* counter and a system call are each a step.                              *)
(*                                                                         *)
(* A slot is the life of one RandomAccessFile, from the call that creates  *)
(* it to the end of its destructor; the slots share only the Limiters.     *)
(* Read() leaves nothing behind: a file without a descriptor of its own    *)
(* opens and closes one.  TableCache says who makes these steps.           *)
(***************************************************************************)
EXTENDS Integers, FiniteSets

CONSTANTS Slot,
          MaxMmaps,      \* mmap_limiter_'s max_acquires
          MaxOpenFiles   \* fd_limiter_'s max_acquires

ASSUME LimitAssumption ==
  IsFiniteSet(Slot) /\ MaxMmaps \in Nat /\ MaxOpenFiles \in Nat

VARIABLES
  stage,         \* stage[s]: where slot s is
  mmap_limiter_, \* acquires_allowed_ of the two Limiters
  fd_limiter_

fileVars == <<stage, mmap_limiter_, fd_limiter_>>

(* The file object exists: mapped, with its own descriptor, or opened on   *)
(* every read.                                                             *)
FileStage == {"mapped", "permanent", "temporary"}

Stage ==
  {"none", "opened", "noMmap", "fallback", "noFd", "surplus", "granted",
   "mapClose", "mapFailed", "giveBack", "unmapped", "closed"} \cup FileStage

FilesTypeOK ==
  /\ stage \in [Slot -> Stage]
  /\ mmap_limiter_ \in Int /\ mmap_limiter_ <= MaxMmaps
  /\ fd_limiter_ \in Int /\ fd_limiter_ <= MaxOpenFiles

FilesInit ==
  /\ stage = [s \in Slot |-> "none"]
  /\ mmap_limiter_ = MaxMmaps
  /\ fd_limiter_ = MaxOpenFiles

Move(s, from, to) == stage[s] = from /\ stage' = [stage EXCEPT ![s] = to]

(* Limiter::Acquire(): fetch_sub(1), the old value deciding; Release(),    *)
(* also the second half of a failing Acquire(): fetch_add(1).              *)
Acquire(old, new) == new = old - 1

Acquired(old) == old > 0
Release(old, new) == new = old + 1

-----------------------------------------------------------------------------
(* NewRandomAccessFile().                                                  *)

Open(s) == Move(s, "none", "opened") /\ UNCHANGED <<mmap_limiter_, fd_limiter_>>

AcquireMmap(s) ==
  /\ Move(s, "opened", IF Acquired(mmap_limiter_) THEN "granted" ELSE "noMmap")
  /\ Acquire(mmap_limiter_, mmap_limiter_')
  /\ UNCHANGED fd_limiter_

ReturnMmap(s) ==
  /\ Move(s, "noMmap", "fallback")
  /\ Release(mmap_limiter_, mmap_limiter_')
  /\ UNCHANGED fd_limiter_

(* The constructor of PosixRandomAccessFile.                               *)
AcquireFd(s) ==
  /\ Move(s, "fallback", IF Acquired(fd_limiter_) THEN "permanent" ELSE "noFd")
  /\ Acquire(fd_limiter_, fd_limiter_')
  /\ UNCHANGED mmap_limiter_

ReturnFd(s) ==
  /\ Move(s, "noFd", "surplus")
  /\ Release(fd_limiter_, fd_limiter_')
  /\ UNCHANGED mmap_limiter_

CloseSurplus(s) ==
  Move(s, "surplus", "temporary") /\ UNCHANGED <<mmap_limiter_, fd_limiter_>>

(* GetFileSize() and mmap() succeed, or one of them fails; in both cases   *)
(* the descriptor is then closed, and after a failure the permit returned. *)
Map(s) ==
  /\ Move(s, "granted", "mapClose") \/ Move(s, "granted", "mapFailed")
  /\ UNCHANGED <<mmap_limiter_, fd_limiter_>>

CloseMapped(s) ==
  /\ Move(s, "mapClose", "mapped") \/ Move(s, "mapFailed", "giveBack")
  /\ UNCHANGED <<mmap_limiter_, fd_limiter_>>

(* Mutant: the permit is kept when mmap() fails.                           *)
ReleaseFailedNot(s) ==
  Move(s, "giveBack", "none") /\ UNCHANGED <<mmap_limiter_, fd_limiter_>>

ReleaseFailed(s) ==
  /\ Move(s, "giveBack", "none")
  /\ Release(mmap_limiter_, mmap_limiter_')
  /\ UNCHANGED fd_limiter_

-----------------------------------------------------------------------------
(* The destructors.                                                        *)
Unmap(s) ==
  Move(s, "mapped", "unmapped") /\ UNCHANGED <<mmap_limiter_, fd_limiter_>>

ReleaseMmap(s) ==
  /\ Move(s, "unmapped", "none")
  /\ Release(mmap_limiter_, mmap_limiter_')
  /\ UNCHANGED fd_limiter_

Close(s) ==
  Move(s, "permanent", "closed") /\ UNCHANGED <<mmap_limiter_, fd_limiter_>>

ReleaseFd(s) ==
  /\ Move(s, "closed", "none")
  /\ Release(fd_limiter_, fd_limiter_')
  /\ UNCHANGED mmap_limiter_

Delete(s) == Move(s, "temporary", "none") /\ UNCHANGED <<mmap_limiter_, fd_limiter_>>

-----------------------------------------------------------------------------
(* The rest of NewRandomAccessFile() after open(), and delete file.        *)
FinishOpening(s) ==
  \/ AcquireMmap(s) \/ ReturnMmap(s) \/ AcquireFd(s) \/ ReturnFd(s)
  \/ CloseSurplus(s) \/ Map(s) \/ CloseMapped(s) \/ ReleaseFailed(s)

DeleteFile(s) == Unmap(s) \/ ReleaseMmap(s) \/ Close(s) \/ ReleaseFd(s) \/ Delete(s)

-----------------------------------------------------------------------------
In(stages) == {s \in Slot : stage[s] \in stages}

Mapped == In({"mapClose", "mapped"})

(* The descriptors that outlive the call that opened them.                 *)
KeptOpen == In({"permanent"})

HasMmapPermit == In({"granted", "mapClose", "mapped", "mapFailed", "giveBack", "unmapped"})
HasFdPermit == In({"permanent", "closed"})

(* No permit is lost or made up, however calls, failures and destructors   *)
(* interleave: what a Limiter still allows and what is in use add up to    *)
(* its maximum, but for a refused Acquire() that has not yet undone its    *)
(* decrement; so the files mapped and the descriptors kept open stay       *)
(* within "max_acquires" (line 71).                                        *)
PermitsExact ==
  /\ FilesTypeOK
  /\ mmap_limiter_ = MaxMmaps - Cardinality(HasMmapPermit) - Cardinality(In({"noMmap"}))
  /\ fd_limiter_ = MaxOpenFiles - Cardinality(HasFdPermit) - Cardinality(In({"noFd"}))
  /\ Cardinality(Mapped) <= MaxMmaps
  /\ Cardinality(KeptOpen) <= MaxOpenFiles
=============================================================================
