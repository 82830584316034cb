---------------------------- MODULE CurrentFile -----------------------------
(***************************************************************************)
(* SetCurrentFile() (db/filename.cpp) with DoWriteStringToFile()           *)
(* (util/env.cpp): CURRENT is replaced by writing and syncing a temporary  *)
(* file and renaming it.  Every system call is a step and may fail, the    *)
(* process may crash before any of them, and the power may fail.  The name *)
(* of a manifest fits into the write buffer, so Append() only buffers it   *)
(* and Sync() is the first to write.                                       *)
(*                                                                         *)
(* The file system is external: rename() and unlink() are atomic, and the  *)
(* disk holds the directory as it was at some instant since the last time  *)
(* the disk was read, and of each file contents that it had since its last *)
(* fdatasync().                                                            *)
(***************************************************************************)
EXTENDS Integers

CONSTANTS Descriptor,   \* numbers of manifests
          Inode,        \* files
          none          \* no file

ASSUME DescriptorAssumption == Descriptor \subseteq Nat
ASSUME InodeAssumption == none \notin Inode

CURRENT == -1
Name == Descriptor \cup {CURRENT}    \* n names n's file "<n>.dbtmp"

VARIABLES
  dir,         \* dir[name]: the file of that name
  dirsOnDisk,  \* the directories a power failure may leave
  contents,    \* contents[f]: what is in file f
  onDisk,      \* onDisk[f]: what a power failure may leave in f
  syscall,     \* the next system call, "idle" outside SetCurrentFile()
  number,      \* descriptor_number
  ok,          \* s.ok(); FALSE before the first call and after a crash
  before       \* what CURRENT said when SetCurrentFile() was called

currentVars == <<dir, dirsOnDisk, contents, onDisk, syscall, number, ok, before>>
fileVars == <<contents, onDisk>>
dirVars == <<dir, dirsOnDisk>>

(* The contents of a file: none, part or all of the name of manifest d.    *)
Empty == [desc |-> 0, part |-> "empty"]
Torn(d) == [desc |-> d, part |-> "torn"]
Whole(d) == [desc |-> d, part |-> "whole"]
Contents == {Empty} \cup {Torn(d) : d \in Descriptor} \cup {Whole(d) : d \in Descriptor}

NoFile == [desc |-> 0, part |-> "none"]

(* What a reader of the name finds.                                        *)
Read(name) == IF dir[name] = none THEN NoFile ELSE contents[dir[name]]

SystemCall == {"idle", "open", "write", "fdatasync", "close", "delete file",
               "DeleteFile", "rename", "DeleteFile(tmp)"}

CurrentInit ==
  /\ dir = [name \in Name |-> none] /\ dirsOnDisk = {dir}
  /\ contents = [f \in Inode |-> Empty] /\ onDisk = [f \in Inode |-> {Empty}]
  /\ syscall = "idle" /\ number \in Descriptor /\ ok = FALSE
  /\ before = NoFile

-----------------------------------------------------------------------------
(* Names change: the disk may hold the old or the new directory.           *)
SetDir(d) == dir' = d /\ dirsOnDisk' = dirsOnDisk \cup {d}

(* The contents of f change in the kernel's cache.                         *)
SetContents(f, c) ==
  /\ contents' = [contents EXCEPT ![f] = c]
  /\ onDisk' = [onDisk EXCEPT ![f] = @ \cup {c}]

GoTo(stage) == syscall' = stage /\ UNCHANGED <<number, before>>
Fail(stage) == GoTo(stage) /\ ok' = FALSE

tmp == dir[number]

SetCurrentFile(d) ==
  /\ syscall = "idle"
  /\ syscall' = "open" /\ number' = d /\ ok' = TRUE /\ before' = Read(CURRENT)
  /\ UNCHANGED <<dirVars, fileVars>>

(* NewWritableFile(): O_CREAT | O_TRUNC.                                   *)
Open ==
  /\ syscall = "open"
  /\ \/ /\ tmp # none
        /\ SetContents(tmp, Empty) /\ UNCHANGED dirVars
        /\ GoTo("write") /\ UNCHANGED ok
     \/ /\ tmp = none
        /\ \E f \in Inode :
             /\ \A d \in dirsOnDisk : \A name \in Name : d[name] # f
             /\ SetDir([dir EXCEPT ![number] = f])
             /\ contents' = [contents EXCEPT ![f] = Empty]
             /\ onDisk' = [onDisk EXCEPT ![f] = {Empty}]
        /\ GoTo("write") /\ UNCHANGED ok
     \/ Fail("DeleteFile(tmp)") /\ UNCHANGED <<dirVars, fileVars>>

(* Sync(): FlushBuffer() writes the name, or fails after a part of it.     *)
Write ==
  /\ syscall = "write"
  /\ \/ SetContents(tmp, Whole(number)) /\ GoTo("fdatasync") /\ UNCHANGED ok
     \/ SetContents(tmp, Torn(number)) /\ Fail("delete file")
     \/ UNCHANGED fileVars /\ Fail("delete file")
  /\ UNCHANGED dirVars

(* Mutant: the file is not synced (WriteStringToFile() is called).         *)
SyncTmpSkipped ==
  /\ syscall = "fdatasync" /\ GoTo("close")
  /\ UNCHANGED <<ok, contents, onDisk, dirVars>>

SyncTmp ==
  /\ syscall = "fdatasync"
  /\ \/ onDisk' = [onDisk EXCEPT ![tmp] = {contents[tmp]}] /\ GoTo("close") /\ UNCHANGED ok
     \/ UNCHANGED onDisk /\ Fail("delete file")
  /\ UNCHANGED <<contents, dirVars>>

(* Close() of the flushed file, then delete file, which does nothing more. *)
CloseTmp ==
  /\ syscall = "close"
  /\ \/ GoTo("rename") /\ UNCHANGED ok
     \/ Fail("DeleteFile")
  /\ UNCHANGED <<fileVars, dirVars>>

(* delete file closes a file that is still open, without telling.  Its     *)
(* buffer was emptied by the flush, also by one that failed.               *)
DeleteWritable ==
  /\ syscall = "delete file" /\ GoTo("DeleteFile")
  /\ UNCHANGED <<ok, fileVars, dirVars>>

(* DoWriteStringToFile() deletes the file it could not write; whether it   *)
(* can is ignored.                                                         *)
DeleteFile ==
  /\ syscall = "DeleteFile"
  /\ SetDir([dir EXCEPT ![number] = none]) \/ UNCHANGED dirVars
  /\ GoTo("DeleteFile(tmp)") /\ UNCHANGED <<ok, fileVars>>

(* Mutant: rename() is not atomic: the old CURRENT is deleted first.       *)
RenameDeletesFirst ==
  /\ syscall = "rename"
  /\ IF dir[CURRENT] # none
       THEN SetDir([dir EXCEPT ![CURRENT] = none]) /\ GoTo("rename") /\ UNCHANGED ok
       ELSE \/ SetDir([dir EXCEPT ![CURRENT] = tmp, ![number] = none]) /\ GoTo("idle") /\ UNCHANGED ok
            \/ UNCHANGED dirVars /\ Fail("DeleteFile(tmp)")
  /\ UNCHANGED fileVars

(* RenameFile(tmp, CURRENT)                                                *)
Rename ==
  /\ syscall = "rename"
  /\ \/ SetDir([dir EXCEPT ![CURRENT] = tmp, ![number] = none]) /\ GoTo("idle") /\ UNCHANGED ok
     \/ UNCHANGED dirVars /\ Fail("DeleteFile(tmp)")
  /\ UNCHANGED fileVars

(* SetCurrentFile() deletes the temporary file, if there still is one.     *)
DeleteTmp ==
  /\ syscall = "DeleteFile(tmp)"
  /\ SetDir([dir EXCEPT ![number] = none]) \/ UNCHANGED dirVars
  /\ GoTo("idle") /\ UNCHANGED <<ok, fileVars>>

-----------------------------------------------------------------------------
(* The process dies; the kernel keeps directory and files.                 *)
Crash ==
  /\ syscall # "idle" /\ syscall' = "idle"
  /\ ok' = FALSE /\ before' = Read(CURRENT)
  /\ UNCHANGED <<number, fileVars, dirVars>>

(* The power fails; the disk is read again.  Files without a name are gone.*)
PowerLost ==
  /\ syscall' = "idle" /\ ok' = FALSE
  /\ dir' \in dirsOnDisk /\ dirsOnDisk' = {dir'}
  /\ LET named == {dir'[name] : name \in Name} \ {none}
     IN  \E c \in [named -> UNION {onDisk[f] : f \in named}] :
           /\ \A f \in named : c[f] \in onDisk[f]
           /\ contents' = [f \in Inode |-> IF f \in named THEN c[f] ELSE Empty]
  /\ onDisk' = [f \in Inode |-> {contents'[f]}]
  /\ before' = Read(CURRENT)'
  /\ UNCHANGED number

CurrentNext ==
  \/ \E d \in Descriptor : SetCurrentFile(d)
  \/ Open \/ Write \/ SyncTmp \/ CloseTmp \/ DeleteWritable \/ DeleteFile
  \/ Rename \/ DeleteTmp
  \/ Crash \/ PowerLost

CurrentSpec == CurrentInit /\ [][CurrentNext]_currentVars

-----------------------------------------------------------------------------
(* CURRENT, if it exists, holds the whole name of a manifest it was set    *)
(* to, at every instant of SetCurrentFile() and after every crash and      *)
(* power failure (db/filename.cpp, lines 138-142).                         *)
CurrentWhole ==
  Read(CURRENT) = NoFile \/ \E d \in Descriptor : Read(CURRENT) = Whole(d)

(* "Make the CURRENT file point to the descriptor file with the specified  *)
(* number" (db/filename.h, line 91): a call that returns OK has done so,   *)
(* one that failed has left CURRENT as it was, and there is no moment      *)
(* without CURRENT in between.                                             *)
ReturnsTruth ==
  /\ syscall # "idle" => Read(CURRENT) = before
  /\ syscall = "idle" => Read(CURRENT) = IF ok THEN Whole(number) ELSE before
=============================================================================
