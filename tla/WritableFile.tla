---------------------------- MODULE WritableFile ----------------------------
(***************************************************************************)
(* PosixWritableFile (util/env_posix.cpp): a write buffer in front of a    *)
(* descriptor.  Bytes are numbered in the order in which the client hands  *)
(* them to Append().                                                       *)
(*                                                                         *)
(* The kernel keeps what was written in its cache and may bring it to the  *)
(* disk at any time; only fdatasync() makes sure of it, and only fsync()   *)
(* on the directory makes sure that new files are found after a power      *)
(* failure.                                                                *)
(***************************************************************************)
EXTENDS Integers, Sequences

CONSTANTS kWritableFileBufferSize,
          AppendSize,     \* the sizes of the slices appended
          MaxBytes,       \* bound on the bytes appended
          MaxFiles        \* bound on the files created beside this one

ASSUME BufferAssumption == kWritableFileBufferSize \in Nat \ {0}
ASSUME BoundsAssumption == MaxBytes \in Nat /\ MaxFiles \in Nat /\ AppendSize \subseteq Nat

VARIABLES
  is_manifest_,  \* the file's name starts with MANIFEST; never changes
  buf_,        \* buf_[0, pos_ - 1]
  fd_,         \* whether the descriptor is open
  pc,          \* where the call is, "idle" between calls
  call,        \* the method being executed
  out,         \* what WriteUnbuffered() has still to write
  rest,        \* the part of Append()'s data that is not in the buffer
  status,      \* Close()'s local status, FALSE after a failed flush
  file,        \* the file as the kernel has it
  synced,      \* the length of file that is surely on disk
  refs,        \* refs[b]: how many files existed when byte b was appended;
               \* its length is the number of bytes appended
  files,       \* files created in the directory
  dirFiles,    \* those that are surely on disk
  failed,      \* some call has returned an error, or the destructor has
               \* ignored one
  promised     \* the number of bytes appended when Sync() last returned OK

memory == <<buf_, fd_, pc, call, out, rest, status>>
disk == <<file, synced, files, dirFiles>>
history == <<refs, failed, promised>>
vars == <<is_manifest_, memory, disk, history>>

appended == Len(refs)
Upto(n) == [i \in 1 .. n |-> i]
IsBytes(s) == \A i \in 1 .. Len(s) : s[i] \in 1 .. appended

TypeOK ==
  /\ IsBytes(buf_) /\ Len(buf_) <= kWritableFileBufferSize
  /\ IsBytes(out) /\ IsBytes(rest) /\ IsBytes(file)
  /\ pc \in {"idle", "dir", "buffer", "direct", "fdatasync", "close", "dead"}
  /\ call \in {"none", "Append", "Flush", "Sync", "Close", "delete"}
  /\ is_manifest_ \in BOOLEAN /\ fd_ \in BOOLEAN /\ status \in BOOLEAN /\ failed \in BOOLEAN
  /\ synced \in 0 .. Len(file)
  /\ dirFiles \in 0 .. files
  /\ promised \in 0 .. appended

Init ==
  /\ is_manifest_ \in BOOLEAN
  /\ buf_ = <<>> /\ out = <<>> /\ rest = <<>> /\ file = <<>> /\ refs = <<>>
  /\ fd_ = TRUE /\ status = TRUE /\ failed = FALSE
  /\ pc = "idle" /\ call = "none"
  /\ synced = 0 /\ files = 0 /\ dirFiles = 0 /\ promised = 0

Min(a, b) == IF a < b THEN a ELSE b
Prefix(s, n) == SubSeq(s, 1, n)
Suffix(s, n) == SubSeq(s, n + 1, Len(s))

-----------------------------------------------------------------------------
Return(ok) ==
  /\ pc' = "idle" /\ call' = "none"
  /\ failed' = (failed \/ ~ok)
  /\ status' = TRUE

Begin(fn) == pc = "idle" /\ fd_ /\ call' = fn

(* FlushBuffer() starts to write the bytes b of the buffer.                *)
StartFlush(b) == pc' = "buffer" /\ out' = b

(* Append(): fit as much as possible into the buffer, flush if that is not *)
(* all.                                                                    *)
Append_(size) ==
  LET data == [i \in 1 .. size |-> appended + i]
      copy_size == Min(size, kWritableFileBufferSize - Len(buf_))
      buffered == buf_ \o Prefix(data, copy_size)
  IN  /\ pc = "idle" /\ fd_
      /\ appended + size <= MaxBytes
      /\ refs' = refs \o [i \in 1 .. size |-> files]
      /\ buf_' = buffered
      /\ rest' = Suffix(data, copy_size)
      /\ IF copy_size = size
           THEN UNCHANGED <<pc, call, out>>
           ELSE call' = "Append" /\ StartFlush(buffered)
      /\ UNCHANGED <<fd_, status, disk, failed, promised>>

Flush ==
  /\ Begin("Flush") /\ StartFlush(buf_)
  /\ UNCHANGED <<buf_, fd_, rest, status, disk, history>>

(* Close(), and the destructor of a file that is open.                     *)
Close ==
  /\ \E fn \in {"Close", "delete"} : Begin(fn)
  /\ StartFlush(buf_)
  /\ UNCHANGED <<buf_, fd_, rest, status, disk, history>>

(* Mutant: the directory is not synced first.                              *)
SyncNoDir ==
  /\ Begin("Sync") /\ StartFlush(buf_)
  /\ UNCHANGED <<buf_, fd_, rest, status, disk, history>>

(* Mutant: Sync() does not flush the buffer.                               *)
SyncNoFlush ==
  /\ Begin("Sync") /\ pc' = "fdatasync"
  /\ UNCHANGED <<buf_, fd_, out, rest, status, disk, history>>

(* Sync() syncs the directory of a manifest before anything else.          *)
Sync ==
  /\ Begin("Sync")
  /\ IF is_manifest_ THEN pc' = "dir" /\ UNCHANGED out ELSE StartFlush(buf_)
  /\ UNCHANGED <<buf_, fd_, rest, status, disk, history>>

(* SyncDirIfManifest(): the directory is synced, or the call fails.        *)
SyncDir ==
  /\ pc = "dir"
  /\ \/ /\ StartFlush(buf_)
        /\ dirFiles' = files
        /\ UNCHANGED <<call, status, failed>>
     \/ Return(FALSE) /\ UNCHANGED <<out, dirFiles>>
  /\ UNCHANGED <<buf_, fd_, rest, file, synced, files, refs, promised>>

(* ::write() takes at least one byte.  A write that is interrupted is made *)
(* again and changes nothing.                                              *)
WriteSome ==
  /\ pc \in {"buffer", "direct"}
  /\ \E n \in 1 .. Len(out) :
       /\ file' = file \o Prefix(out, n)
       /\ out' = Suffix(out, n)
  /\ UNCHANGED <<buf_, fd_, pc, call, rest, status, synced, files, dirFiles, history>>

(* Mutant: after a failed write the buffer is kept.                        *)
WriteFailsKeeps ==
  /\ pc \in {"buffer", "direct"} /\ out # <<>>
  /\ out' = <<>> /\ rest' = <<>>
  /\ IF call \in {"Close", "delete"}
       THEN pc' = "close" /\ status' = FALSE /\ UNCHANGED <<call, failed>>
       ELSE Return(FALSE)
  /\ UNCHANGED <<buf_, fd_, disk, refs, promised>>

(* ::write() fails: FlushBuffer() empties the buffer all the same; Close() *)
(* goes on to close the descriptor, every other call returns the error.    *)
WriteFails ==
  /\ pc \in {"buffer", "direct"} /\ out # <<>>
  /\ buf_' = IF pc = "buffer" THEN <<>> ELSE buf_
  /\ out' = <<>> /\ rest' = <<>>
  /\ IF call \in {"Close", "delete"}
       THEN pc' = "close" /\ status' = FALSE /\ UNCHANGED <<call, failed>>
       ELSE Return(FALSE)
  /\ UNCHANGED <<fd_, disk, refs, promised>>

(* Append() after its flush: "small writes go to buffer, large writes are  *)
(* written directly".                                                      *)
FlushedAppend ==
  /\ pc = "buffer" /\ out = <<>> /\ call = "Append"
  /\ IF Len(rest) < kWritableFileBufferSize
       THEN buf_' = rest /\ Return(TRUE) /\ UNCHANGED out
       ELSE buf_' = <<>> /\ pc' = "direct" /\ out' = rest /\ UNCHANGED <<call, status, failed>>
  /\ rest' = <<>>
  /\ UNCHANGED <<fd_, disk, refs, promised>>

(* The other calls after their flush.                                      *)
Flushed ==
  /\ pc = "buffer" /\ out = <<>> /\ call # "Append"
  /\ buf_' = <<>>
  /\ CASE call = "Flush" -> Return(TRUE)
       [] call = "Sync" -> pc' = "fdatasync" /\ UNCHANGED <<call, status, failed>>
       [] OTHER -> pc' = "close" /\ UNCHANGED <<call, status, failed>>
  /\ UNCHANGED <<fd_, out, rest, disk, refs, promised>>

DirectWritten ==
  /\ pc = "direct" /\ out = <<>>
  /\ Return(TRUE)
  /\ UNCHANGED <<buf_, fd_, out, rest, disk, refs, promised>>

(* SyncFd()                                                                *)
SyncFd ==
  /\ pc = "fdatasync"
  /\ \/ Return(TRUE) /\ synced' = Len(file) /\ promised' = appended
     \/ Return(FALSE) /\ UNCHANGED <<synced, promised>>
  /\ UNCHANGED <<buf_, fd_, out, rest, file, files, dirFiles, refs>>

(* ::close(), which may fail, and fd_ = -1.                                *)
CloseFd ==
  /\ pc = "close"
  /\ \E closed \in BOOLEAN : Return(status /\ closed)
  /\ fd_' = FALSE
  /\ UNCHANGED <<buf_, out, rest, disk, refs, promised>>

-----------------------------------------------------------------------------
(* Another part of the program creates a file in the same directory.       *)
CreateFile ==
  /\ pc # "dead" /\ files < MaxFiles
  /\ files' = files + 1
  /\ UNCHANGED <<memory, file, synced, dirFiles, history>>

(* Power fails: of what was written since the last fdatasync() some prefix *)
(* is on disk.                                                             *)
PowerFailure ==
  /\ pc # "dead" /\ pc' = "dead"
  /\ \E n \in synced .. Len(file) : file' = Prefix(file, n)
  /\ files' = dirFiles
  /\ UNCHANGED <<buf_, fd_, call, out, rest, status, synced, dirFiles, history>>

Step ==
  \/ \E size \in AppendSize : Append_(size)
  \/ Flush \/ Close \/ Sync
  \/ SyncDir \/ WriteSome \/ WriteFails
  \/ FlushedAppend \/ Flushed \/ DirectWritten \/ SyncFd \/ CloseFd
  \/ CreateFile \/ PowerFailure

Next == Step /\ UNCHANGED is_manifest_

Spec == Init /\ [][Next]_vars

-----------------------------------------------------------------------------
(* The bytes accepted but not yet given to the kernel.                     *)
Unwritten == CASE pc = "buffer" -> out \o rest
               [] pc = "direct" -> out
               [] OTHER -> buf_

(* Until a call returns an error, the file followed by what is still held  *)
(* back is exactly what was appended: nothing is lost, repeated or         *)
(* reordered, wherever the slices meet the end of the buffer (lines        *)
(* 262-289).  A Close() in which a write has failed is about to return it. *)
(* Even when writes fail and the client goes on, no byte is written twice  *)
(* or behind a later one (FlushBuffer() forgets the buffer, line 325).     *)
(* The state is well typed; above all, the buffer does not overflow.       *)
NothingLost ==
  /\ TypeOK
  /\ ~failed /\ status /\ pc # "dead" => file \o Unwritten = Upto(appended)
  /\ \A i, j \in 1 .. Len(file) : i < j => file[i] < file[j]

(* What had been appended when Sync() returned OK is in the file, before   *)
(* and after a power failure, if no call failed.                           *)
SyncedSurvives == ~failed => promised <= Len(file) /\ Prefix(file, promised) = Upto(promised)

(* "Ensure new files referred to by the manifest are in the filesystem.    *)
(* This needs to happen before the manifest file is flushed to disk"       *)
(* (lines 304-306): what Sync() has put on disk of a manifest refers only  *)
(* to files that a power failure leaves.                                   *)
ManifestRefersToDisk ==
  is_manifest_ => \A i \in 1 .. synced : refs[file[i]] <= dirFiles
=============================================================================
