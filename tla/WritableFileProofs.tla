------------------------- MODULE WritableFileProofs -------------------------
(***************************************************************************)
(* What PosixWritableFile keeps of the bytes it is given, for every buffer *)
(* size and every sequence of calls, failures and power failures.          *)
(*                                                                         *)
(* The three properties speak of the file; what happens to the file next   *)
(* depends on the bytes that are still held back.  The invariant is about  *)
(* both, the stream: a call either leaves the stream alone, moving bytes   *)
(* from memory to the kernel, or extends it by the bytes appended, or, when*)
(* a write fails, cuts it back to the file.                                *)
(***************************************************************************)
EXTENDS WritableFile, SequenceTheorems, TLAPS

Stream == file \o Unwritten

Increasing(q) == \A i, j \in 1 .. Len(q) : i < j => q[i] < q[j]

(* Every byte held anywhere was appended.                                  *)
Byte == 1 .. appended

Sequences_ ==
  /\ refs \in Seq(Nat) /\ files \in Nat
  /\ buf_ \in Seq(Byte) /\ out \in Seq(Byte) /\ rest \in Seq(Byte) /\ file \in Seq(Byte)

(* The bytes held back are newer than those in the file.                   *)
Ordered == Increasing(file) /\ (pc # "dead" => Increasing(Stream))

Complete == ~failed /\ status /\ pc # "dead" => Stream = Upto(appended)

(* Where bytes can be held back.                                           *)
Shape ==
  /\ pc \notin {"buffer", "direct", "dead"} => out = <<>> /\ rest = <<>>
  /\ pc = "direct" => buf_ = <<>> /\ rest = <<>> /\ call = "Append"
  /\ pc = "buffer" => call # "none" /\ (call # "Append" => rest = <<>>)
  /\ pc \in {"fdatasync", "close"} => buf_ = <<>>
  /\ pc \in {"dir", "fdatasync"} => call = "Sync"
  /\ pc = "close" => call \in {"Close", "delete"}
  /\ pc \notin {"close", "dead"} => status

(* What Sync() promised is synced, as long as no call has failed.          *)
Durable == ~failed => promised <= synced /\ file = Upto(Len(file))

(* From the sync of the directory to fdatasync() the manifest refers to    *)
(* nothing that is newer than the directory on disk.                       *)
Referenced ==
  /\ pc # "dead" => \A b \in 1 .. appended : refs[b] <= files
  /\ is_manifest_ /\ call = "Sync" /\ pc \in {"buffer", "fdatasync"} =>
       \A b \in 1 .. appended : refs[b] <= dirFiles

Inv ==
  /\ TypeOK /\ Sequences_ /\ Shape
  /\ Ordered /\ Complete /\ Durable /\ Referenced /\ ManifestRefersToDisk

-----------------------------------------------------------------------------
(* Sequences                                                               *)

LEMMA Empty == <<>> \in Seq(Nat) /\ Len(<<>>) = 0
BY EmptySeq

LEMMA Concat ==
  ASSUME NEW a \in Seq(Nat), NEW b \in Seq(Nat)
  PROVE  /\ a \o b \in Seq(Nat) /\ Len(a \o b) = Len(a) + Len(b)
         /\ \A i \in 1 .. Len(a) : (a \o b)[i] = a[i]
         /\ \A i \in 1 .. Len(b) : (a \o b)[Len(a) + i] = b[i]
         /\ a \o <<>> = a /\ <<>> \o a = a
BY ConcatProperties, ConcatEmptySeq

LEMMA Assoc ==
  ASSUME NEW a \in Seq(Nat), NEW b \in Seq(Nat), NEW c \in Seq(Nat)
  PROVE  (a \o b) \o c = a \o (b \o c)
BY ConcatAssociative

LEMMA Cut ==
  ASSUME NEW q \in Seq(Nat), NEW k \in 0 .. Len(q)
  PROVE  /\ Prefix(q, k) \in Seq(Nat) /\ Suffix(q, k) \in Seq(Nat)
         /\ Len(Prefix(q, k)) = k /\ Len(Suffix(q, k)) = Len(q) - k
         /\ \A i \in 1 .. k : Prefix(q, k)[i] = q[i]
         /\ \A i \in 1 .. Len(q) - k : Suffix(q, k)[i] = q[k + i]
         /\ Prefix(q, k) \o Suffix(q, k) = q
<1>0. Len(q) \in Nat
  OBVIOUS
<1>1. /\ SubSeq(q, 1, k) \in Seq(Nat) /\ Len(SubSeq(q, 1, k)) = k
      /\ \A i \in 1 .. k : SubSeq(q, 1, k)[i] = q[i]
  BY <1>0, SubSeqProperties
<1>2. /\ SubSeq(q, k + 1, Len(q)) \in Seq(Nat)
      /\ Len(SubSeq(q, k + 1, Len(q))) = Len(q) - k
      /\ \A i \in 1 .. Len(q) - k : SubSeq(q, k + 1, Len(q))[i] = q[k + i]
  BY <1>0, SubSeqProperties
<1>3. SubSeq(q, 1, k) \o SubSeq(q, k + 1, Len(q)) = SubSeq(q, 1, Len(q))
  <2>1. 1 \in 1 .. Len(q) + 1 /\ k \in 1 - 1 .. Len(q) /\ Len(q) \in k .. Len(q)
    BY <1>0
  <2> QED BY <2>1, ConcatAdjacentSubSeq, Zenon
<1>4. SubSeq(q, 1, Len(q)) = q
  BY SubSeqFull
<1> QED BY <1>1, <1>2, <1>3, <1>4 DEF Prefix, Suffix

(* The first part of an increasing stream is increasing, of a complete one *)
(* complete.                                                               *)
LEMMA FirstIncreasing ==
  ASSUME NEW a \in Seq(Nat), NEW b \in Seq(Nat), Increasing(a \o b)
  PROVE  Increasing(a)
<1>1. Len(a) \in Nat /\ Len(b) \in Nat
  OBVIOUS
<1> QED BY <1>1, Concat DEF Increasing

LEMMA FirstComplete ==
  ASSUME NEW a \in Seq(Nat), NEW b \in Seq(Nat), NEW k \in Nat, a \o b = Upto(k)
  PROVE  a = Upto(Len(a)) /\ Len(a) <= k
<1>0. Len(a) \in Nat /\ Len(b) \in Nat
  OBVIOUS
<1>1. Upto(k) \in Seq(Nat) /\ Len(Upto(k)) = k /\ \A i \in 1 .. k : Upto(k)[i] = i
  BY DEF Upto
<1>2. Len(a) <= k
  BY <1>0, <1>1, Concat
<1>3. \A i \in 1 .. Len(a) : a[i] = i
  BY <1>0, <1>1, <1>2, Concat
<1>4. Upto(Len(a)) \in Seq(Nat) /\ Len(Upto(Len(a))) = Len(a)
      /\ \A i \in 1 .. Len(a) : Upto(Len(a))[i] = i
  BY <1>0 DEF Upto
<1> QED BY <1>2, <1>3, <1>4, SeqEqual

(* Cutting a file keeps its order and its completeness.                    *)
LEMMA CutFile ==
  ASSUME NEW q \in Seq(Nat), NEW k \in 0 .. Len(q)
  PROVE  /\ Increasing(q) => Increasing(Prefix(q, k))
         /\ q = Upto(Len(q)) => Prefix(q, k) = Upto(k)
<1>1. /\ Prefix(q, k) \in Seq(Nat) /\ Suffix(q, k) \in Seq(Nat) /\ Len(Prefix(q, k)) = k
      /\ Prefix(q, k) \o Suffix(q, k) = q /\ Len(q) \in Nat
  BY Cut
<1>2. Increasing(q) => Increasing(Prefix(q, k))
  BY <1>1, FirstIncreasing
<1>3. ASSUME q = Upto(Len(q)) PROVE Prefix(q, k) = Upto(Len(Prefix(q, k)))
  <2>1. Prefix(q, k) \o Suffix(q, k) = Upto(Len(q))
    BY <1>1, <1>3
  <2> QED BY <1>1, <2>1, FirstComplete
<1> QED BY <1>1, <1>2, <1>3

(* The numbers that Append() gives to the bytes of its slice.              *)
LEMMA Numbered ==
  ASSUME NEW from \in Nat, NEW size \in Nat
  PROVE  LET data == [i \in 1 .. size |-> from + i]
         IN  /\ data \in Seq(Nat) /\ Len(data) = size
             /\ \A i \in 1 .. size : data[i] = from + i
             /\ Upto(from) \o data = Upto(from + size)
<1> DEFINE data == [i \in 1 .. size |-> from + i]
<1>1. data \in Seq(Nat) /\ Len(data) = size /\ \A i \in 1 .. size : data[i] = from + i
  OBVIOUS
<1>2. /\ Upto(from) \in Seq(Nat) /\ Len(Upto(from)) = from
      /\ \A i \in 1 .. from : Upto(from)[i] = i
  BY DEF Upto
<1>3. /\ Upto(from + size) \in Seq(Nat) /\ Len(Upto(from + size)) = from + size
      /\ \A i \in 1 .. from + size : Upto(from + size)[i] = i
  BY DEF Upto
<1> HIDE DEF data
<1>4. /\ Upto(from) \o data \in Seq(Nat) /\ Len(Upto(from) \o data) = from + size
      /\ \A i \in 1 .. from + size :
           (Upto(from) \o data)[i] = IF i <= from THEN Upto(from)[i] ELSE data[i - from]
  <2>1. /\ Upto(from) \o data \in Seq(Nat)
        /\ Len(Upto(from) \o data) = Len(Upto(from)) + Len(data)
        /\ \A i \in 1 .. Len(Upto(from)) + Len(data) :
             (Upto(from) \o data)[i] =
               IF i <= Len(Upto(from)) THEN Upto(from)[i] ELSE data[i - Len(Upto(from))]
    BY <1>1, <1>2, ConcatProperties, Zenon
  <2> QED BY <1>1, <1>2, <2>1
<1>5. \A i \in 1 .. from + size : (Upto(from) \o data)[i] = i
  BY <1>1, <1>2, <1>4
<1>6. Upto(from) \o data = Upto(from + size)
  BY <1>3, <1>4, <1>5, SeqEqual
<1> QED BY <1>1, <1>6 DEF data

LEMMA Typed ==
  ASSUME NEW m \in Nat, NEW q \in Seq(1 .. m)
  PROVE  /\ q \in Seq(Nat) /\ Len(q) \in Nat
         /\ \A i \in 1 .. Len(q) : q[i] \in 1 .. m
BY SeqMonotonic, ElementOfSeq, LenProperties

LEMMA Grown ==
  ASSUME NEW m \in Nat, NEW k \in Nat, NEW q \in Seq(1 .. m)
  PROVE  q \in Seq(1 .. m + k)
<1>1. 1 .. m \subseteq 1 .. m + k
  OBVIOUS
<1> QED BY <1>1, SeqMonotonic

LEMMA JoinedTyped ==
  ASSUME NEW m \in Nat, NEW a \in Seq(1 .. m), NEW b \in Seq(1 .. m)
  PROVE  a \o b \in Seq(1 .. m)
BY ConcatProperties

LEMMA CutTyped ==
  ASSUME NEW m \in Nat, NEW q \in Seq(1 .. m), NEW k \in 0 .. Len(q)
  PROVE  Prefix(q, k) \in Seq(1 .. m) /\ Suffix(q, k) \in Seq(1 .. m)
<1>1. Len(q) \in Nat /\ \A i \in 1 .. Len(q) : q[i] \in 1 .. m
  BY Typed
<1>2. k \in Int /\ 1 \in Int /\ k + 1 \in Int /\ Len(q) \in Int
  BY <1>1
<1>3. (\A i \in 1 .. k : q[i] \in 1 .. m) /\ (\A i \in k + 1 .. Len(q) : q[i] \in 1 .. m)
  BY <1>1
<1>4. SubSeq(q, 1, k) \in Seq(1 .. m)
  BY <1>2, <1>3, SubSeqProperties, Zenon
<1>5. SubSeq(q, k + 1, Len(q)) \in Seq(1 .. m)
  BY <1>2, <1>3, SubSeqProperties, Zenon
<1> QED BY <1>4, <1>5 DEF Prefix, Suffix

(* The state's sequences, as sequences of numbers.                         *)
LEMMA StateTyped ==
  Sequences_ =>
    /\ appended \in Nat
    /\ buf_ \in Seq(Nat) /\ out \in Seq(Nat) /\ rest \in Seq(Nat) /\ file \in Seq(Nat)
    /\ IsBytes(buf_) /\ IsBytes(out) /\ IsBytes(rest) /\ IsBytes(file)
<1> SUFFICES ASSUME Sequences_
    PROVE  /\ appended \in Nat
           /\ buf_ \in Seq(Nat) /\ out \in Seq(Nat) /\ rest \in Seq(Nat) /\ file \in Seq(Nat)
           /\ IsBytes(buf_) /\ IsBytes(out) /\ IsBytes(rest) /\ IsBytes(file)
  OBVIOUS
<1>1. appended \in Nat
  BY LenProperties DEF Sequences_, appended
<1> QED BY <1>1, Typed DEF Sequences_, IsBytes, Byte

-----------------------------------------------------------------------------
(* What each call does to the stream                                       *)

LEMMA UnwrittenTyped == Sequences_ => Unwritten \in Seq(Nat) /\ Stream \in Seq(Nat)
<1> SUFFICES ASSUME Sequences_ PROVE Unwritten \in Seq(Nat) /\ Stream \in Seq(Nat)
  OBVIOUS
<1>1. Unwritten \in Seq(Nat)
  BY StateTyped, Concat DEF Unwritten
<1> QED BY <1>1, StateTyped, Concat DEF Stream

(* Whatever is not appending and does not fail moves bytes, at most.       *)
LEMMA Moves ==
  ASSUME Inv,
         \/ Flush \/ Close \/ Sync \/ SyncDir \/ WriteSome \/ FlushedAppend \/ Flushed
         \/ DirectWritten \/ SyncFd \/ CloseFd \/ CreateFile
  PROVE  Stream' = Stream
<1>0. /\ buf_ \in Seq(Nat) /\ out \in Seq(Nat) /\ rest \in Seq(Nat) /\ file \in Seq(Nat)
      /\ Shape
  BY StateTyped DEF Inv
<1> USE Empty DEF disk, history, memory
<1>1. CASE Flush \/ Close \/ Sync \/ SyncDir
  <2>1. file' = file /\ buf_' = buf_ /\ rest' = rest /\ rest = <<>> /\ pc \in {"idle", "dir"}
    BY <1>0, <1>1 DEF Flush, Close, Sync, SyncDir, Begin, Shape
  <2>2. (pc' = "buffer" /\ out' = buf_) \/ pc' \in {"dir", "idle"}
    BY <1>1 DEF Flush, Close, Sync, SyncDir, StartFlush, Return
  <2>3. Unwritten = buf_ /\ Unwritten' = buf_
    BY <1>0, <2>1, <2>2, Concat DEF Unwritten
  <2> QED BY <2>1, <2>3 DEF Stream
<1>2. CASE WriteSome
  <2>1. PICK k \in 1 .. Len(out) : file' = file \o Prefix(out, k) /\ out' = Suffix(out, k)
    BY <1>2 DEF WriteSome
  <2>2. /\ Prefix(out, k) \in Seq(Nat) /\ Suffix(out, k) \in Seq(Nat)
        /\ Prefix(out, k) \o Suffix(out, k) = out
    <3>1. k \in 0 .. Len(out)
      OBVIOUS
    <3> QED BY <1>0, <3>1, Cut
  <2>3. pc \in {"buffer", "direct"} /\ pc' = pc /\ rest' = rest
    BY <1>2 DEF WriteSome
  <2>4. (file \o Prefix(out, k)) \o Suffix(out, k) = file \o out
    <3>1. (file \o Prefix(out, k)) \o Suffix(out, k) = file \o (Prefix(out, k) \o Suffix(out, k))
      BY <1>0, <2>2, Assoc
    <3> QED BY <2>2, <3>1
  <2>5. CASE pc = "direct"
    BY <2>1, <2>3, <2>4, <2>5 DEF Stream, Unwritten
  <2>6. CASE pc = "buffer"
    <3>1. Stream = file \o (out \o rest)
      BY <2>6 DEF Stream, Unwritten
    <3>2. Stream' = (file \o Prefix(out, k)) \o (Suffix(out, k) \o rest)
      BY <2>1, <2>3, <2>6 DEF Stream, Unwritten
    <3>3. file \o Prefix(out, k) \in Seq(Nat)
      BY <1>0, <2>2, Concat
    <3>4. (file \o Prefix(out, k)) \o (Suffix(out, k) \o rest)
            = ((file \o Prefix(out, k)) \o Suffix(out, k)) \o rest
      BY <1>0, <2>2, <3>3, Assoc
    <3>5. Stream' = (file \o out) \o rest
      BY <2>4, <3>2, <3>4
    <3> QED BY <1>0, <3>1, <3>5, Assoc
  <2> QED BY <2>3, <2>5, <2>6
<1>3. CASE FlushedAppend
  <2>1. pc = "buffer" /\ out = <<>> /\ file' = file
    BY <1>3 DEF FlushedAppend
  <2>2. Unwritten = rest
    BY <1>0, <2>1, Concat DEF Unwritten
  <2>3. (buf_' = rest /\ pc' = "idle") \/ (pc' = "direct" /\ out' = rest)
    <3>1. CASE Len(rest) < kWritableFileBufferSize
      <4>1. buf_' = rest /\ Return(TRUE)
        BY <1>3, <3>1 DEF FlushedAppend
      <4> QED BY <4>1 DEF Return
    <3>2. CASE ~(Len(rest) < kWritableFileBufferSize)
      BY <1>3, <3>2 DEF FlushedAppend
    <3> QED BY <3>1, <3>2
  <2> QED BY <2>1, <2>2, <2>3 DEF Stream, Unwritten
<1>4. CASE Flushed
  <2>1. pc = "buffer" /\ out = <<>> /\ rest = <<>> /\ file' = file /\ buf_' = <<>>
    BY <1>0, <1>4 DEF Flushed, Shape
  <2>2. pc' \in {"idle", "fdatasync", "close"}
    BY <1>4 DEF Flushed, Return
  <2>3. Unwritten = <<>> /\ Unwritten' = <<>>
    BY <1>0, <2>1, <2>2, Concat DEF Unwritten
  <2> QED BY <2>1, <2>3 DEF Stream
<1>5. CASE DirectWritten \/ SyncFd \/ CloseFd
  <2>1. /\ pc \in {"direct", "fdatasync", "close"} /\ out = <<>> /\ buf_ = <<>>
        /\ file' = file /\ buf_' = buf_ /\ pc' = "idle"
    BY <1>0, <1>5 DEF DirectWritten, SyncFd, CloseFd, Return, Shape
  <2>2. Unwritten = <<>> /\ Unwritten' = <<>>
    BY <2>1 DEF Unwritten
  <2> QED BY <2>1, <2>2 DEF Stream
<1>6. CASE CreateFile
  BY <1>6 DEF CreateFile, Stream, Unwritten
<1> QED BY <1>1, <1>2, <1>3, <1>4, <1>5, <1>6

(* A write that fails loses what is held back.                             *)
LEMMA Loses == ASSUME Inv, WriteFails PROVE Stream' = file /\ Unwritten' = <<>>
<1>1. file \in Seq(Nat) /\ Shape
  BY StateTyped DEF Inv
<1>2. buf_' = <<>> /\ file' = file
  BY <1>1 DEF WriteFails, disk, Shape
<1>3. pc' \in {"idle", "close"}
  BY DEF WriteFails, Return
<1>4. Unwritten' = <<>>
  BY <1>2, <1>3 DEF Unwritten
<1> QED BY <1>1, <1>2, <1>4, Concat DEF Stream

(* Append() extends the stream by its slice, wherever the slice is cut.    *)
LEMMA Extends ==
  ASSUME Inv, NEW size \in AppendSize, Append_(size)
  PROVE  /\ Stream' = Stream \o [i \in 1 .. size |-> appended + i]
         /\ appended' = appended + size /\ pc' \in {"idle", "buffer"}
<1> DEFINE data == [i \in 1 .. size |-> appended + i]
           copy_size == Min(size, kWritableFileBufferSize - Len(buf_))
           buffered == buf_ \o Prefix(data, copy_size)
<1>0. /\ buf_ \in Seq(Nat) /\ file \in Seq(Nat) /\ refs \in Seq(Nat) /\ files \in Nat
      /\ size \in Nat /\ kWritableFileBufferSize \in Nat /\ Len(buf_) <= kWritableFileBufferSize
      /\ appended \in Nat /\ pc = "idle"
  <2>1. /\ buf_ \in Seq(Nat) /\ file \in Seq(Nat) /\ appended \in Nat
        /\ refs \in Seq(Nat) /\ files \in Nat
    BY StateTyped DEF Inv, Sequences_
  <2> QED BY <2>1, BufferAssumption, BoundsAssumption DEF Inv, TypeOK, Append_
<1>1. data \in Seq(Nat) /\ Len(data) = size
  BY <1>0, Numbered
<1>2. copy_size \in 0 .. Len(data) /\ (copy_size = size => Suffix(data, copy_size) = <<>>)
  <2>1. copy_size \in 0 .. Len(data)
    BY <1>0, <1>1 DEF Min
  <2>2. copy_size = size => Len(Suffix(data, copy_size)) = 0 /\ Suffix(data, copy_size) \in Seq(Nat)
    BY <1>1, <2>1, Cut
  <2> QED BY <2>1, <2>2, EmptySeq
<1> HIDE DEF copy_size
<1>3. /\ buf_' = buffered /\ rest' = Suffix(data, copy_size) /\ file' = file
      /\ refs' = refs \o [i \in 1 .. size |-> files]
      /\ \/ copy_size = size /\ pc' = pc
         \/ pc' = "buffer" /\ out' = buffered
  BY DEF Append_, StartFlush, disk, copy_size
<1> HIDE DEF data
<1>4. /\ Prefix(data, copy_size) \in Seq(Nat) /\ Suffix(data, copy_size) \in Seq(Nat)
      /\ Prefix(data, copy_size) \o Suffix(data, copy_size) = data
  BY <1>1, <1>2, Cut
<1>5. buffered \in Seq(Nat) /\ buffered \o Suffix(data, copy_size) = buf_ \o data
  <2>1. buffered \in Seq(Nat)
    BY <1>0, <1>4, Concat
  <2>2. buffered \o Suffix(data, copy_size)
          = buf_ \o (Prefix(data, copy_size) \o Suffix(data, copy_size))
    BY <1>0, <1>4, Assoc
  <2> QED BY <1>4, <2>1, <2>2
<1> HIDE DEF buffered
<1>6. Unwritten' = buf_ \o data
  <2>1. CASE pc' = "buffer" /\ out' = buffered
    BY <1>3, <1>5, <2>1 DEF Unwritten
  <2>2. CASE copy_size = size /\ pc' = pc
    BY <1>0, <1>2, <1>3, <1>5, <2>2, Concat DEF Unwritten
  <2> QED BY <1>3, <2>1, <2>2
<1>7. Unwritten = buf_
  BY <1>0 DEF Unwritten
<1>8. Stream' = Stream \o data
  BY <1>0, <1>1, <1>3, <1>6, <1>7, Assoc DEF Stream
<1>9. appended' = appended + size
  <2>1. [i \in 1 .. size |-> files] \in Seq(Nat) /\ Len([i \in 1 .. size |-> files]) = size
    BY <1>0
  <2> QED BY <1>0, <1>3, <2>1, Concat DEF appended
<1> QED BY <1>0, <1>3, <1>8, <1>9 DEF data

-----------------------------------------------------------------------------
(* The invariant, conjunct by conjunct                                     *)

LEMMA InitInv == Init => Inv
<1> SUFFICES ASSUME Init PROVE Inv
  OBVIOUS
<1> USE Empty, BufferAssumption DEF Init
<1>1. Sequences_ /\ Shape /\ appended = 0
  BY EmptySeq DEF Sequences_, Shape, appended
<1>2. TypeOK
  <2>1. IsBytes(buf_) /\ IsBytes(out) /\ IsBytes(rest) /\ IsBytes(file)
    BY <1>1, StateTyped
  <2>2. Len(buf_) <= kWritableFileBufferSize /\ synced \in 0 .. Len(file) /\ dirFiles \in 0 .. files
    OBVIOUS
  <2> QED BY <1>1, <2>1, <2>2 DEF TypeOK
<1>3. Unwritten = <<>> /\ Stream = <<>>
  BY Concat DEF Unwritten, Stream
<1>4. Upto(0) = <<>>
  BY DEF Upto
<1>5. Ordered
  BY <1>3 DEF Ordered, Increasing
<1>6. Complete /\ Durable
  BY <1>1, <1>3, <1>4 DEF Complete, Durable
<1>7. Referenced /\ ManifestRefersToDisk
  BY <1>1 DEF Referenced, ManifestRefersToDisk
<1> QED BY <1>1, <1>2, <1>5, <1>6, <1>7 DEF Inv

(* The steps that leave the bytes in memory and in the file as they are.   *)
Quiet == Flush \/ Close \/ Sync \/ SyncDir \/ DirectWritten \/ SyncFd \/ CloseFd \/ CreateFile

LEMMA StepSplit ==
  Step <=> \/ \E size \in AppendSize : Append_(size)
           \/ Quiet \/ WriteSome \/ WriteFails \/ FlushedAppend \/ Flushed \/ PowerFailure
BY DEF Step, Quiet

LEMMA QuietKeeps ==
  ASSUME Quiet
  PROVE  /\ buf_' = buf_ /\ rest' = rest /\ file' = file /\ refs' = refs
         /\ out' = out \/ out' = buf_
BY DEF Quiet, Flush, Close, Sync, SyncDir, DirectWritten, SyncFd, CloseFd, CreateFile, StartFlush,
       memory, disk, history

(* Every byte held anywhere was appended, and the buffer does not overflow.*)
LEMMA NextTypes ==
  ASSUME Inv, Step
  PROVE  Sequences_' /\ (Len(buf_) <= kWritableFileBufferSize)'
<1> DEFINE Goal == Sequences_' /\ (Len(buf_) <= kWritableFileBufferSize)'
<1>0. /\ Sequences_ /\ appended \in Nat /\ dirFiles \in Nat /\ Len(buf_) \in Nat
      /\ Len(buf_) <= kWritableFileBufferSize /\ kWritableFileBufferSize \in Nat
      /\ Len(file) \in Nat /\ synced \in 0 .. Len(file)
  <2>1. dirFiles \in 0 .. files /\ files \in Nat
    BY DEF Inv, TypeOK, Sequences_
  <2> QED BY <2>1, StateTyped, BufferAssumption DEF Inv, TypeOK
<1>a. \A S : <<>> \in Seq(S)
  BY EmptySeq
<1>1. ASSUME Quiet PROVE Goal
  <2>1. files' \in Nat
    <3>1. files' \in {files, files + 1}
      BY <1>1 DEF Quiet, Flush, Close, Sync, SyncDir, DirectWritten, SyncFd, CloseFd,
                  CreateFile, disk
    <3> QED BY <1>0, <3>1 DEF Sequences_
  <2> QED BY <1>0, <1>1, <2>1, QuietKeeps DEF Sequences_, Byte, appended
<1>2. ASSUME WriteSome PROVE Goal
  <2>1. PICK k \in 1 .. Len(out) : file' = file \o Prefix(out, k) /\ out' = Suffix(out, k)
    BY <1>2 DEF WriteSome
  <2>2. out \in Seq(1 .. appended) /\ file \in Seq(1 .. appended) /\ k \in 0 .. Len(out)
    BY <1>0 DEF Sequences_, Byte
  <2>3. Prefix(out, k) \in Seq(1 .. appended) /\ Suffix(out, k) \in Seq(1 .. appended)
    BY <1>0, <2>2, CutTyped
  <2>4. file' \in Seq(1 .. appended)
    BY <1>0, <2>1, <2>2, <2>3, JoinedTyped
  <2>5. buf_' = buf_ /\ rest' = rest /\ refs' = refs /\ files' = files
    BY <1>2 DEF WriteSome, history
  <2> QED BY <1>0, <2>1, <2>3, <2>4, <2>5 DEF Sequences_, Byte, appended
<1>3. ASSUME WriteFails \/ FlushedAppend \/ Flushed PROVE Goal
  <2>1. file' = file /\ refs' = refs /\ files' = files
    BY <1>3 DEF WriteFails, FlushedAppend, Flushed, disk
  <2>2. /\ \/ buf_' \in {<<>>, buf_}
           \/ buf_' = rest /\ Len(rest) < kWritableFileBufferSize
        /\ out' \in {<<>>, out, rest} /\ rest' \in {<<>>, rest}
    <3>1. CASE WriteFails \/ Flushed
      BY <3>1 DEF WriteFails, Flushed
    <3>2. CASE FlushedAppend
      BY <3>2 DEF FlushedAppend
    <3> QED BY <1>3, <3>1, <3>2
  <2>3. Sequences_'
    BY <1>0, <1>a, <2>1, <2>2 DEF Sequences_, Byte, appended
  <2>4. Len(rest) \in Nat
    BY <1>0, StateTyped
  <2> QED BY <1>0, <2>2, <2>3, <2>4, Empty
<1>4. ASSUME NEW size \in AppendSize, Append_(size) PROVE Goal
  <2> DEFINE data == [i \in 1 .. size |-> appended + i]
             copy_size == Min(size, kWritableFileBufferSize - Len(buf_))
             buffered == buf_ \o Prefix(data, copy_size)
  <2>0. size \in Nat
    BY BoundsAssumption
  <2>1. data \in Seq(1 .. appended + size) /\ Len(data) = size
    BY <1>0, <2>0
  <2>2. copy_size \in 0 .. Len(data) /\ Len(buf_) + copy_size <= kWritableFileBufferSize
    BY <1>0, <2>0, <2>1 DEF Min
  <2>3. /\ buf_' = buffered /\ rest' = Suffix(data, copy_size) /\ file' = file /\ files' = files
        /\ refs' = refs \o [i \in 1 .. size |-> files]
        /\ out' = out \/ out' = buffered
    BY <1>4 DEF Append_, StartFlush, disk
  <2>4. appended' = appended + size /\ appended + size \in Nat
    BY <1>0, <1>4, <2>0, Extends
  <2>5. refs' \in Seq(Nat)
    BY <1>0, <2>0, <2>3, Concat DEF Sequences_
  <2> HIDE DEF data, copy_size
  <2>6. Prefix(data, copy_size) \in Seq(1 .. appended + size)
        /\ Suffix(data, copy_size) \in Seq(1 .. appended + size)
    BY <2>1, <2>2, <2>4, CutTyped
  <2>7. /\ buf_ \in Seq(1 .. appended + size) /\ out \in Seq(1 .. appended + size)
        /\ file \in Seq(1 .. appended + size)
    BY <1>0, <2>0, Grown DEF Sequences_, Byte
  <2>8. buffered \in Seq(1 .. appended + size)
    BY <2>4, <2>6, <2>7, JoinedTyped
  <2>9. Len(buffered) <= kWritableFileBufferSize
    <3>1. Len(Prefix(data, copy_size)) = copy_size
      <4>1. data \in Seq(Nat)
        BY <2>1, <2>4, Typed
      <4> QED BY <2>2, <4>1, Cut
    <3>2. Len(buffered) = Len(buf_) + Len(Prefix(data, copy_size))
      BY <2>6, <2>7, ConcatProperties
    <3> QED BY <2>2, <3>1, <3>2
  <2> HIDE DEF buffered
  <2> QED BY <1>0, <2>3, <2>4, <2>5, <2>6, <2>7, <2>8, <2>9 DEF Sequences_, Byte
<1>5. ASSUME PowerFailure PROVE Goal
  <2>1. PICK k \in synced .. Len(file) : file' = Prefix(file, k)
    BY <1>5 DEF PowerFailure
  <2>2. k \in 0 .. Len(file)
    BY <1>0
  <2>3. file' \in Seq(Byte)
    BY <1>0, <2>1, <2>2, CutTyped DEF Sequences_, Byte
  <2>4. buf_' = buf_ /\ out' = out /\ rest' = rest /\ refs' = refs /\ files' = dirFiles
    BY <1>5 DEF PowerFailure, history
  <2> QED BY <1>0, <2>3, <2>4 DEF Sequences_, Byte, appended
<1> QED BY <1>1, <1>2, <1>3, <1>4, <1>5, StepSplit

LEMMA NextShape ==
  ASSUME Inv, Step
  PROVE  /\ Shape'
         /\ pc' \in {"idle", "dir", "buffer", "direct", "fdatasync", "close", "dead"}
         /\ call' \in {"none", "Append", "Flush", "Sync", "Close", "delete"}
         /\ fd_' \in BOOLEAN /\ status' \in BOOLEAN /\ failed' \in BOOLEAN
<1> DEFINE Goal ==
             /\ Shape'
             /\ pc' \in {"idle", "dir", "buffer", "direct", "fdatasync", "close", "dead"}
             /\ call' \in {"none", "Append", "Flush", "Sync", "Close", "delete"}
             /\ fd_' \in BOOLEAN /\ status' \in BOOLEAN /\ failed' \in BOOLEAN
<1>0. /\ Shape
      /\ pc \in {"idle", "dir", "buffer", "direct", "fdatasync", "close", "dead"}
      /\ call \in {"none", "Append", "Flush", "Sync", "Close", "delete"}
      /\ fd_ \in BOOLEAN /\ status \in BOOLEAN /\ failed \in BOOLEAN
  BY DEF Inv, TypeOK
<1>1. ASSUME NEW size \in AppendSize, Append_(size) PROVE Goal
  <2>1. pc = "idle" /\ fd_' = fd_ /\ status' = status /\ failed' = failed
    BY <1>1 DEF Append_
  <2>2. \/ pc' = "buffer" /\ call' = "Append"
        \/ pc' = pc /\ call' = call /\ out' = out /\ rest' = <<>>
    <3> DEFINE data == [i \in 1 .. size |-> appended + i]
               copy_size == Min(size, kWritableFileBufferSize - Len(buf_))
    <3>1. CASE copy_size = size
      <4>1. pc' = pc /\ call' = call /\ out' = out /\ rest' = Suffix(data, size)
        BY <1>1, <3>1 DEF Append_
      <4>2. data \in Seq(Nat) /\ Len(data) = size /\ size \in Nat
        <5>1. appended \in Nat /\ size \in Nat
          BY StateTyped, BoundsAssumption DEF Inv
        <5> QED BY <5>1
      <4> HIDE DEF data
      <4>3. Suffix(data, size) \in Seq(Nat) /\ Len(Suffix(data, size)) = 0
        BY <4>2, Cut
      <4> QED BY <4>1, <4>3, EmptySeq
    <3>2. CASE copy_size # size
      BY <1>1, <3>2 DEF Append_, StartFlush
    <3> QED BY <3>1, <3>2
  <2> QED BY <1>0, <2>1, <2>2 DEF Shape
<1>2. ASSUME Flush \/ Close \/ Sync PROVE Goal
  BY <1>0, <1>2 DEF Flush, Close, Sync, Begin, StartFlush, Shape, history
<1>3. ASSUME SyncDir PROVE Goal
  BY <1>0, <1>3 DEF SyncDir, StartFlush, Return, Shape
<1>4. ASSUME WriteSome PROVE Goal
  BY <1>0, <1>4 DEF WriteSome, Shape, history
<1>5. ASSUME WriteFails PROVE Goal
  BY <1>0, <1>5 DEF WriteFails, Return, Shape
<1>6. ASSUME FlushedAppend PROVE Goal
  <2>1. CASE Len(rest) < kWritableFileBufferSize
    BY <1>0, <1>6, <2>1 DEF FlushedAppend, Return, Shape
  <2>2. CASE ~(Len(rest) < kWritableFileBufferSize)
    BY <1>0, <1>6, <2>2 DEF FlushedAppend, Shape
  <2> QED BY <2>1, <2>2
<1>7. ASSUME Flushed PROVE Goal
  BY <1>0, <1>7 DEF Flushed, Return, Shape
<1>8. ASSUME DirectWritten \/ SyncFd \/ CloseFd PROVE Goal
  BY <1>0, <1>8 DEF DirectWritten, SyncFd, CloseFd, Return, Shape
<1>9. ASSUME CreateFile PROVE Goal
  BY <1>0, <1>9 DEF CreateFile, Shape, memory, history
<1>10. ASSUME PowerFailure PROVE Goal
  BY <1>0, <1>10 DEF PowerFailure, Shape, history
<1> QED BY <1>1, <1>2, <1>3, <1>4, <1>5, <1>6, <1>7, <1>8, <1>9, <1>10 DEF Step

(* No step hides an error: when no call has failed afterwards, none had    *)
(* before, and the stream was not cut.                                     *)
LEMMA ErrorsTold ==
  ASSUME Inv, Step, ~failed', status', pc' # "dead"
  PROVE  ~failed /\ status /\ pc # "dead" /\ ~WriteFails
<1>0. Shape /\ failed \in BOOLEAN /\ status \in BOOLEAN
  BY DEF Inv, TypeOK
<1>1. ~WriteFails
  BY <1>0 DEF WriteFails, Return
<1>2. pc # "dead"
  BY <1>1 DEF Step, Append_, Flush, Close, Sync, SyncDir, WriteSome, FlushedAppend, Flushed,
              DirectWritten, SyncFd, CloseFd, CreateFile, PowerFailure, Begin
<1>3. ~failed
  BY <1>0, <1>1 DEF Step, Append_, Flush, Close, Sync, SyncDir, WriteSome, FlushedAppend, Flushed,
              DirectWritten, SyncFd, CloseFd, CreateFile, PowerFailure, Return, history
<1>4. status
  <2>1. CASE pc # "close"
    BY <1>0, <1>2, <2>1 DEF Shape
  <2>2. CASE pc = "close" /\ CreateFile
    BY <2>2 DEF CreateFile, memory
  <2>3. CASE pc = "close" /\ CloseFd
    BY <1>0, <2>3 DEF CloseFd, Return
  <2> QED BY <1>1, <2>1, <2>2, <2>3
          DEF Step, Append_, Flush, Close, Sync, SyncDir, WriteSome, FlushedAppend, Flushed,
              DirectWritten, SyncFd, PowerFailure, Begin
<1> QED BY <1>1, <1>2, <1>3, <1>4

(* What becomes of the stream, in one place.                               *)
LEMMA StreamSteps ==
  ASSUME Inv, Step
  PROVE  \/ PowerFailure
         \/ WriteFails /\ Stream' = file
         \/ Stream' = Stream /\ appended' = appended
         \/ \E size \in AppendSize :
              /\ Stream' = Stream \o [i \in 1 .. size |-> appended + i]
              /\ appended' = appended + size
<1>1. ASSUME Flush \/ Close \/ Sync \/ SyncDir \/ WriteSome \/ FlushedAppend \/ Flushed
             \/ DirectWritten \/ SyncFd \/ CloseFd \/ CreateFile
      PROVE  appended' = appended
  BY <1>1 DEF Flush, Close, Sync, SyncDir, WriteSome, FlushedAppend, Flushed, DirectWritten,
              SyncFd, CloseFd, CreateFile, history, appended
<1> QED BY <1>1, Moves, Loses, Extends DEF Step

LEMMA NextOrdered == ASSUME Inv, Step PROVE Ordered'
<1>0. /\ Sequences_' /\ Unwritten' \in Seq(Nat) /\ file' \in Seq(Nat) /\ Stream \in Seq(Nat)
      /\ file \in Seq(Nat) /\ appended \in Nat /\ Stream' = file' \o Unwritten'
  <2>1. Sequences_ /\ Sequences_'
    BY NextTypes DEF Inv
  <2>2. (Unwritten \in Seq(Nat))' /\ (file \in Seq(Nat))'
    BY <2>1, UnwrittenTyped, StateTyped, PTL
  <2> QED BY <2>1, <2>2, UnwrittenTyped, StateTyped DEF Stream
<1>1. pc # "dead"
  BY DEF Step, Append_, Flush, Close, Sync, SyncDir, WriteSome, WriteFails, FlushedAppend, Flushed,
         DirectWritten, SyncFd, CloseFd, CreateFile, PowerFailure, Begin
<1>2. Increasing(file) /\ Increasing(Stream)
  BY <1>1 DEF Inv, Ordered
<1>3. CASE PowerFailure
  <2>1. PICK k \in synced .. Len(file) : file' = Prefix(file, k)
    BY <1>3 DEF PowerFailure
  <2>2. k \in 0 .. Len(file)
    BY <1>0 DEF Inv, TypeOK
  <2>3. Increasing(file')
    BY <1>0, <1>2, <2>1, <2>2, CutFile
  <2> QED BY <1>3, <2>3 DEF PowerFailure, Ordered, Increasing
<1>4. ASSUME Increasing(Stream') PROVE Ordered'
  <2>1. Increasing(file')
    BY <1>0, <1>4, FirstIncreasing
  <2> QED BY <1>4, <2>1 DEF Ordered, Increasing
<1>5. ASSUME NEW size \in AppendSize, Stream' = Stream \o [i \in 1 .. size |-> appended + i]
      PROVE  Increasing(Stream')
  <2> DEFINE data == [i \in 1 .. size |-> appended + i]
  <2>1. /\ data \in Seq(Nat) /\ Len(data) = size /\ size \in Nat
        /\ \A i \in 1 .. size : data[i] = appended + i
    BY <1>0, BoundsAssumption
  <2> HIDE DEF data
  <2>2. /\ Len(Stream') = Len(Stream) + size
        /\ \A i \in 1 .. Len(Stream) + size :
             Stream'[i] = IF i <= Len(Stream) THEN Stream[i] ELSE data[i - Len(Stream)]
    BY <1>0, <1>5, <2>1, ConcatProperties DEF data
  <2>3. \A i \in 1 .. Len(Stream) : Stream[i] \in 1 .. appended
    <3>1. \A q : q \in Seq(1 .. appended) => \A i \in 1 .. Len(q) : q[i] \in 1 .. appended
      BY <1>0, Typed
    <3>2. Unwritten \in Seq(1 .. appended) /\ file \in Seq(1 .. appended)
      BY <1>0, JoinedTyped DEF Inv, Sequences_, Byte, Unwritten
    <3>3. Stream \in Seq(1 .. appended)
      BY <1>0, <3>2, JoinedTyped DEF Stream
    <3> QED BY <3>1, <3>3
  <2>4. Len(Stream) \in Nat
    BY <1>0
  <2>5. ASSUME NEW i \in 1 .. Len(Stream'), NEW j \in 1 .. Len(Stream'), i < j
        PROVE  Stream'[i] < Stream'[j]
    <3>1. CASE j <= Len(Stream)
      BY <1>2, <2>1, <2>2, <2>4, <2>5, <3>1 DEF Increasing
    <3>2. CASE i <= Len(Stream) /\ ~(j <= Len(Stream))
      <4>1. Stream'[i] = Stream[i] /\ Stream[i] \in 1 .. appended
        BY <2>1, <2>2, <2>3, <2>4, <3>2
      <4>2. Stream'[j] = appended + (j - Len(Stream)) /\ j - Len(Stream) \in 1 .. size
        BY <2>1, <2>2, <2>4, <3>2
      <4>3. \A a \in 1 .. appended, b \in 1 .. size : a < appended + b
        BY <1>0, <2>1
      <4> QED BY <4>1, <4>2, <4>3
    <3>3. CASE ~(i <= Len(Stream))
      <4>1. /\ Stream'[i] = appended + (i - Len(Stream)) /\ i \in Nat
            /\ Stream'[j] = appended + (j - Len(Stream)) /\ j \in Nat
        BY <2>1, <2>2, <2>4, <2>5, <3>3
      <4> QED BY <1>0, <2>4, <2>5, <4>1
    <3> QED BY <3>1, <3>2, <3>3
  <2> QED BY <2>5 DEF Increasing
<1> QED BY <1>2, <1>3, <1>4, <1>5, StreamSteps

LEMMA NextComplete == ASSUME Inv, Step PROVE Complete'
<1>0. appended \in Nat
  BY StateTyped DEF Inv
<1> SUFFICES ASSUME ~failed', status', pc' # "dead"
             PROVE  Stream' = Upto(appended')
  BY DEF Complete, Upto
<1>1. ~failed /\ status /\ pc # "dead" /\ ~WriteFails
  BY ErrorsTold
<1>2. Stream = Upto(appended)
  BY <1>1 DEF Inv, Complete
<1>3. ~PowerFailure
  BY DEF PowerFailure
<1>4. ASSUME NEW size \in AppendSize, Stream' = Stream \o [i \in 1 .. size |-> appended + i],
             appended' = appended + size
      PROVE  Stream' = Upto(appended')
  <2>1. size \in Nat
    BY BoundsAssumption
  <2> QED BY <1>0, <1>2, <1>4, <2>1, Numbered
<1> QED BY <1>1, <1>2, <1>3, <1>4, StreamSteps

LEMMA NextDurable ==
  ASSUME Inv, Step
  PROVE  Durable' /\ (synced \in 0 .. Len(file))' /\ (promised \in 0 .. appended)'
<1>0. /\ Sequences_ /\ Sequences_' /\ file \in Seq(Nat) /\ Len(file) \in Nat /\ appended \in Nat
      /\ file' \in Seq(Nat) /\ Unwritten' \in Seq(Nat) /\ Stream' = file' \o Unwritten'
      /\ appended' \in Nat /\ Len(file') \in Nat
  <2>1. Sequences_ /\ Sequences_'
    BY NextTypes DEF Inv
  <2>2. (Unwritten \in Seq(Nat))' /\ (file \in Seq(Nat))' /\ (appended \in Nat)'
    BY <2>1, UnwrittenTyped, StateTyped, PTL
  <2> QED BY <2>1, <2>2, StateTyped DEF Stream
<1>a. synced \in 0 .. Len(file) /\ promised \in 0 .. appended /\ failed \in BOOLEAN
  BY DEF Inv, TypeOK
<1>1. CASE PowerFailure
  <2>1. PICK k \in synced .. Len(file) : file' = Prefix(file, k)
    BY <1>1 DEF PowerFailure
  <2>2. k \in 0 .. Len(file)
    BY <1>0, <1>a
  <2>3. Len(file') = k
    BY <1>0, <2>1, <2>2, Cut
  <2>4. synced' = synced /\ promised' = promised /\ failed' = failed /\ appended' = appended
    BY <1>1 DEF PowerFailure, history, appended
  <2>5. ~failed => file' = Upto(k)
    BY <1>0, <2>1, <2>2, CutFile DEF Inv, Durable
  <2> QED BY <1>0, <1>a, <2>2, <2>3, <2>4, <2>5 DEF Inv, Durable, Upto
<1>2. CASE SyncFd
  <2>1. file' = file /\ appended' = appended /\ pc = "fdatasync"
    BY <1>2 DEF SyncFd, appended
  <2>2. CASE synced' = synced /\ promised' = promised /\ Return(FALSE)
    BY <1>0, <1>a, <2>1, <2>2 DEF Inv, Durable, Return
  <2>3. CASE Return(TRUE) /\ synced' = Len(file) /\ promised' = appended
    <3>1. failed' = failed
      BY <1>a, <2>3 DEF Return
    <3>2. ASSUME ~failed PROVE Len(file) = appended /\ file = Upto(appended)
      <4>1. status /\ buf_ = <<>>
        BY <2>1 DEF Inv, Shape
      <4>2. Unwritten = <<>>
        BY <2>1, <4>1 DEF Unwritten
      <4>3. Stream = file
        BY <1>0, <4>2, Concat DEF Stream
      <4>4. file = Upto(appended)
        BY <2>1, <3>2, <4>1, <4>3 DEF Inv, Complete
      <4>5. Len(Upto(appended)) = appended
        BY <1>0 DEF Upto
      <4> QED BY <4>4, <4>5
    <3> QED BY <1>0, <1>a, <2>1, <2>3, <3>1, <3>2 DEF Durable
  <2> QED BY <1>2, <2>2, <2>3 DEF SyncFd
<1>3. CASE ~PowerFailure /\ ~SyncFd
  <2>1. synced' = synced /\ promised' = promised
    BY <1>3 DEF Step, Append_, Flush, Close, Sync, SyncDir, WriteSome, WriteFails, FlushedAppend,
                Flushed, DirectWritten, CloseFd, CreateFile, disk, history
  <2>2. failed => failed'
    BY <1>3, <1>a DEF Step, Append_, Flush, Close, Sync, SyncDir, WriteSome, WriteFails,
                FlushedAppend, Flushed, DirectWritten, CloseFd, CreateFile, Return, history
  <2>3. file' = file \/ WriteSome
    BY <1>3 DEF Step, Append_, Flush, Close, Sync, SyncDir, WriteFails, FlushedAppend,
                Flushed, DirectWritten, CloseFd, CreateFile, disk
  <2>4. Len(file) <= Len(file')
    <3>1. ASSUME WriteSome PROVE Len(file) <= Len(file')
      <4>1. PICK k \in 1 .. Len(out) : file' = file \o Prefix(out, k)
        BY <3>1 DEF WriteSome
      <4>2. out \in Seq(Nat) /\ k \in 0 .. Len(out)
        BY <1>0, StateTyped
      <4>3. Prefix(out, k) \in Seq(Nat) /\ Len(Prefix(out, k)) \in Nat
        BY <4>2, Cut
      <4> QED BY <1>0, <4>1, <4>3, Concat
    <3> QED BY <1>0, <2>3, <3>1
  <2>5. appended <= appended'
    <3>1. ASSUME NEW size \in AppendSize, Append_(size) PROVE appended <= appended'
      <4>1. appended' = appended + size /\ size \in Nat
        BY <3>1, Extends, BoundsAssumption
      <4> QED BY <1>0, <4>1
    <3>2. ASSUME ~\E size \in AppendSize : Append_(size) PROVE appended' = appended
      BY <1>3, <3>2 DEF Step, Flush, Close, Sync, SyncDir, WriteSome, WriteFails, FlushedAppend,
                  Flushed, DirectWritten, CloseFd, CreateFile, history, appended
    <3> QED BY <1>0, <3>1, <3>2
  <2>6. ASSUME ~failed', WriteSome PROVE file' = Upto(Len(file'))
    <3>1. status' /\ pc' # "dead"
      BY <2>6 DEF WriteSome, Inv, Shape
    <3>2. Stream' = Upto(appended')
      BY <2>6, <3>1, NextComplete DEF Complete, Upto
    <3> QED BY <1>0, <3>2, FirstComplete
  <2>7. ~failed' => file' = Upto(Len(file'))
    BY <2>2, <2>3, <2>6 DEF Inv, Durable
  <2> QED BY <1>0, <1>a, <2>1, <2>2, <2>4, <2>5, <2>7 DEF Inv, Durable, Upto
<1> QED BY <1>1, <1>2, <1>3

(* No byte's reference changes once it is appended.                        *)
LEMMA RefsGrow ==
  ASSUME Inv, Step
  PROVE  /\ appended \in Nat /\ appended' \in Nat /\ appended <= appended'
         /\ \A b \in 1 .. appended : refs'[b] = refs[b] /\ refs[b] \in Nat
         /\ \A b \in 1 .. appended' : b \notin 1 .. appended => refs'[b] = files
         /\ appended' # appended => files' = files /\ pc = "idle" /\ dirFiles' = dirFiles
<1>0. refs \in Seq(Nat) /\ appended \in Nat /\ files \in Nat /\ Len(refs) = appended
  BY StateTyped DEF Inv, Sequences_, appended
<1>1. ASSUME NEW size \in AppendSize, Append_(size)
      PROVE  /\ appended' = appended + size /\ size \in Nat
             /\ \A b \in 1 .. appended : refs'[b] = refs[b]
             /\ \A b \in 1 .. appended' : b \notin 1 .. appended => refs'[b] = files
             /\ files' = files /\ pc = "idle" /\ dirFiles' = dirFiles
  <2> DEFINE new == [i \in 1 .. size |-> files]
  <2>1. size \in Nat /\ refs' = refs \o new /\ files' = files /\ pc = "idle" /\ dirFiles' = dirFiles
    BY <1>1, BoundsAssumption DEF Append_, disk
  <2>2. new \in Seq(Nat) /\ Len(new) = size /\ \A i \in 1 .. size : new[i] = files
    BY <1>0, <2>1
  <2> HIDE DEF new
  <2>3. appended' = appended + size
    BY <1>1, Extends
  <2>4. \A i \in 1 .. appended + size :
           refs'[i] = IF i <= appended THEN refs[i] ELSE new[i - appended]
    BY <1>0, <2>1, <2>2, ConcatProperties
  <2> QED BY <1>0, <2>1, <2>2, <2>3, <2>4
<1>2. ASSUME ~\E size \in AppendSize : Append_(size) PROVE refs' = refs
  BY <1>2 DEF Step, Flush, Close, Sync, SyncDir, WriteSome, WriteFails, FlushedAppend, Flushed,
              DirectWritten, SyncFd, CloseFd, CreateFile, PowerFailure, history
<1>3. CASE \E size \in AppendSize : Append_(size)
  BY <1>0, <1>1, <1>3
<1>4. CASE ~\E size \in AppendSize : Append_(size)
  BY <1>0, <1>2, <1>4 DEF appended
<1> QED BY <1>3, <1>4

LEMMA NextReferenced ==
  ASSUME Inv, Step, UNCHANGED is_manifest_
  PROVE  Referenced' /\ (dirFiles \in 0 .. files)' /\ dirFiles <= dirFiles'
<1>0. files \in Nat /\ dirFiles \in 0 .. files /\ appended \in Nat /\ Referenced /\ Shape
  BY StateTyped DEF Inv, TypeOK, Sequences_
<1>a. pc # "dead" /\ \A b \in 1 .. appended : refs[b] <= files
  <2>1. pc # "dead"
    BY DEF Step, Append_, Flush, Close, Sync, SyncDir, WriteSome, WriteFails, FlushedAppend, Flushed,
           DirectWritten, SyncFd, CloseFd, CreateFile, PowerFailure, Begin
  <2> QED BY <1>0, <2>1 DEF Referenced
<1>b. /\ appended' \in Nat /\ appended <= appended'
      /\ \A b \in 1 .. appended : refs'[b] = refs[b] /\ refs[b] \in Nat
      /\ \A b \in 1 .. appended' : b \notin 1 .. appended => refs'[b] = files
      /\ appended' # appended => files' = files /\ pc = "idle" /\ dirFiles' = dirFiles
  BY RefsGrow
<1>1. CASE PowerFailure
  BY <1>0, <1>1 DEF PowerFailure, Referenced
<1>2. CASE ~PowerFailure
  <2>1. files' \in {files, files + 1} /\ dirFiles' \in {dirFiles, files}
    BY <1>2 DEF Step, Append_, Flush, Close, Sync, SyncDir, WriteSome, WriteFails, FlushedAppend,
                Flushed, DirectWritten, SyncFd, CloseFd, CreateFile, disk
  <2>2. (dirFiles \in 0 .. files)' /\ dirFiles <= dirFiles' /\ files <= files' /\ files' \in Nat
    BY <1>0, <2>1
  <2>3. \A b \in 1 .. appended' : refs'[b] <= files'
    <3> SUFFICES ASSUME NEW b \in 1 .. appended' PROVE refs'[b] <= files'
      OBVIOUS
    <3>1. CASE b \in 1 .. appended
      BY <1>0, <1>a, <1>b, <2>2, <3>1
    <3>2. CASE b \notin 1 .. appended
      BY <1>0, <1>b, <2>2, <3>2
    <3> QED BY <3>1, <3>2
  <2>4. ASSUME is_manifest_, call' = "Sync", pc' \in {"buffer", "fdatasync"},
               NEW b \in 1 .. appended'
        PROVE  refs'[b] <= dirFiles'
    <3>1. \/ dirFiles' = files /\ pc = "dir"
          \/ call = "Sync" /\ pc \in {"buffer", "fdatasync"}
      <4>1. CASE CreateFile \/ WriteSome
        BY <2>4, <4>1 DEF CreateFile, WriteSome, memory
      <4>2. CASE Flush \/ Close \/ Sync \/ SyncDir
        BY <2>4, <4>2 DEF Flush, Close, Sync, SyncDir, Begin, StartFlush, Return
      <4>3. CASE Flushed \/ FlushedAppend
        BY <2>4, <4>3 DEF Flushed, FlushedAppend, Return
      <4>4. CASE WriteFails \/ DirectWritten \/ SyncFd \/ CloseFd
        BY <2>4, <4>4 DEF WriteFails, DirectWritten, SyncFd, CloseFd, Return
      <4>5. ASSUME NEW size \in AppendSize, Append_(size) PROVE FALSE
        BY <2>4, <4>5 DEF Append_
      <4> QED BY <1>2, <4>1, <4>2, <4>3, <4>4, <4>5 DEF Step
    <3>2. appended' = appended /\ b \in 1 .. appended /\ refs'[b] = refs[b]
      BY <1>b, <3>1
    <3>3. refs[b] <= dirFiles'
      <4>1. CASE dirFiles' = files /\ pc = "dir"
        BY <1>a, <3>2, <4>1
      <4>2. CASE call = "Sync" /\ pc \in {"buffer", "fdatasync"}
        <5>1. refs[b] <= dirFiles /\ refs[b] \in Nat
          BY <1>0, <1>b, <2>4, <3>2, <4>2 DEF Referenced
        <5> QED BY <1>0, <2>1, <2>2, <5>1
      <4> QED BY <3>1, <4>1, <4>2
    <3> QED BY <3>2, <3>3
  <2> QED BY <2>2, <2>3, <2>4 DEF Referenced
<1> QED BY <1>1, <1>2

LEMMA NextManifest == ASSUME Inv, Step, UNCHANGED is_manifest_ PROVE ManifestRefersToDisk'
<1>0. /\ file \in Seq(Nat) /\ Len(file) \in Nat /\ appended \in Nat /\ IsBytes(file)
      /\ synced \in 0 .. Len(file)
  BY StateTyped DEF Inv, TypeOK
<1>1. /\ dirFiles <= dirFiles' /\ dirFiles \in Nat /\ dirFiles' \in Nat
      /\ \A b \in 1 .. appended : refs'[b] = refs[b] /\ refs[b] \in Nat
  <2>1. dirFiles <= dirFiles' /\ (dirFiles \in 0 .. files)' /\ Sequences_' /\ dirFiles \in 0 .. files
        /\ files \in Nat
    BY NextReferenced, NextTypes DEF Inv, TypeOK, Sequences_
  <2> QED BY <2>1, RefsGrow DEF Sequences_
<1>2. \A i \in 1 .. synced : file'[i] = file[i] /\ file[i] \in 1 .. appended
  <2>1. \A i \in 1 .. synced : file[i] \in 1 .. appended /\ i \in 1 .. Len(file)
    BY <1>0 DEF IsBytes
  <2>2. ASSUME WriteSome PROVE \A i \in 1 .. synced : file'[i] = file[i]
    <3>1. PICK k \in 1 .. Len(out) : file' = file \o Prefix(out, k)
      BY <2>2 DEF WriteSome
    <3>2. out \in Seq(Nat) /\ k \in 0 .. Len(out)
      BY StateTyped DEF Inv
    <3>3. Prefix(out, k) \in Seq(Nat)
      BY <3>2, Cut
    <3> QED BY <1>0, <2>1, <3>1, <3>3, Concat
  <2>3. ASSUME PowerFailure PROVE \A i \in 1 .. synced : file'[i] = file[i]
    <3>1. PICK k \in synced .. Len(file) : file' = Prefix(file, k)
      BY <2>3 DEF PowerFailure
    <3>2. k \in 0 .. Len(file) /\ \A i \in 1 .. synced : i \in 1 .. k
      BY <1>0
    <3> QED BY <1>0, <3>1, <3>2, Cut
  <2>4. ASSUME ~WriteSome, ~PowerFailure PROVE file' = file
    BY <2>4 DEF Step, Append_, Flush, Close, Sync, SyncDir, WriteFails, FlushedAppend, Flushed,
                DirectWritten, SyncFd, CloseFd, CreateFile, disk
  <2> QED BY <2>1, <2>2, <2>3, <2>4
<1>3. CASE synced' = synced
  <2>1. ASSUME is_manifest_, NEW i \in 1 .. synced PROVE refs'[file'[i]] <= dirFiles'
    <3>1. file'[i] = file[i] /\ file[i] \in 1 .. appended
      BY <1>2
    <3>2. refs[file[i]] <= dirFiles
      BY <2>1 DEF Inv, ManifestRefersToDisk
    <3> QED BY <1>1, <3>1, <3>2
  <2> QED BY <1>3, <2>1 DEF ManifestRefersToDisk
<1>4. CASE SyncFd /\ synced' = Len(file)
  <2>1. pc = "fdatasync" /\ file' = file /\ call = "Sync"
    BY <1>4 DEF SyncFd, Inv, Shape
  <2>2. is_manifest_ => \A b \in 1 .. appended : refs[b] <= dirFiles
    BY <2>1 DEF Inv, Referenced
  <2>3. ASSUME is_manifest_, NEW i \in 1 .. Len(file) PROVE refs'[file'[i]] <= dirFiles'
    <3>1. file[i] \in 1 .. appended
      BY <1>0 DEF IsBytes
    <3> QED BY <1>1, <2>1, <2>2, <2>3, <3>1
  <2> QED BY <1>4, <2>3 DEF ManifestRefersToDisk
<1>5. synced' = synced \/ (SyncFd /\ synced' = Len(file))
  BY DEF Step, Append_, Flush, Close, Sync, SyncDir, WriteSome, WriteFails, FlushedAppend, Flushed,
         DirectWritten, SyncFd, CloseFd, CreateFile, PowerFailure, disk
<1> QED BY <1>3, <1>4, <1>5

LEMMA NextInv == Inv /\ [Next]_vars => Inv'
<1>1. ASSUME Inv, Next PROVE Inv'
  <2>1. Step /\ is_manifest_' = is_manifest_
    BY <1>1 DEF Next
  <2>2. Sequences_' /\ (Len(buf_) <= kWritableFileBufferSize)'
    BY <1>1, <2>1, NextTypes
  <2>3. (IsBytes(buf_) /\ IsBytes(out) /\ IsBytes(rest) /\ IsBytes(file))'
    BY <2>2, StateTyped, PTL
  <2>4. Durable' /\ (synced \in 0 .. Len(file))' /\ (promised \in 0 .. appended)'
    BY <1>1, <2>1, NextDurable
  <2>5. Referenced' /\ (dirFiles \in 0 .. files)'
    BY <1>1, <2>1, NextReferenced
  <2>6. TypeOK' /\ Shape'
    BY <1>1, <2>1, <2>2, <2>3, <2>4, <2>5, NextShape DEF TypeOK, Inv
  <2> QED BY <1>1, <2>1, <2>2, <2>4, <2>5, <2>6, NextOrdered, NextComplete, NextManifest DEF Inv
<1>2. ASSUME Inv, UNCHANGED vars PROVE Inv'
  <2> USE <1>2 DEF vars, memory, disk, history
  <2>1. appended' = appended /\ Unwritten' = Unwritten
    BY DEF appended, Unwritten
  <2>2. TypeOK' /\ Sequences_' /\ Shape'
    BY <2>1 DEF Inv, TypeOK, Sequences_, Shape, IsBytes, Byte
  <2>3. Ordered' /\ Complete' /\ Durable'
    BY <2>1 DEF Inv, Ordered, Complete, Durable, Stream, Increasing, Upto
  <2>4. Referenced' /\ ManifestRefersToDisk'
    BY <2>1 DEF Inv, Referenced, ManifestRefersToDisk
  <2> QED BY <2>2, <2>3, <2>4 DEF Inv
<1> QED BY <1>1, <1>2

-----------------------------------------------------------------------------
LEMMA Invariance == Spec => []Inv
BY InitInv, NextInv, PTL DEF Spec

(* For every buffer size and every sequence of slices, flushes and         *)
(* failures: the buffer does not overflow, the file followed by what is    *)
(* held back is what was appended as long as no call failed, and no byte   *)
(* is ever written twice or behind a later one (util/env_posix.cpp, lines  *)
(* 262-336).                                                               *)
THEOREM NothingIsLost == Spec => []NothingLost
<1>1. Inv => NothingLost
  <2> SUFFICES ASSUME Inv PROVE NothingLost
    OBVIOUS
  <2>1. TypeOK /\ \A i, j \in 1 .. Len(file) : i < j => file[i] < file[j]
    BY DEF Inv, Ordered, Increasing
  <2>2. ~failed /\ status /\ pc # "dead" => file \o Unwritten = Upto(appended)
    BY DEF Inv, Complete, Stream
  <2> QED BY <2>1, <2>2 DEF NothingLost
<1> QED BY <1>1, Invariance, PTL

(* What was appended before a Sync() that returned OK is in the file, also *)
(* after a power failure (util/env_posix.cpp, lines 303-320).              *)
THEOREM SyncIsDurable == Spec => []SyncedSurvives
<1>1. Inv => SyncedSurvives
  <2> SUFFICES ASSUME Inv, ~failed
               PROVE  promised <= Len(file) /\ Prefix(file, promised) = Upto(promised)
    BY DEF SyncedSurvives
  <2>1. /\ file \in Seq(Nat) /\ Len(file) \in Nat /\ appended \in Nat
        /\ synced \in 0 .. Len(file) /\ promised \in 0 .. appended
        /\ promised <= synced /\ file = Upto(Len(file))
    BY StateTyped DEF Inv, TypeOK, Durable
  <2>2. promised \in 0 .. Len(file)
    BY <2>1
  <2> QED BY <2>1, <2>2, CutFile
<1> QED BY <1>1, Invariance, PTL

(* What Sync() has put on disk of a manifest refers only to files whose    *)
(* names are on disk, because it syncs the directory before it writes      *)
(* (lines 303-320 and 344-360).  Bytes that Flush() or an Append() gave to *)
(* the kernel before, and that the kernel wrote out by itself, are not     *)
(* covered.                                                                *)
THEOREM ManifestAfterDirectory == Spec => []ManifestRefersToDisk
<1>1. Inv => ManifestRefersToDisk
  BY DEF Inv
<1> QED BY <1>1, Invariance, PTL
=============================================================================
