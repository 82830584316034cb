------------------------------ MODULE LogReader -----------------------------
(***************************************************************************)
(* db/log_reader.cpp, reading a file nobody writes any more.  The client   *)
(* calls ReadRecord() until it returns false; each action is one round of  *)
(* the loop of ReadRecord() or of ReadPhysicalRecord().                    *)
(***************************************************************************)
EXTENDS LogFormat

CONSTANT Offset     \* the initial_offset values that clients use

ASSUME LogReaderAssumption == 0 \in Offset /\ \A o \in Offset : o \in Nat

VARIABLES
  pc,                    \* "off", "call" (between calls), "read", "eof"
  initial_offset_,
  buffer_,               \* offset of the buffer's first byte
  end_of_buffer_offset_, \* offset just behind it, also the file position
  eof_,
  resyncing_,
  last_record_offset_,
  in_fragmented_record,  \* local of ReadRecord()
  scratch,               \* the fragments collected: [rec, from, len]
  prospective,           \* local prospective_record_offset
  returned,              \* the records returned, each a sequence of fragments
  reported,              \* Reporter::Corruption() was called
  read_error             \* a Read() of the file failed

readerVars == <<pc, initial_offset_, buffer_, end_of_buffer_offset_, eof_, resyncing_,
                last_record_offset_, in_fragmented_record, scratch, prospective,
                returned, reported, read_error>>

ReaderInit ==
  /\ pc = "off"
  /\ initial_offset_ = 0
  /\ buffer_ = 0 /\ end_of_buffer_offset_ = 0
  /\ eof_ = FALSE /\ resyncing_ = FALSE
  /\ last_record_offset_ = 0
  /\ in_fragmented_record = FALSE /\ scratch = <<>> /\ prospective = 0
  /\ returned = <<>> /\ reported = FALSE /\ read_error = FALSE

(* Reader::Reader().                                                       *)
Open(offset) ==
  /\ pc = "off"
  /\ pc' = "call"
  /\ initial_offset_' = offset
  /\ resyncing_' = (offset > 0)
  /\ UNCHANGED <<buffer_, end_of_buffer_offset_, eof_, last_record_offset_,
                 in_fragmented_record, scratch, prospective, returned, reported, read_error>>

-----------------------------------------------------------------------------
(* ReportDrop(): a drop that begins before initial_offset_ is not reported.*)
(* The difference is unsigned: below 0 it wraps to a huge value.           *)
Reports(bytes, buf) == buf - bytes < 0 \/ buf - bytes >= initial_offset_

(* The literal 6 of line 44 is kHeaderSize - 1, the longest trailer.       *)
InitialBlockStart ==
  (BlockOf(initial_offset_)
    + IF InBlock(initial_offset_) > kBlockSize - (kHeaderSize - 1) THEN 1 ELSE 0)
  * kBlockSize

Skips == last_record_offset_ < initial_offset_

(* A call of ReadRecord() up to its loop, with SkipToInitialBlock().  The  *)
(* buffer is empty when it skips, for it skips only in the first call.     *)
ReadRecord ==
  /\ pc = "call"
  /\ pc' = "read"
  /\ end_of_buffer_offset_' = IF Skips THEN InitialBlockStart ELSE end_of_buffer_offset_
  /\ buffer_' = IF Skips THEN InitialBlockStart ELSE buffer_
  /\ in_fragmented_record' = FALSE /\ scratch' = <<>> /\ prospective' = 0
  /\ UNCHANGED <<initial_offset_, eof_, resyncing_, last_record_offset_, returned, reported, read_error>>

(* file_->Skip() fails and ReadRecord() returns false.                     *)
SkipFails ==
  /\ pc = "call" /\ Skips /\ InitialBlockStart > 0
  /\ pc' = "eof"
  /\ end_of_buffer_offset_' = InitialBlockStart /\ buffer_' = InitialBlockStart
  /\ reported' = (reported \/ Reports(InitialBlockStart, InitialBlockStart))
  /\ read_error' = TRUE
  /\ UNCHANGED <<initial_offset_, eof_, resyncing_, last_record_offset_,
                 in_fragmented_record, scratch, prospective, returned>>

-----------------------------------------------------------------------------
(* ReadPhysicalRecord().                                                   *)

BufferSize == end_of_buffer_offset_ - buffer_
Smaller(a, b) == IF a < b THEN a ELSE b
FileSize == Len(file)

(* Mutant: a full block is taken for the last one.                         *)
RefillAlwaysEof ==
  LET got == IF FileSize > end_of_buffer_offset_
               THEN Smaller(kBlockSize, FileSize - end_of_buffer_offset_) ELSE 0
  IN  /\ pc = "read" /\ BufferSize < kHeaderSize /\ ~eof_
      /\ buffer_' = end_of_buffer_offset_
      /\ end_of_buffer_offset_' = end_of_buffer_offset_ + got
      /\ eof_' = (got <= kBlockSize)
      /\ UNCHANGED <<pc, initial_offset_, resyncing_, last_record_offset_,
                     in_fragmented_record, scratch, prospective, returned, reported, read_error>>

(* Fewer bytes than a header are left: they are a trailer, read on.        *)
RefillBuffer ==
  LET got == IF FileSize > end_of_buffer_offset_
               THEN Smaller(kBlockSize, FileSize - end_of_buffer_offset_) ELSE 0
  IN  /\ pc = "read" /\ BufferSize < kHeaderSize /\ ~eof_
      /\ buffer_' = end_of_buffer_offset_
      /\ end_of_buffer_offset_' = end_of_buffer_offset_ + got
      /\ eof_' = (got < kBlockSize)
      /\ UNCHANGED <<pc, initial_offset_, resyncing_, last_record_offset_,
                     in_fragmented_record, scratch, prospective, returned, reported, read_error>>

Header == SubSeq(file, buffer_ + 1, buffer_ + kHeaderSize)
InBuffer(n) == kHeaderSize + n <= BufferSize
Expected == PhysicalRecord(Header[1].type, Header[1].rec, Header[1].from, Header[1].len)
HeaderIntact == Header = SubSeq(Expected, 1, kHeaderSize)
PayloadIntact == SubSeq(file, buffer_ + 1, buffer_ + Len(Expected)) = Expected
ZeroHeader == \A i \in 1 .. kHeaderSize : Header[i] = ZeroByte

(* kEof: ReadRecord() gives up what it has collected and returns false.    *)
ReturnEof ==
  /\ pc' = "eof"
  /\ buffer_' = end_of_buffer_offset_
  /\ eof_' = TRUE
  /\ scratch' = <<>>
  /\ resyncing_' = FALSE
  /\ UNCHANGED <<initial_offset_, end_of_buffer_offset_, last_record_offset_,
                 in_fragmented_record, prospective, returned>>

TruncatedHeader ==
  /\ pc = "read" /\ BufferSize < kHeaderSize /\ eof_
  /\ ReturnEof
  /\ UNCHANGED <<reported, read_error>>

(* file_->Read() fails: reported as a lost block, then taken for the end.  *)
ReadFails ==
  /\ pc = "read" /\ BufferSize < kHeaderSize /\ ~eof_
  /\ ReturnEof
  /\ reported' = (reported \/ Reports(kBlockSize, end_of_buffer_offset_))
  /\ read_error' = TRUE

ScratchSize ==
  IF scratch = <<>> THEN 0
  ELSE scratch[Len(scratch)].from + scratch[Len(scratch)].len - scratch[1].from

(* Mutant: the fragments collected are kept after damage.                  *)
DropKeepsFragments(buf, report) ==
  /\ buffer_' = buf
  /\ reported' = (reported \/ report)
  /\ resyncing_' = FALSE
  /\ UNCHANGED <<pc, initial_offset_, end_of_buffer_offset_, eof_, last_record_offset_,
                 in_fragmented_record, scratch, prospective, returned, read_error>>

(* kBadRecord: the fragments collected are reported and dropped.  report   *)
(* says whether ReadPhysicalRecord() has already reported.                 *)
DropBadRecord(buf, report) ==
  /\ buffer_' = buf
  /\ UNCHANGED <<end_of_buffer_offset_, eof_>>
  /\ reported' = \/ reported \/ report
                 \/ in_fragmented_record /\ Reports(ScratchSize, buf)
  /\ in_fragmented_record' = FALSE /\ scratch' = <<>>
  /\ resyncing_' = FALSE
  /\ UNCHANGED <<pc, initial_offset_, last_record_offset_, prospective, returned, read_error>>

AtHeader == pc = "read" /\ BufferSize >= kHeaderSize

(* What stands where a header should be is none: its length field is       *)
(* anything, its checksum does not match.                                  *)
UnreadableHeader ==
  /\ AtHeader /\ ~HeaderIntact /\ ~ZeroHeader
  /\ \/ eof_ /\ ReturnEof /\ UNCHANGED <<reported, read_error>>
     \/ DropBadRecord(end_of_buffer_offset_, Reports(BufferSize, end_of_buffer_offset_))
     \/ DropBadRecord(end_of_buffer_offset_, FALSE)

(* Mutant: a record cut off by the end of the file is reported.            *)
CutOffReported ==
  /\ AtHeader /\ HeaderIntact /\ ~InBuffer(Header[1].len)
  /\ DropBadRecord(end_of_buffer_offset_, Reports(BufferSize, end_of_buffer_offset_))

(* The header asks for more bytes than the buffer holds.                   *)
BadRecordLength ==
  /\ AtHeader /\ HeaderIntact /\ ~InBuffer(Header[1].len)
  /\ IF eof_ THEN ReturnEof /\ UNCHANGED <<reported, read_error>>
     ELSE DropBadRecord(end_of_buffer_offset_, Reports(BufferSize, end_of_buffer_offset_))

(* Zeros where a header should be: dropped without a report.               *)
ZeroRecord ==
  /\ AtHeader /\ ZeroHeader
  /\ DropBadRecord(end_of_buffer_offset_, FALSE)

(* Mutant: the buffer is not dropped after a bad checksum.                 *)
ChecksumMismatchStays ==
  /\ AtHeader /\ HeaderIntact /\ InBuffer(Header[1].len) /\ ~PayloadIntact
  /\ DropBadRecord(buffer_, Reports(BufferSize, end_of_buffer_offset_))

ChecksumMismatch ==
  /\ AtHeader /\ HeaderIntact /\ InBuffer(Header[1].len) /\ ~PayloadIntact
  /\ DropBadRecord(end_of_buffer_offset_, Reports(BufferSize, end_of_buffer_offset_))

AtPhysicalRecord == AtHeader /\ HeaderIntact /\ InBuffer(Header[1].len) /\ PayloadIntact
NextInBuffer == buffer_ + kHeaderSize + Header[1].len

(* A physical record that began before initial_offset_.                    *)
SkipRecord ==
  /\ AtPhysicalRecord /\ buffer_ < initial_offset_
  /\ DropBadRecord(NextInBuffer, FALSE)

-----------------------------------------------------------------------------
(* ReadRecord()'s treatment of a good physical record.  A type that no     *)
(* writer emits (the default case) cannot carry a matching checksum.       *)

Type(t) == AtPhysicalRecord /\ buffer_ >= initial_offset_ /\ Header[1].type = t
Payload == [rec |-> Header[1].rec, from |-> Header[1].from, len |-> Header[1].len]

ConsumeRecord ==
  /\ buffer_' = NextInBuffer
  /\ UNCHANGED <<initial_offset_, end_of_buffer_offset_, eof_, read_error>>

Return(fragments, offset) ==
  /\ returned' = Append(returned, fragments)
  /\ last_record_offset_' = offset
  /\ pc' = "call"

(* While resyncing, the tail of a record that began earlier is skipped.    *)
ResyncSkip ==
  /\ resyncing_
  /\ Type(kMiddleType) \/ Type(kLastType)
  /\ resyncing_' = Type(kMiddleType)
  /\ ConsumeRecord
  /\ UNCHANGED <<pc, last_record_offset_, in_fragmented_record, scratch, prospective,
                 returned, reported, read_error>>

(* A record starts although one is being collected: reported, unless what  *)
(* was collected is empty.                                                 *)
ReportUnfinished ==
  reported' = \/ reported
              \/ /\ in_fragmented_record /\ ScratchSize > 0
                 /\ Reports(ScratchSize, NextInBuffer)

FullRecord ==
  /\ Type(kFullType)
  /\ ConsumeRecord /\ ReportUnfinished
  /\ resyncing_' = FALSE
  /\ in_fragmented_record' = (in_fragmented_record /\ ScratchSize > 0)
  /\ prospective' = buffer_ /\ scratch' = <<>>
  /\ Return(<<Payload>>, buffer_)

FirstRecord ==
  /\ Type(kFirstType)
  /\ ConsumeRecord /\ ReportUnfinished
  /\ resyncing_' = FALSE
  /\ in_fragmented_record' = TRUE
  /\ prospective' = buffer_ /\ scratch' = <<Payload>>
  /\ UNCHANGED <<pc, last_record_offset_, returned>>

MissingStart ==
  /\ ~resyncing_ /\ ~in_fragmented_record
  /\ Type(kMiddleType) \/ Type(kLastType)
  /\ ConsumeRecord
  /\ reported' = (reported \/ Reports(Payload.len, NextInBuffer))
  /\ UNCHANGED <<pc, resyncing_, last_record_offset_, in_fragmented_record, scratch,
                 prospective, returned, read_error>>

MiddleRecord ==
  /\ ~resyncing_ /\ in_fragmented_record
  /\ Type(kMiddleType)
  /\ ConsumeRecord
  /\ scratch' = Append(scratch, Payload)
  /\ UNCHANGED <<pc, resyncing_, last_record_offset_, in_fragmented_record, prospective,
                 returned, reported, read_error>>

(* Mutant: the offset of the last fragment is remembered.                  *)
LastRecordOwnOffset ==
  /\ ~resyncing_ /\ in_fragmented_record
  /\ Type(kLastType)
  /\ ConsumeRecord
  /\ scratch' = Append(scratch, Payload)
  /\ Return(scratch', buffer_)
  /\ UNCHANGED <<resyncing_, in_fragmented_record, prospective, reported>>

LastRecord ==
  /\ ~resyncing_ /\ in_fragmented_record
  /\ Type(kLastType)
  /\ ConsumeRecord
  /\ scratch' = Append(scratch, Payload)
  /\ Return(scratch', prospective)
  /\ UNCHANGED <<resyncing_, in_fragmented_record, prospective, reported>>

-----------------------------------------------------------------------------
ReadPhysicalRecord ==
  \/ RefillBuffer \/ ReadFails \/ TruncatedHeader \/ UnreadableHeader \/ BadRecordLength
  \/ ZeroRecord \/ ChecksumMismatch \/ SkipRecord

ReaderNext ==
  \/ ReadRecord \/ SkipFails \/ ReadPhysicalRecord
  \/ ResyncSkip \/ FullRecord \/ FirstRecord \/ MissingStart \/ MiddleRecord \/ LastRecord
=============================================================================
