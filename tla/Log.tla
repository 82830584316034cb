--------------------------------- MODULE Log --------------------------------
(***************************************************************************)
(* The log as its users see it: records are added, processes crash and     *)
(* reopen the file, writes fail, bytes go bad; then a reader recovers what *)
(* it can.                                                                 *)
(***************************************************************************)
EXTENDS LogWriter, LogReader

vars == <<file, writerVars, readerVars>>

Init == WriterInit /\ ReaderInit

Writing == pc = "off" /\ WriterNext /\ UNCHANGED readerVars

(* A log is read when nobody is adding to it.                              *)
StartReading ==
  /\ ~(alive /\ adding)
  /\ \E offset \in Offset : Open(offset)
  /\ UNCHANGED <<file, writerVars>>

Reading == ReaderNext /\ UNCHANGED <<file, writerVars>>

(* The reader is one thread; it runs until ReadRecord() returns false.     *)
Terminated == pc = "eof" /\ UNCHANGED vars

Next == Writing \/ StartReading \/ Reading \/ Terminated

Spec == Init /\ [][Next]_vars /\ WF_vars(Reading)

-----------------------------------------------------------------------------
TypeOK ==
  /\ WriterTypeOK
  /\ pc \in {"off", "call", "read", "eof"}
  /\ initial_offset_ \in Offset
  /\ end_of_buffer_offset_ \in Nat /\ buffer_ \in 0 .. end_of_buffer_offset_
  /\ last_record_offset_ \in Nat /\ prospective \in Nat
  /\ {eof_, resyncing_, in_fragmented_record, reported, read_error} \subseteq BOOLEAN
  /\ Len(returned) <= Len(length)

(* The fragments fs are the whole of one record, in order.                 *)
WholeRecord(fs) ==
  LET r == fs[1].rec
  IN  /\ r \in DOMAIN length
      /\ fs[1].from = 0
      /\ \A i \in 1 .. Len(fs) - 1 :
           fs[i + 1].rec = r /\ fs[i + 1].from = fs[i].from + fs[i].len
      /\ fs[Len(fs)].from + fs[Len(fs)].len = length[r]

(* Whatever was lost, torn, misaligned or damaged, the reader returns only *)
(* records that were added, each whole and once, in the order of their     *)
(* addition: fragments of different records are never joined               *)
(* (log_test.cpp:510, ErrorJoinsRecords) and no part of a record whose     *)
(* writer died is returned.  The state is well typed.                      *)
NothingInvented ==
  /\ TypeOK
  /\ \A i \in DOMAIN returned : WholeRecord(returned[i])
  /\ \A i, j \in DOMAIN returned : i < j => returned[i][1].rec < returned[j][1].rec

(* A reference definition of a block from which everything can be read:    *)
(* whole physical records one after the other, then less than a header of  *)
(* zeros.  The last block of the file may end anywhere.                    *)
LastByteOf(c) == c.at = kHeaderSize + c.len
WellFormed(b) ==
  LET inB == {p \in 1 .. Len(file) : BlockOf(p - 1) = b}
  IN  \A p \in inB :
        LET c == file[p]
        IN  /\ c # BadByte
            /\ c.at > 1 => p - 1 \in inB /\ file[p - 1] = [c EXCEPT !.at = @ - 1]
            /\ c.at = 1 /\ p - 1 \in inB => file[p - 1] # ZeroByte /\ LastByteOf(file[p - 1])
            /\ c = ZeroByte =>
                 /\ InBlock(p - 1) > kBlockSize - kHeaderSize
                 /\ file[p - 1] = ZeroByte \/ LastByteOf(file[p - 1])
            /\ InBlock(p - 1) = kBlockSize - 1 => c = ZeroByte \/ LastByteOf(c)

StartsAt(p, r) ==
  p \in DOMAIN file /\ file[p].rec = r /\ file[p].at = 1
    /\ file[p].type \in {kFullType, kFirstType}
EndsAt(p, r) ==
  p \in DOMAIN file /\ file[p].rec = r /\ LastByteOf(file[p])
    /\ file[p].type \in {kFullType, kLastType}

(* Damage is confined to its blocks: a record whose AddRecord() returned   *)
(* OK is returned unless a block it lies in holds a torn write, a bad byte *)
(* or a misaligned record.  With no fault at all this says that the reader *)
(* returns everything from initial_offset_ on; with a crash, that the torn *)
(* tail takes no acknowledged record with it.                              *)
DamageConfined ==
  pc = "eof" /\ ~read_error =>
    \A r \in acked, p, q \in DOMAIN file :
      /\ StartsAt(p, r) /\ EndsAt(q, r) /\ p - 1 >= initial_offset_
      /\ \A b \in BlockOf(p - 1) .. BlockOf(q - 1) : WellFormed(b)
      => \E i \in DOMAIN returned : returned[i][1].rec = r

(* A log whose writer finished, or died in the middle of a record and was  *)
(* not reopened, is read from its start without any report of corruption   *)
(* (log_test.cpp:385-490: truncated trailing records are ignored).         *)
(* From other offsets it may be: a first fragment before initial_offset_   *)
(* comes back as kBadRecord and ends resyncing_ (log_reader.cpp:101), so   *)
(* the fragments behind it miss their start.                               *)
NoFalseAlarm ==
  initial_offset_ = 0 /\ ~damaged /\ ~read_error => ~reported

(* LastRecordOffset() is the offset at which the record last returned      *)
(* starts, and that is not before initial_offset_ (log_reader.h).          *)
OffsetsExact ==
  returned # <<>> =>
    /\ StartsAt(last_record_offset_ + 1, returned[Len(returned)][1].rec)
    /\ last_record_offset_ >= initial_offset_

(* Reading terminates on every file, also on misaligned and damaged ones.  *)
ReadTerminates == pc = "call" ~> pc = "eof"
=============================================================================
