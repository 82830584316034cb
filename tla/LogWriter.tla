------------------------------ MODULE LogWriter -----------------------------
(***************************************************************************)
(* db/log_writer.cpp.  AddRecord() emits one physical record per round of  *)
(* its loop; each ends with a Flush(), so a round's bytes (block trailer,  *)
(* header, payload) reach the file together, a prefix of them if the write *)
(* fails or the process dies in it.                                        *)
(***************************************************************************)
EXTENDS LogFormat

CONSTANTS Length,        \* the record lengths that clients use
          MaxRecords,    \* bound on the calls of AddRecord()
          MaxFaults      \* bound on crashes, failed writes and bad bytes

ASSUME LogWriterAssumption ==
  /\ \A n \in Length : n \in Nat
  /\ MaxRecords \in Nat /\ MaxFaults \in Nat

VARIABLES
  block_offset_,  \* as in the code
  length,         \* length[r]: the length of the r-th record passed in
  acked,          \* the records whose AddRecord() returned OK
  adding,         \* AddRecord() is running, for the last record
  left,           \* its local left
  begin,          \* its local begin
  alive,          \* the process that owns the writer runs
  faults,         \* the faults so far
  damaged         \* the log may hold something else than whole physical
                  \* records, or a record was abandoned inside it

writerVars == <<block_offset_, length, acked, adding, left, begin, alive, faults, damaged>>

WriterTypeOK ==
  /\ block_offset_ \in 0 .. kBlockSize
  /\ length \in Seq(Length) /\ Len(length) <= MaxRecords
  /\ acked \subseteq DOMAIN length
  /\ adding \in BOOLEAN /\ begin \in BOOLEAN /\ alive \in BOOLEAN /\ damaged \in BOOLEAN
  /\ left \in Nat
  /\ faults \in 0 .. MaxFaults

WriterInit ==
  /\ file = <<>>
  /\ block_offset_ = 0
  /\ length = <<>>
  /\ acked = {}
  /\ adding = FALSE /\ left = 0 /\ begin = TRUE
  /\ alive = TRUE
  /\ faults = 0
  /\ damaged = FALSE

-----------------------------------------------------------------------------
(* One round of AddRecord()'s loop.                                        *)

Record == Len(length)
Leftover == kBlockSize - block_offset_

Trailer == IF Leftover < kHeaderSize THEN [i \in 1 .. Leftover |-> ZeroByte] ELSE <<>>
BlockOffset == IF Leftover < kHeaderSize THEN 0 ELSE block_offset_

Avail == kBlockSize - BlockOffset - kHeaderSize
FragmentLength == IF left < Avail THEN left ELSE Avail
End == left = FragmentLength

FragmentType ==
  CASE begin /\ End -> kFullType
    [] begin /\ ~End -> kFirstType
    [] ~begin /\ End -> kLastType
    [] OTHER -> kMiddleType

Fragment ==
  PhysicalRecord(FragmentType, Record, length[Record] - left, FragmentLength)

StartAddRecord(n) ==
  /\ alive /\ ~adding
  /\ Len(length) < MaxRecords
  /\ length' = Append(length, n)
  /\ adding' = TRUE /\ left' = n /\ begin' = TRUE
  /\ UNCHANGED <<file, block_offset_, acked, alive, faults, damaged>>

(* block_offset_ advances whether or not the bytes were written.           *)
AdvanceBlockOffset == block_offset_' = BlockOffset + kHeaderSize + FragmentLength

(* The round succeeds, having written bytes.                               *)
RoundDone(bytes) ==
  /\ alive /\ adding
  /\ file' = file \o bytes
  /\ AdvanceBlockOffset
  /\ left' = left - FragmentLength /\ begin' = FALSE
  /\ adding' = (left' > 0)
  /\ acked' = IF adding' THEN acked ELSE acked \cup {Record}
  /\ UNCHANGED <<length, alive>>

EmitPhysicalRecord == RoundDone(Trailer \o Fragment) /\ UNCHANGED <<faults, damaged>>

Fault == faults < MaxFaults /\ faults' = faults + 1

(* The status of the trailer's Append() is not looked at (line 51).        *)
TrailerLost ==
  /\ Trailer # <<>>
  /\ RoundDone(Fragment)
  /\ Fault /\ damaged' = TRUE

(* Append() or Flush() fails after k bytes; AddRecord() returns the error. *)
EmitFails ==
  /\ alive /\ adding
  /\ \E k \in 0 .. kHeaderSize + FragmentLength + Len(Trailer) - 1 :
       file' = file \o SubSeq(Trailer \o Fragment, 1, k)
  /\ AdvanceBlockOffset
  /\ left' = left - FragmentLength /\ begin' = FALSE
  /\ adding' = FALSE
  /\ Fault /\ damaged' = TRUE
  /\ UNCHANGED <<length, acked, alive>>

(* The process dies, possibly inside a write.                              *)
Crash ==
  /\ alive
  /\ alive' = FALSE
  /\ \E k \in 0 .. IF adding THEN Len(Trailer \o Fragment) ELSE 0 :
       file' = IF adding THEN file \o SubSeq(Trailer \o Fragment, 1, k) ELSE file
  /\ Fault
  /\ UNCHANGED <<block_offset_, length, acked, adding, left, begin, damaged>>

(* Writer(dest, dest_length): appending to what the last process left.     *)
Reopen ==
  /\ ~alive
  /\ alive' = TRUE
  /\ block_offset_' = Len(file) % kBlockSize
  /\ adding' = FALSE /\ left' = 0 /\ begin' = TRUE
  /\ damaged' = (damaged \/ adding)
  /\ UNCHANGED <<file, length, acked, faults>>

(* The disk damages a byte.                                                *)
Corrupt ==
  /\ \E p \in DOMAIN file : file' = [file EXCEPT ![p] = BadByte]
  /\ Fault /\ damaged' = TRUE
  /\ UNCHANGED <<block_offset_, length, acked, adding, left, begin, alive>>

WriterNext ==
  \/ \E n \in Length : StartAddRecord(n)
  \/ EmitPhysicalRecord \/ TrailerLost \/ EmitFails
  \/ Crash \/ Reopen \/ Corrupt
=============================================================================
