------------------------------ MODULE LogProofs -----------------------------
(***************************************************************************)
(* Proofs about Log for every block size, header size, set of lengths and  *)
(* offsets, and for any number of records and faults.                      *)
(*                                                                         *)
(* The file.  Whatever was torn, lost or damaged, the fragment before a    *)
(* middle or last fragment of a record lies where it was written: at most  *)
(* a block trailer, which is shorter than a header, is between the two.    *)
(* The first fragments of the records are in the order of the records.     *)
(*                                                                         *)
(* The reader.  While it collects, the last byte of the last fragment it   *)
(* has is less than a header before its buffer (a refill drops less than a *)
(* header, and there are never two refills in a row without the end of the *)
(* file).  No second fragment fits in between, so a continuation that it   *)
(* finds intact continues exactly what it has collected.                   *)
(*                                                                         *)
(* Undamaged files.  Fragments are whole and follow each other, so the     *)
(* reader stands at a header whenever it looks for one, and collects       *)
(* exactly while a record is open: it has nothing to report.               *)
(*                                                                         *)
(* Damaged files.  In a well-formed block the same holds locally.  Damage  *)
(* elsewhere makes the reader give up a block at most, so it comes to the  *)
(* start of the first block of every record that can be recovered.         *)
(***************************************************************************)
EXTENDS Log, SequenceTheorems, WellFoundedInduction, TLAPS

H == kHeaderSize

(* What a byte of the file can be.                                         *)
AnyByte == [type : 0 .. 4, rec : Nat, from : Nat, len : Nat, at : Int]
NoRecord == {ZeroByte, BadByte}

FragmentByte(c) ==
  /\ c.type \in {kFullType, kFirstType, kMiddleType, kLastType}
  /\ c.rec \in DOMAIN length
  /\ c.at \in 1 .. H + c.len
  /\ c.type \in {kFullType, kFirstType} => c.from = 0
  /\ c.type \in {kFullType, kLastType} => c.from + c.len = length[c.rec]

(* The physical record whose last byte is at position e, where it is or    *)
(* was: its bytes may have gone bad.                                       *)
Placed(t, r, o, n, e) ==
  /\ H + n <= e /\ e <= Len(file)
  /\ \A i \in 1 .. H + n : file[e - (H + n) + i] \in {Byte(t, r, o, n, i), BadByte}

(* The fragment before that which starts at position p is in its place,    *)
(* behind it at most a trailer.                                            *)
Continues(p) ==
  \E z \in 0 .. H - 1, t \in {kFirstType, kMiddleType}, o \in 0 .. file[p].from :
    /\ Placed(t, file[p].rec, o, file[p].from - o, p - 1 - z)
    /\ \A q \in p - z .. p - 1 : file[q] \in NoRecord

IsStart(c) == c.at = 1 /\ c.type \in {kFullType, kFirstType}
IsContinuation(c) == c.at = 1 /\ c.type \in {kMiddleType, kLastType}

BytesRight ==
  /\ file \in Seq(AnyByte)
  /\ \A p \in DOMAIN file : file[p] \in NoRecord \/ FragmentByte(file[p])
ContinuationsRight ==
  \A p \in DOMAIN file : IsContinuation(file[p]) => Continues(p)
StartsInOrder ==
  \A p, q \in DOMAIN file :
    p < q /\ IsStart(file[p]) /\ IsStart(file[q]) => file[p].rec < file[q].rec

(* What AddRecord() knows between its rounds.                              *)
WriterProgress ==
  alive /\ adding =>
    /\ Len(length) > 0 /\ left <= length[Record]
    /\ begin =>
         /\ left = length[Record]
         /\ \A p \in DOMAIN file : file[p].rec < Record
    /\ ~begin =>
         \E t \in {kFirstType, kMiddleType}, o \in 0 .. length[Record] - left :
           Placed(t, Record, o, length[Record] - left - o, Len(file))

FileInv ==
  WriterTypeOK /\ BytesRight /\ ContinuationsRight /\ StartsInOrder /\ WriterProgress

-----------------------------------------------------------------------------
(* The reader's part of the invariant.                                     *)

Fragments == [rec : Nat, from : Nat, len : Nat]

(* Each fragment of fs continues the one before.                           *)
Chained(fs) ==
  /\ fs \in Seq(Fragments) /\ fs # <<>>
  /\ fs[1].from = 0
  /\ \A i \in 1 .. Len(fs) - 1 :
       fs[i + 1].rec = fs[1].rec /\ fs[i + 1].from = fs[i].from + fs[i].len

BufferRight ==
  /\ BufferSize > 0 => end_of_buffer_offset_ <= FileSize
  /\ pc = "off" => returned = <<>> /\ buffer_ = end_of_buffer_offset_

(* The byte at position e is the last one of fragment f.                   *)
EndsFragment(f, e) ==
  /\ e \in DOMAIN file
  /\ file[e].rec = f.rec /\ file[e].from = f.from /\ file[e].len = f.len
  /\ file[e].at = H + f.len

(* What ReadRecord() has collected.                                        *)
Collecting ==
  pc = "read" /\ in_fragmented_record =>
    /\ ~resyncing_
    /\ Chained(scratch)
    /\ StartsAt(prospective + 1, scratch[1].rec)
    /\ initial_offset_ <= prospective /\ prospective < buffer_
    /\ returned # <<>> => last_record_offset_ < prospective
    /\ \E e \in DOMAIN file :
         /\ EndsFragment(scratch[Len(scratch)], e)
         /\ e <= buffer_ /\ buffer_ < e + H
         /\ buffer_ = e \/ BufferSize >= H \/ eof_

(* What it has returned.  The i-th record returned is at least the i-th    *)
(* added, so no more are returned than were added.                         *)
ReturnedRight ==
  /\ returned \in Seq(Seq(Fragments))
  /\ \A i \in DOMAIN returned :
       /\ returned[i] # <<>> /\ WholeRecord(returned[i])
       /\ i <= returned[i][1].rec
  /\ \A i, j \in DOMAIN returned : i < j => returned[i][1].rec < returned[j][1].rec
  /\ returned # <<>> => last_record_offset_ < buffer_

ReaderTypeOK ==
  /\ pc \in {"off", "call", "read", "eof"}
  /\ initial_offset_ \in Offset
  /\ end_of_buffer_offset_ \in Nat /\ buffer_ \in 0 .. end_of_buffer_offset_
  /\ last_record_offset_ \in Nat /\ prospective \in Nat
  /\ eof_ \in BOOLEAN /\ resyncing_ \in BOOLEAN /\ in_fragmented_record \in BOOLEAN
  /\ reported \in BOOLEAN /\ read_error \in BOOLEAN

LogInv ==
  FileInv /\ ReaderTypeOK /\ BufferRight /\ Collecting /\ ReturnedRight /\ OffsetsExact

-----------------------------------------------------------------------------
(* The bytes of the file.                                                  *)

LEMMA HeaderAndBlock ==
  /\ H \in Nat /\ H >= 1 /\ H = kHeaderSize
  /\ kBlockSize \in Nat /\ kBlockSize > H
BY LogFormatAssumption DEF H

LEMMA BytesAreBytes ==
  /\ ZeroByte \in AnyByte /\ BadByte \in AnyByte
  /\ ZeroByte.rec = 0 /\ ZeroByte.at = 0 /\ BadByte.rec = 0 /\ BadByte.at = -1
  /\ \A t \in 0 .. 4, r, o, n \in Nat, i \in Int :
       /\ Byte(t, r, o, n, i) \in AnyByte
       /\ Byte(t, r, o, n, i).type = t /\ Byte(t, r, o, n, i).rec = r
       /\ Byte(t, r, o, n, i).from = o /\ Byte(t, r, o, n, i).len = n
       /\ Byte(t, r, o, n, i).at = i
BY DEF ZeroByte, BadByte, Byte, AnyByte, kZeroType

(* A round's fragment.                                                     *)
LEMMA RoundTypes ==
  ASSUME FileInv, alive, adding
  PROVE  /\ Record \in Nat /\ Record > 0 /\ Record \in DOMAIN length
         /\ length[Record] \in Nat /\ left \in Nat
         /\ length[Record] - left \in Nat
         /\ BlockOffset \in Nat /\ Avail \in Nat
         /\ FragmentLength \in Nat /\ FragmentLength <= left
         /\ BlockOffset + H + FragmentLength <= kBlockSize
         /\ FragmentType \in {kFullType, kFirstType, kMiddleType, kLastType}
         /\ FragmentType \in {kFullType, kFirstType} <=> begin
         /\ FragmentType \in {kFullType, kLastType} <=> End
<1>1. length \in Seq(Nat) /\ Len(length) > 0 /\ left <= length[Record] /\ left \in Nat
  <2>1. length \in Seq(Length) /\ Len(length) > 0 /\ left <= length[Record] /\ left \in Nat
    BY DEF FileInv, WriterTypeOK, WriterProgress
  <2>2. \A i \in 1 .. Len(length) : length[i] \in Nat
    BY <2>1, LogWriterAssumption
  <2> QED BY <2>1, <2>2
<1>2. /\ Record \in Nat /\ Record > 0 /\ Record \in DOMAIN length
      /\ length[Record] \in Nat /\ length[Record] - left \in Nat
  BY <1>1 DEF Record
<1>3. /\ BlockOffset \in Nat /\ Avail \in Nat
      /\ FragmentLength \in Nat /\ FragmentLength <= left
      /\ BlockOffset + H + FragmentLength <= kBlockSize
  <2>1. block_offset_ \in 0 .. kBlockSize
    BY DEF FileInv, WriterTypeOK
  <2>2. BlockOffset \in Nat /\ BlockOffset + H <= kBlockSize
    BY <2>1, HeaderAndBlock DEF BlockOffset, Leftover
  <2>3. Avail \in Nat /\ Avail = kBlockSize - BlockOffset - H
    BY <2>2, HeaderAndBlock DEF Avail
  <2> QED BY <1>1, <2>2, <2>3, HeaderAndBlock DEF FragmentLength
<1>4. /\ FragmentType \in {kFullType, kFirstType, kMiddleType, kLastType}
      /\ FragmentType \in {kFullType, kFirstType} <=> begin
      /\ FragmentType \in {kFullType, kLastType} <=> End
  <2>1. begin \in BOOLEAN
    BY DEF FileInv, WriterTypeOK
  <2>2. End \in BOOLEAN
    BY DEF End
  <2> QED BY <2>1, <2>2 DEF FragmentType, kFullType, kFirstType, kMiddleType, kLastType
<1> QED BY <1>1, <1>2, <1>3, <1>4

LEMMA TrailerShort ==
  ASSUME FileInv
  PROVE  /\ Trailer \in Seq(AnyByte) /\ Len(Trailer) \in 0 .. H - 1
         /\ \A i \in 1 .. Len(Trailer) : Trailer[i] = ZeroByte
<1>1. block_offset_ \in 0 .. kBlockSize
  BY DEF FileInv, WriterTypeOK
<1>2. Leftover \in Nat
  BY <1>1, HeaderAndBlock DEF Leftover
<1>3. CASE Leftover < kHeaderSize
  <2>1. Trailer = [i \in 1 .. Leftover |-> ZeroByte]
    BY <1>3 DEF Trailer
  <2>2. ZeroByte \in AnyByte
    BY BytesAreBytes
  <2>3. Trailer \in Seq(AnyByte) /\ Len(Trailer) = Leftover
        /\ \A i \in 1 .. Leftover : Trailer[i] = ZeroByte
    BY <1>2, <2>1, <2>2
  <2> QED BY <1>2, <1>3, <2>3, HeaderAndBlock
<1>4. CASE ~(Leftover < kHeaderSize)
  <2>1. Trailer = <<>>
    BY <1>4 DEF Trailer
  <2> QED BY <2>1, HeaderAndBlock
<1> QED BY <1>3, <1>4

LEMMA FragmentBytes ==
  ASSUME FileInv, alive, adding
  PROVE  /\ Fragment \in Seq(AnyByte) /\ Len(Fragment) = H + FragmentLength
         /\ \A i \in 1 .. H + FragmentLength :
              Fragment[i] = Byte(FragmentType, Record, length[Record] - left,
                                 FragmentLength, i)
<1> DEFINE B(i) == Byte(FragmentType, Record, length[Record] - left, FragmentLength, i)
<1>1. Fragment = [i \in 1 .. H + FragmentLength |-> B(i)]
  BY DEF Fragment, PhysicalRecord, H
<1>2. FragmentType \in 0 .. 4
  BY RoundTypes DEF kFullType, kFirstType, kMiddleType, kLastType
<1>4. H + FragmentLength \in Nat /\ FragmentLength \in Nat /\ H \in Nat
  BY RoundTypes, HeaderAndBlock
<1>6. Record \in Nat /\ length[Record] - left \in Nat
  BY RoundTypes
<1>3. \A i \in 1 .. H + FragmentLength : B(i) \in AnyByte
  <2> TAKE i \in 1 .. H + FragmentLength
  <2>1. i \in Int
    BY <1>4
  <2> QED BY <1>2, <1>4, <1>6, <2>1, BytesAreBytes
<1> HIDE DEF B
<1>5. Fragment \in Seq(AnyByte) /\ Len(Fragment) = H + FragmentLength
      /\ \A i \in 1 .. H + FragmentLength : Fragment[i] = B(i)
  BY <1>1, <1>3, <1>4
<1> QED BY <1>5 DEF B

(* The file grows by a trailer of m zeros and the running round's fragment,*)
(* or by the first k bytes of that.                                        *)
Grows(m, k) ==
  /\ m \in 0 .. H - 1
  /\ k \in 0 .. m + H + FragmentLength
  /\ file' \in Seq(AnyByte)
  /\ Len(file') = Len(file) + k
  /\ \A p \in 1 .. Len(file') :
       file'[p] =
         IF p <= Len(file) THEN file[p]
         ELSE IF p <= Len(file) + m THEN ZeroByte
         ELSE Byte(FragmentType, Record, length[Record] - left, FragmentLength,
                   p - Len(file) - m)

LEMMA GrowsByPrefix ==
  ASSUME FileInv, alive, adding,
         NEW T \in Seq(AnyByte), Len(T) \in 0 .. H - 1,
         \A i \in 1 .. Len(T) : T[i] = ZeroByte,
         NEW k \in 0 .. Len(T \o Fragment),
         file' = file \o SubSeq(T \o Fragment, 1, k)
  PROVE  Grows(Len(T), k)
<1> DEFINE W == T \o Fragment
           S == SubSeq(W, 1, k)
<1>1. file \in Seq(AnyByte)
  BY DEF FileInv, BytesRight
<1>0. /\ Fragment \in Seq(AnyByte) /\ Len(Fragment) = H + FragmentLength
      /\ H \in Nat /\ FragmentLength \in Nat /\ Len(T) \in Nat
  BY FragmentBytes, RoundTypes, HeaderAndBlock
<1>2. /\ W \in Seq(AnyByte) /\ Len(W) = Len(T) + H + FragmentLength
      /\ \A i \in 1 .. Len(W) :
           W[i] = IF i <= Len(T) THEN T[i] ELSE Fragment[i - Len(T)]
  <2>1. /\ W \in Seq(AnyByte) /\ Len(W) = Len(T) + Len(Fragment)
        /\ \A i \in 1 .. Len(T) + Len(Fragment) :
             W[i] = IF i <= Len(T) THEN T[i] ELSE Fragment[i - Len(T)]
    BY <1>0, ConcatProperties, Zenon
  <2> HIDE DEF W
  <2>2. Len(T) + Len(Fragment) = Len(T) + H + FragmentLength
    BY <1>0
  <2> QED BY <2>1, <2>2
<1>w. k \in 0 .. Len(W) /\ Len(W) \in Nat
  BY <1>0, <1>2
<1> HIDE DEF W
<1>3. S \in Seq(AnyByte) /\ Len(S) = k /\ \A i \in 1 .. k : S[i] = W[i]
  BY <1>2, <1>w
<1>4. \A i \in 1 .. k :
        S[i] = IF i <= Len(T) THEN ZeroByte
               ELSE Byte(FragmentType, Record, length[Record] - left, FragmentLength,
                         i - Len(T))
  <2> TAKE i \in 1 .. k
  <2>1. S[i] = W[i] /\ i \in 1 .. Len(W) /\ i \in Nat
    BY <1>3, <1>w
  <2>2. CASE i <= Len(T)
    <3>1. i \in 1 .. Len(T)
      BY <2>1, <2>2, <1>0
    <3> QED BY <1>2, <2>1, <2>2, <3>1
  <2>3. CASE ~(i <= Len(T))
    <3>1. i - Len(T) \in 1 .. H + FragmentLength
      BY <1>0, <1>2, <2>1, <2>3
    <3> QED BY <1>2, <2>1, <2>3, <3>1, FragmentBytes
  <2> QED BY <2>2, <2>3
<1> HIDE DEF S
<1>5. /\ file' \in Seq(AnyByte) /\ Len(file') = Len(file) + k
      /\ \A p \in 1 .. Len(file') :
           file'[p] = IF p <= Len(file) THEN file[p] ELSE S[p - Len(file)]
  <2>1. file' = file \o S
    BY DEF S, W
  <2>2. /\ file \o S \in Seq(AnyByte) /\ Len(file \o S) = Len(file) + Len(S)
        /\ \A i \in 1 .. Len(file) + Len(S) :
             (file \o S)[i] = IF i <= Len(file) THEN file[i] ELSE S[i - Len(file)]
    BY <1>1, <1>3, ConcatProperties, Zenon
  <2>3. Len(S) = k
    BY <1>3
  <2> QED BY <2>1, <2>2, <2>3, Zenon
<1>6. \A p \in 1 .. Len(file') : p > Len(file) => p - Len(file) \in 1 .. k
  BY <1>1, <1>5
<1>7. Len(file) \in Nat /\ Len(T) \in Nat
  BY <1>1
<1>8. \A p \in 1 .. Len(file') :
       file'[p] =
         IF p <= Len(file) THEN file[p]
         ELSE IF p <= Len(file) + Len(T) THEN ZeroByte
         ELSE Byte(FragmentType, Record, length[Record] - left, FragmentLength,
                   p - Len(file) - Len(T))
  <2> TAKE p \in 1 .. Len(file')
  <2>1. p \in Nat
    BY <1>5, <1>7, <1>w
  <2>2. CASE p <= Len(file)
    BY <1>5, <2>2
  <2>3. CASE ~(p <= Len(file))
    <3>1. p - Len(file) \in 1 .. k /\ file'[p] = S[p - Len(file)]
      BY <1>5, <1>6, <1>7, <2>1, <2>3
    <3>2. p - Len(file) <= Len(T) <=> p <= Len(file) + Len(T)
      BY <1>7, <2>1
    <3> QED BY <1>4, <2>3, <3>1, <3>2
  <2> QED BY <2>2, <2>3
<1>9. k \in 0 .. Len(T) + H + FragmentLength
  BY <1>2, <1>w
<1> QED BY <1>5, <1>8, <1>9 DEF Grows

-----------------------------------------------------------------------------
(* The writer preserves what the file is.                                  *)

(* The position p of a grown file: old, trailer or fragment.               *)
LEMMA GrownPositions ==
  ASSUME FileInv, alive, adding, NEW m, NEW k, Grows(m, k)
  PROVE  /\ m \in Nat /\ k \in Nat /\ Len(file) \in Nat /\ Len(file') \in Nat
         /\ DOMAIN file = 1 .. Len(file) /\ DOMAIN file' = 1 .. Len(file')
         /\ \A p \in DOMAIN file : p \in DOMAIN file' /\ file'[p] = file[p]
         /\ \A p \in DOMAIN file' : p \notin DOMAIN file =>
              \/ p \in Len(file) + 1 .. Len(file) + m /\ file'[p] = ZeroByte
              \/ /\ p > Len(file) + m
                 /\ p - Len(file) - m \in 1 .. H + FragmentLength
                 /\ file'[p] = Byte(FragmentType, Record, length[Record] - left,
                                    FragmentLength, p - Len(file) - m)
<1>1. file \in Seq(AnyByte) /\ file' \in Seq(AnyByte)
  BY DEF FileInv, BytesRight, Grows
<1>2. H \in Nat /\ FragmentLength \in Nat
  BY RoundTypes, HeaderAndBlock
<1>3. m \in Nat /\ k \in Nat /\ k <= m + H + FragmentLength
  BY <1>2 DEF Grows
<1>4. /\ Len(file) \in Nat /\ Len(file') \in Nat
      /\ DOMAIN file = 1 .. Len(file) /\ DOMAIN file' = 1 .. Len(file')
  BY <1>1
<1>5. Len(file') = Len(file) + k
  BY DEF Grows
<1>6. \A p \in DOMAIN file : p \in DOMAIN file' /\ file'[p] = file[p]
  BY <1>3, <1>4, <1>5 DEF Grows
<1>7. ASSUME NEW p \in DOMAIN file', p \notin DOMAIN file
      PROVE  \/ p \in Len(file) + 1 .. Len(file) + m /\ file'[p] = ZeroByte
             \/ /\ p > Len(file) + m
                /\ p - Len(file) - m \in 1 .. H + FragmentLength
                /\ file'[p] = Byte(FragmentType, Record, length[Record] - left,
                                   FragmentLength, p - Len(file) - m)
  <2>1. p \in Nat /\ p > Len(file) /\ p <= Len(file) + k /\ ~(p <= Len(file))
    BY <1>3, <1>4, <1>5, <1>7
  <2>2. CASE p <= Len(file) + m
    <3>1. file'[p] = ZeroByte
      BY <1>4, <1>7, <2>1, <2>2 DEF Grows
    <3> QED BY <1>3, <1>4, <2>1, <2>2, <3>1
  <2>3. CASE ~(p <= Len(file) + m)
    <3>1. file'[p] = Byte(FragmentType, Record, length[Record] - left,
                          FragmentLength, p - Len(file) - m)
      BY <1>4, <1>7, <2>1, <2>3 DEF Grows
    <3>2. p > Len(file) + m /\ p - Len(file) - m \in 1 .. H + FragmentLength
      BY <1>2, <1>3, <1>4, <2>1, <2>3
    <3> QED BY <3>1, <3>2
  <2> QED BY <2>2, <2>3
<1> QED BY <1>3, <1>4, <1>6, <1>7

(* A fragment stays where it is when bytes are only added or go bad.       *)
LEMMA PlacedStays ==
  ASSUME DOMAIN file = 1 .. Len(file), Len(file) \in Nat, Len(file') \in Nat,
         Len(file) <= Len(file'),
         \A p \in DOMAIN file : file'[p] \in {file[p], BadByte},
         NEW t, NEW r, NEW o, NEW n \in Nat, NEW e \in Int,
         Placed(t, r, o, n, e)
  PROVE  Placed(t, r, o, n, e)'
<1>1. H + n <= e /\ e <= Len(file) /\ H \in Nat
  BY HeaderAndBlock DEF Placed
<1>2. e <= Len(file')
  BY <1>1
<1>3. ASSUME NEW i \in 1 .. H + n
      PROVE  file'[e - (H + n) + i] \in {Byte(t, r, o, n, i), BadByte}
  <2> DEFINE p == e - (H + n) + i
  <2>1. p \in DOMAIN file
    BY <1>1
  <2>2. file[p] \in {Byte(t, r, o, n, i), BadByte}
    BY DEF Placed
  <2> HIDE DEF p
  <2>3. file'[p] \in {Byte(t, r, o, n, i), BadByte}
    BY <2>1, <2>2
  <2> QED BY <2>3 DEF p
<1> QED BY <1>1, <1>2, <1>3 DEF Placed, H

LEMMA ContinuesStays ==
  ASSUME file \in Seq(AnyByte), Len(file') \in Nat,
         Len(file) <= Len(file'),
         \A q \in DOMAIN file : file'[q] \in {file[q], BadByte},
         NEW p \in DOMAIN file, Continues(p), file'[p] = file[p]
  PROVE  Continues(p)'
<1>1. PICK z \in 0 .. H - 1, t \in {kFirstType, kMiddleType}, o \in 0 .. file[p].from :
        /\ Placed(t, file[p].rec, o, file[p].from - o, p - 1 - z)
        /\ \A q \in p - z .. p - 1 : file[q] \in NoRecord
  BY DEF Continues
<1>2. PICK r, f : r = file[p].rec /\ f = file[p].from
  OBVIOUS
<1>3. f \in Nat /\ H \in Nat /\ p \in Nat /\ Len(file) \in Nat /\ DOMAIN file = 1 .. Len(file)
  <2>1. Len(file) \in Nat /\ DOMAIN file = 1 .. Len(file)
    OBVIOUS
  <2>2. file[p] \in AnyByte
    BY <2>1, ElementOfSeq
  <2>3. f \in Nat
    BY <1>2, <2>2 DEF AnyByte
  <2> QED BY <2>1, <2>3, HeaderAndBlock
<1>4. o \in Nat /\ z \in Nat /\ f - o \in Nat /\ p - 1 - z \in Int
  BY <1>1, <1>2, <1>3
<1>5. Placed(t, r, o, f - o, p - 1 - z)
  BY <1>1, <1>2
<1>6. Placed(t, r, o, f - o, p - 1 - z)'
  BY <1>3, <1>4, <1>5, PlacedStays
<1>7. \A q \in p - z .. p - 1 : file'[q] \in NoRecord
  <2> TAKE q \in p - z .. p - 1
  <2>1. H + (f - o) <= p - 1 - z
    BY <1>5 DEF Placed
  <2>2. q \in DOMAIN file
    BY <1>3, <1>4, <2>1
  <2>3. file[q] \in NoRecord
    BY <1>1
  <2> QED BY <2>2, <2>3 DEF NoRecord
<1>8. file'[p].rec = r /\ file'[p].from = f
  BY <1>2
<1> QED BY <1>1, <1>2, <1>6, <1>7, <1>8 DEF Continues, H, NoRecord

LEMMA GrowsBytes ==
  ASSUME FileInv, alive, adding, length' = length, NEW m, NEW k, Grows(m, k)
  PROVE  BytesRight'
<1>1. file' \in Seq(AnyByte)
  BY DEF Grows
<1>2. ASSUME NEW p \in DOMAIN file'
      PROVE  file'[p] \in NoRecord \/ FragmentByte(file[p])'
  <2>1. CASE p \in DOMAIN file
    <3>1. file'[p] = file[p]
      BY <2>1, GrownPositions
    <3>2. file[p] \in NoRecord \/ FragmentByte(file[p])
      BY <2>1 DEF FileInv, BytesRight
    <3> QED BY <3>1, <3>2 DEF FragmentByte, H
  <2>2. CASE p \in Len(file) + 1 .. Len(file) + m /\ file'[p] = ZeroByte
    BY <2>2 DEF NoRecord
  <2>3. CASE /\ p - Len(file) - m \in 1 .. H + FragmentLength
             /\ file'[p] = Byte(FragmentType, Record, length[Record] - left,
                                FragmentLength, p - Len(file) - m)
    <3>1. PICK i, o : i = p - Len(file) - m /\ o = length[Record] - left
      OBVIOUS
    <3>2. /\ i \in 1 .. H + FragmentLength /\ i \in Int /\ o \in Nat
          /\ Record \in Nat /\ Record \in DOMAIN length /\ FragmentLength \in Nat
          /\ H \in Nat /\ left \in Nat /\ length[Record] \in Nat
      <4>1. o \in Nat /\ Record \in Nat /\ Record \in DOMAIN length /\ FragmentLength \in Nat
            /\ left \in Nat /\ length[Record] \in Nat
        BY <3>1, RoundTypes
      <4> QED BY <2>3, <3>1, <4>1, HeaderAndBlock
    <3>3. FragmentType \in {kFullType, kFirstType, kMiddleType, kLastType} /\ FragmentType \in 0 .. 4
      BY RoundTypes DEF kFullType, kFirstType, kMiddleType, kLastType
    <3>4. /\ file'[p].type = FragmentType /\ file'[p].rec = Record /\ file'[p].from = o
          /\ file'[p].len = FragmentLength /\ file'[p].at = i
      BY <2>3, <3>1 DEF Byte
    <3>5. FragmentType \in {kFullType, kFirstType} => o = 0
      <4>1. begin => left = length[Record]
        BY DEF FileInv, WriterProgress
      <4> QED BY <3>1, <3>2, <4>1, RoundTypes
    <3>6. FragmentType \in {kFullType, kLastType} => o + FragmentLength = length[Record]
      <4>1. End => left = FragmentLength
        BY DEF End
      <4> QED BY <3>1, <3>2, <4>1, RoundTypes
    <3> QED BY <3>2, <3>3, <3>4, <3>5, <3>6 DEF FragmentByte, H
  <2> QED BY <2>1, <2>2, <2>3, GrownPositions
<1> QED BY <1>1, <1>2 DEF BytesRight, NoRecord

(* The new byte with at = 1 is the first of the fragment.                  *)
LEMMA GrownStart ==
  ASSUME FileInv, alive, adding, NEW m, NEW k, Grows(m, k),
         NEW p \in DOMAIN file', p \notin DOMAIN file, file'[p].at = 1
  PROVE  /\ p = Len(file) + m + 1
         /\ file'[p].type = FragmentType /\ file'[p].rec = Record
         /\ file'[p].from = length[Record] - left
<1>1. file'[p] # ZeroByte
  BY DEF ZeroByte, Byte
<1>2. /\ p - Len(file) - m \in 1 .. H + FragmentLength
      /\ file'[p] = Byte(FragmentType, Record, length[Record] - left,
                         FragmentLength, p - Len(file) - m)
  BY <1>1, GrownPositions
<1>3. /\ Record \in Nat /\ length[Record] - left \in Nat /\ FragmentLength \in Nat
      /\ FragmentType \in 0 .. 4
  BY RoundTypes DEF kFullType, kFirstType, kMiddleType, kLastType
<1>4. /\ p \in Nat /\ Len(file) \in Nat /\ m \in Nat
  BY GrownPositions
<1>5. PICK i \in Int : i = p - Len(file) - m
  BY <1>4
<1>6. /\ file'[p].type = FragmentType /\ file'[p].rec = Record
      /\ file'[p].from = length[Record] - left /\ file'[p].at = i
  BY <1>2, <1>5 DEF Byte
<1>7. i = 1
  BY <1>6
<1> QED BY <1>4, <1>5, <1>6, <1>7

LEMMA GrowsContinuations ==
  ASSUME FileInv, alive, adding, length' = length, NEW m, NEW k, Grows(m, k)
  PROVE  ContinuationsRight'
<1> SUFFICES ASSUME NEW p \in DOMAIN file', IsContinuation(file[p])'
             PROVE  Continues(p)'
  BY DEF ContinuationsRight
<1>0. /\ file \in Seq(AnyByte) /\ Len(file) \in Nat
      /\ Len(file') \in Nat /\ Len(file) <= Len(file')
      /\ DOMAIN file = 1 .. Len(file)
      /\ \A q \in DOMAIN file : file'[q] = file[q]
      /\ m \in Nat /\ m \in 0 .. H - 1
  <2>1. file \in Seq(AnyByte)
    BY DEF FileInv, BytesRight
  <2>2. Len(file') = Len(file) + k /\ m \in 0 .. H - 1
    BY DEF Grows
  <2> QED BY <2>1, <2>2, GrownPositions
<1>1. CASE p \in DOMAIN file
  <2>1. file'[p] = file[p]
    BY <1>0, <1>1
  <2>2. Continues(p)
    BY <1>1, <2>1 DEF FileInv, ContinuationsRight, IsContinuation
  <2> QED BY <1>0, <1>1, <2>1, <2>2, ContinuesStays
<1>2. CASE p \notin DOMAIN file
  <2>1. /\ p = Len(file) + m + 1 /\ file'[p].rec = Record /\ file'[p].type = FragmentType
        /\ file'[p].from = length[Record] - left
    BY <1>2, GrownStart DEF IsContinuation
  <2>2. ~begin
    BY <2>1, RoundTypes DEF IsContinuation, kFullType, kFirstType, kMiddleType, kLastType
  <2>3. PICK t \in {kFirstType, kMiddleType}, o \in 0 .. length[Record] - left :
           Placed(t, Record, o, length[Record] - left - o, Len(file))
    BY <2>2 DEF FileInv, WriterProgress
  <2>4. PICK r, f : r = Record /\ f = length[Record] - left
    OBVIOUS
  <2>5. f \in Nat /\ o \in 0 .. f /\ f - o \in Nat
    BY <2>3, <2>4, RoundTypes
  <2>6. PICK e \in Nat : e = Len(file)
    BY <1>0
  <2>7. Placed(t, r, o, f - o, e)
    BY <2>3, <2>4, <2>6
  <2>8. Placed(t, r, o, f - o, e)'
    BY <1>0, <2>5, <2>6, <2>7, PlacedStays
  <2>9. \A q \in p - m .. p - 1 : file'[q] = ZeroByte
    <3> TAKE q \in p - m .. p - 1
    <3>0. p = Len(file) + m + 1 /\ Len(file) \in Nat /\ m \in Nat
      BY <1>0, <2>1
    <3>1. q \in Len(file) + 1 .. Len(file) + m
      BY <3>0
    <3>2. q \in DOMAIN file' /\ q \notin DOMAIN file /\ ~(q > Len(file) + m)
      BY <1>0, <2>1, <3>1, GrownPositions
    <3> QED BY <3>2, GrownPositions
  <2>10. p - 1 - m = e
    <3>0. p = Len(file) + m + 1 /\ Len(file) \in Nat /\ m \in Nat
      BY <1>0, <2>1
    <3> QED BY <2>6, <3>0
  <2>11. file'[p].rec = r /\ file'[p].from = f
    BY <2>1, <2>4
  <2>12. \E z \in 0 .. H - 1, s \in {kFirstType, kMiddleType}, x \in 0 .. f :
           /\ Placed(s, r, x, f - x, p - 1 - z)'
           /\ \A q \in p - z .. p - 1 : file'[q] \in {ZeroByte, BadByte}
    <3>1. m \in 0 .. H - 1
      BY <1>0
    <3> QED BY <2>3, <2>5, <2>8, <2>9, <2>10, <3>1
  <2> QED BY <2>11, <2>12 DEF Continues, NoRecord, H
<1> QED BY <1>1, <1>2

LEMMA GrowsStarts ==
  ASSUME FileInv, alive, adding, length' = length, NEW m, NEW k, Grows(m, k)
  PROVE  StartsInOrder'
<1> SUFFICES ASSUME NEW p \in DOMAIN file', NEW q \in DOMAIN file', p < q,
                    IsStart(file[p])', IsStart(file[q])'
             PROVE  file'[p].rec < file'[q].rec
  BY DEF StartsInOrder
<1>0. /\ Len(file) \in Nat /\ Len(file') \in Nat /\ DOMAIN file = 1 .. Len(file)
      /\ DOMAIN file' = 1 .. Len(file') /\ m \in Nat
      /\ \A x \in DOMAIN file : file'[x] = file[x]
  BY GrownPositions
<1>1. CASE q \in DOMAIN file
  <2>1. p \in DOMAIN file
    BY <1>0, <1>1
  <2>2. file'[p] = file[p] /\ file'[q] = file[q]
    BY <1>0, <1>1, <2>1
  <2> QED BY <1>1, <2>1, <2>2 DEF FileInv, StartsInOrder, IsStart
<1>2. CASE q \notin DOMAIN file
  <2>1. q = Len(file) + m + 1 /\ file'[q].rec = Record /\ file'[q].type = FragmentType
    BY <1>2, GrownStart DEF IsStart
  <2>2. begin
    BY <2>1, RoundTypes DEF IsStart
  <2>3. p \in DOMAIN file
    <3> SUFFICES ASSUME p \notin DOMAIN file PROVE FALSE
      OBVIOUS
    <3>1. p = Len(file) + m + 1
      BY GrownStart DEF IsStart
    <3> QED BY <1>0, <2>1, <3>1
  <2>4. file'[p] = file[p]
    BY <1>0, <2>3
  <2>5. file[p].rec < Record
    BY <2>2, <2>3 DEF FileInv, WriterProgress
  <2> QED BY <2>1, <2>4, <2>5
<1> QED BY <1>1, <1>2

(* What AddRecord() knows after a round that wrote its whole fragment.     *)
LEMMA GrowsProgress ==
  ASSUME FileInv, alive, adding, length' = length, NEW m, Grows(m, m + H + FragmentLength),
         left' = left - FragmentLength, begin' = FALSE, adding' => left' > 0
  PROVE  WriterProgress'
<1> SUFFICES ASSUME adding', NEW r, NEW x, NEW e, r = Len(length), x = length[r] - left', e = Len(file')
             PROVE  /\ Len(length) > 0 /\ left' <= length[r]
                    /\ \E t \in {kFirstType, kMiddleType}, o \in 0 .. x : Placed(t, r, o, x - o, e)'
  BY DEF WriterProgress, Record
<1>0. r = Record
  BY DEF Record
<1>1. /\ Record \in Nat /\ Record > 0 /\ length[Record] \in Nat /\ left \in Nat
      /\ length[Record] - left \in Nat /\ FragmentLength \in Nat /\ FragmentLength <= left
  BY RoundTypes
<1>2. Len(length) > 0 /\ left' <= length[Record] /\ left' \in Nat
  BY <1>1, <1>0
<1>3. FragmentType \in {kFirstType, kMiddleType}
  <2>1. ~End
    BY <1>1 DEF End
  <2> QED BY <2>1, RoundTypes DEF kFullType, kFirstType, kMiddleType, kLastType
<1>4. PICK t, o, n : t = FragmentType /\ o = length[Record] - left /\ n = FragmentLength
  OBVIOUS
<1>5. o \in 0 .. x /\ x - o = n
  BY <1>0, <1>1, <1>2, <1>4
<1>6. Placed(t, r, o, n, e)'
  <2>1. /\ m \in Nat /\ Len(file) \in Nat /\ e \in Nat /\ H \in Nat
        /\ DOMAIN file = 1 .. Len(file) /\ DOMAIN file' = 1 .. Len(file')
    BY GrownPositions, HeaderAndBlock
  <2>2. e = Len(file) + m + H + n /\ n \in Nat
    BY <1>1, <1>4, <2>1 DEF Grows
  <2>3. ASSUME NEW i \in 1 .. H + n
        PROVE  file'[e - (H + n) + i] = Byte(t, r, o, n, i)
    <3>1. PICK p \in Nat : p = e - (H + n) + i
      <4>1. e - (H + n) + i \in Nat
        BY <2>1, <2>2
      <4> QED BY <4>1
    <3>2. p \in DOMAIN file' /\ p \notin DOMAIN file /\ p > Len(file) + m /\ p - Len(file) - m = i
      BY <2>1, <2>2, <3>1
    <3>3. ~(p \in Len(file) + 1 .. Len(file) + m)
      BY <2>1, <3>2
    <3>4. file'[p] = Byte(t, r, o, n, i)
      BY <1>0, <1>4, <3>2, <3>3, GrownPositions
    <3> QED BY <3>1, <3>4
  <2>4. H + n <= e /\ e <= Len(file')
    BY <1>1, <1>4, <2>1, <2>2
  <2> QED BY <2>3, <2>4 DEF Placed, H
<1>7. Placed(t, r, o, x - o, e)'
  BY <1>5, <1>6
<1> QED BY <1>0, <1>2, <1>3, <1>4, <1>5, <1>7

LEMMA RoundBlockOffset ==
  ASSUME FileInv, alive, adding, AdvanceBlockOffset
  PROVE  block_offset_' \in 0 .. kBlockSize /\ left - FragmentLength \in Nat
<1>1. /\ BlockOffset \in Nat /\ FragmentLength \in Nat /\ FragmentLength <= left /\ left \in Nat
      /\ BlockOffset + H + FragmentLength <= kBlockSize
  BY RoundTypes
<1> QED BY <1>1, HeaderAndBlock DEF AdvanceBlockOffset

LEMMA RoundDoneStep ==
  ASSUME FileInv, NEW m, NEW bytes, RoundDone(bytes), Grows(m, m + H + FragmentLength),
         faults' \in 0 .. MaxFaults, damaged' \in BOOLEAN
  PROVE  FileInv'
<1>1. /\ alive /\ adding /\ AdvanceBlockOffset
      /\ left' = left - FragmentLength /\ begin' = FALSE /\ adding' = (left' > 0)
      /\ acked' = IF adding' THEN acked ELSE acked \cup {Record}
      /\ length' = length /\ alive' = alive
  BY DEF RoundDone
<1>2. BytesRight' /\ ContinuationsRight' /\ StartsInOrder'
  BY <1>1, GrowsBytes, GrowsContinuations, GrowsStarts
<1>3. WriterProgress'
  BY <1>1, GrowsProgress
<1>4. WriterTypeOK'
  <2>1. block_offset_' \in 0 .. kBlockSize /\ left' \in Nat
    BY <1>1, RoundBlockOffset
  <2>2. acked' \subseteq DOMAIN length
    <3>1. acked \subseteq DOMAIN length
      BY DEF FileInv, WriterTypeOK
    <3>2. Record \in DOMAIN length
      BY <1>1, RoundTypes
    <3> QED BY <1>1, <3>1, <3>2
  <2>3. adding' \in BOOLEAN /\ begin' \in BOOLEAN /\ alive' \in BOOLEAN
    <3>1. (left' > 0) \in BOOLEAN
      OBVIOUS
    <3>2. alive \in BOOLEAN
      BY DEF FileInv, WriterTypeOK
    <3> QED BY <1>1, <3>1, <3>2, Zenon
  <2>4. length' \in Seq(Length) /\ Len(length') <= MaxRecords /\ length' = length
    BY <1>1 DEF FileInv, WriterTypeOK
  <2> QED BY <2>1, <2>2, <2>3, <2>4 DEF WriterTypeOK
<1> QED BY <1>2, <1>3, <1>4 DEF FileInv

(* The writer loses the record it is adding.                               *)
LEMMA AbandonStep ==
  ASSUME FileInv, alive, adding, NEW m, NEW k, Grows(m, k),
         ~(alive' /\ adding'), alive' \in BOOLEAN, adding' \in BOOLEAN, begin' \in BOOLEAN,
         block_offset_' \in 0 .. kBlockSize, left' \in Nat,
         length' = length, acked' = acked,
         faults' \in 0 .. MaxFaults, damaged' \in BOOLEAN
  PROVE  FileInv'
<1>2. BytesRight' /\ ContinuationsRight' /\ StartsInOrder'
  BY GrowsBytes, GrowsContinuations, GrowsStarts
<1>3. WriterProgress'
  BY DEF WriterProgress
<1>4. WriterTypeOK'
  BY DEF WriterTypeOK, FileInv
<1> QED BY <1>2, <1>3, <1>4 DEF FileInv

(* A step that leaves the file and the records alone.                      *)
LEMMA ContinuationsStay ==
  ASSUME ContinuationsRight, file' = file
  PROVE  ContinuationsRight'
<1>1. \A t, r, o, n, e : Placed(t, r, o, n, e)' <=> Placed(t, r, o, n, e)
  BY DEF Placed, H
<1>2. \A p : Continues(p)' <=> Continues(p)
  BY <1>1 DEF Continues, NoRecord, H
<1>3. \A c : IsContinuation(c)' <=> IsContinuation(c)
  BY DEF IsContinuation
<1> QED BY <1>2, <1>3 DEF ContinuationsRight

LEMMA FileStays ==
  ASSUME FileInv, file' = file, length' = length
  PROVE  BytesRight' /\ ContinuationsRight' /\ StartsInOrder'
<1>1. BytesRight'
  BY DEF FileInv, BytesRight, FragmentByte, NoRecord, H
<1>2. ContinuationsRight'
  BY ContinuationsStay DEF FileInv
<1>3. StartsInOrder'
  BY DEF FileInv, StartsInOrder, IsStart
<1> QED BY <1>1, <1>2, <1>3

LEMMA FaultsBounded ==
  ASSUME FileInv, Fault
  PROVE  faults' \in 0 .. MaxFaults
BY LogWriterAssumption DEF FileInv, WriterTypeOK, Fault

LEMMA StartAddRecordStep ==
  ASSUME FileInv, NEW n \in Length, StartAddRecord(n)
  PROVE  FileInv'
<1>1. /\ Len(length) < MaxRecords /\ length' = Append(length, n)
      /\ adding' = TRUE /\ left' = n /\ begin' = TRUE
      /\ UNCHANGED <<file, block_offset_, acked, alive, faults, damaged>>
  BY DEF StartAddRecord
<1>2. length \in Seq(Length) /\ n \in Nat /\ MaxRecords \in Nat
  BY LogWriterAssumption DEF FileInv, WriterTypeOK
<1>3. /\ length' \in Seq(Length) /\ Len(length') = Len(length) + 1 /\ Len(length) \in Nat
      /\ length'[Len(length')] = n
      /\ DOMAIN length = 1 .. Len(length) /\ DOMAIN length' = 1 .. Len(length')
      /\ \A i \in DOMAIN length : i \in DOMAIN length' /\ length'[i] = length[i]
  BY <1>1, <1>2
<1>4. WriterTypeOK'
  <2>1. Len(length') <= MaxRecords /\ acked' \subseteq DOMAIN length' /\ left' \in Nat
    BY <1>1, <1>2, <1>3 DEF FileInv, WriterTypeOK
  <2> QED BY <1>1, <1>3, <2>1 DEF FileInv, WriterTypeOK
<1>5. BytesRight'
  <2>1. ASSUME NEW p \in DOMAIN file
        PROVE  file[p] \in NoRecord \/ FragmentByte(file[p])'
    <3>1. file[p] \in NoRecord \/ FragmentByte(file[p])
      BY DEF FileInv, BytesRight
    <3> QED BY <1>1, <1>3, <3>1 DEF FragmentByte, H
  <2> QED BY <1>1, <2>1 DEF FileInv, BytesRight, NoRecord
<1>6. ContinuationsRight'
  BY <1>1, ContinuationsStay DEF FileInv
<1>7. StartsInOrder'
  BY <1>1 DEF FileInv, StartsInOrder, IsStart
<1>8. WriterProgress'
  <2>1. ASSUME NEW p \in DOMAIN file
        PROVE  file[p].rec < Len(length')
    <3>1. file[p] \in NoRecord \/ FragmentByte(file[p])
      BY DEF FileInv, BytesRight
    <3>2. CASE file[p] \in NoRecord
      <4>1. file[p].rec = 0
        BY <3>2 DEF NoRecord, ZeroByte, BadByte, Byte
      <4> QED BY <1>3, <4>1
    <3>3. CASE FragmentByte(file[p])
      BY <1>3, <3>3 DEF FragmentByte
    <3> QED BY <3>1, <3>2, <3>3
  <2> QED BY <1>1, <1>2, <1>3, <2>1 DEF WriterProgress, Record
<1> QED BY <1>4, <1>5, <1>6, <1>7, <1>8 DEF FileInv

LEMMA EmitGrows ==
  ASSUME FileInv, EmitPhysicalRecord
  PROVE  /\ alive /\ adding /\ RoundDone(Trailer \o Fragment)
         /\ faults' = faults /\ damaged' = damaged
         /\ Grows(Len(Trailer), Len(Trailer) + H + FragmentLength)
<1>1. RoundDone(Trailer \o Fragment) /\ alive /\ adding /\ file' = file \o (Trailer \o Fragment)
      /\ faults' = faults /\ damaged' = damaged
  BY DEF EmitPhysicalRecord, RoundDone
<1>2. /\ Trailer \in Seq(AnyByte) /\ Len(Trailer) \in 0 .. H - 1
      /\ \A i \in 1 .. Len(Trailer) : Trailer[i] = ZeroByte
  BY TrailerShort
<1>3. /\ Fragment \in Seq(AnyByte) /\ Len(Fragment) = H + FragmentLength
      /\ H \in Nat /\ FragmentLength \in Nat
  BY <1>1, FragmentBytes, RoundTypes, HeaderAndBlock
<1> DEFINE W == Trailer \o Fragment
<1>4. W \in Seq(AnyByte) /\ Len(W) = Len(Trailer) + H + FragmentLength
  <2>1. W \in Seq(AnyByte) /\ Len(W) = Len(Trailer) + Len(Fragment)
    BY <1>2, <1>3, ConcatProperties, Zenon
  <2> QED BY <1>2, <1>3, <2>1
<1>5. SubSeq(W, 1, Len(W)) = W /\ Len(W) \in 0 .. Len(W)
  <2>1. Len(W) \in Nat
    BY <1>2, <1>3, <1>4
  <2> HIDE DEF W
  <2> QED BY <1>4, <2>1, SubSeqFull
<1>6. Grows(Len(Trailer), Len(W))
  BY <1>1, <1>2, <1>5, GrowsByPrefix
<1>7. Grows(Len(Trailer), Len(Trailer) + H + FragmentLength)
  BY <1>4, <1>6
<1> QED BY <1>1, <1>7

LEMMA EmitPhysicalRecordStep ==
  ASSUME FileInv, EmitPhysicalRecord
  PROVE  FileInv'
<1>1. faults' \in 0 .. MaxFaults /\ damaged' \in BOOLEAN
  BY EmitGrows DEF FileInv, WriterTypeOK
<1> QED BY <1>1, EmitGrows, RoundDoneStep

LEMMA TrailerLostGrows ==
  ASSUME FileInv, TrailerLost
  PROVE  /\ alive /\ adding /\ RoundDone(Fragment) /\ Fault /\ damaged' \in BOOLEAN
         /\ Grows(0, 0 + H + FragmentLength)
<1>1. RoundDone(Fragment) /\ alive /\ adding /\ file' = file \o Fragment
      /\ Fault /\ damaged' \in BOOLEAN
  BY DEF TrailerLost, RoundDone
<1>3. /\ Fragment \in Seq(AnyByte) /\ Len(Fragment) = H + FragmentLength
      /\ H \in Nat /\ H >= 1 /\ FragmentLength \in Nat
  BY <1>1, FragmentBytes, RoundTypes, HeaderAndBlock
<1> DEFINE T == <<>>
<1>4. T \in Seq(AnyByte) /\ Len(T) = 0 /\ Len(T) \in 0 .. H - 1
      /\ \A i \in 1 .. Len(T) : T[i] = ZeroByte
  BY <1>3
<1>5. T \o Fragment = Fragment
  BY <1>3, ConcatEmptySeq
<1> HIDE DEF T
<1>6. SubSeq(Fragment, 1, Len(Fragment)) = Fragment /\ Len(Fragment) \in 0 .. Len(Fragment)
  BY <1>3, SubSeqFull
<1>7. Grows(Len(T), Len(Fragment))
  BY <1>1, <1>4, <1>5, <1>6, GrowsByPrefix
<1>8. Grows(0, 0 + H + FragmentLength)
  BY <1>3, <1>4, <1>7
<1> QED BY <1>1, <1>8

LEMMA TrailerLostStep ==
  ASSUME FileInv, TrailerLost
  PROVE  FileInv'
<1>1. faults' \in 0 .. MaxFaults
  BY TrailerLostGrows, FaultsBounded
<1> QED BY <1>1, TrailerLostGrows, RoundDoneStep

LEMMA TornWrite ==
  ASSUME FileInv, alive, adding, NEW k \in 0 .. Len(Trailer \o Fragment),
         file' = file \o SubSeq(Trailer \o Fragment, 1, k)
  PROVE  Grows(Len(Trailer), k)
BY TrailerShort, GrowsByPrefix

LEMMA EmitFailsGrows ==
  ASSUME FileInv, EmitFails
  PROVE  alive /\ adding /\ \E k : Grows(Len(Trailer), k)
<1>1. alive /\ adding
  BY DEF EmitFails
<1>2. PICK k \in 0 .. kHeaderSize + FragmentLength + Len(Trailer) - 1 :
        file' = file \o SubSeq(Trailer \o Fragment, 1, k)
  BY DEF EmitFails
<1>3. k \in 0 .. Len(Trailer \o Fragment)
  <2>1. /\ Fragment \in Seq(AnyByte) /\ Len(Fragment) = H + FragmentLength
        /\ H \in Nat /\ FragmentLength \in Nat /\ H = kHeaderSize
    BY <1>1, FragmentBytes, RoundTypes, HeaderAndBlock
  <2>2. Trailer \in Seq(AnyByte) /\ Len(Trailer) \in Nat
    BY TrailerShort, HeaderAndBlock
  <2>3. Len(Trailer \o Fragment) = Len(Trailer) + Len(Fragment)
    BY <2>1, <2>2, ConcatProperties, Zenon
  <2> QED BY <2>1, <2>2, <2>3
<1>4. Grows(Len(Trailer), k)
  BY <1>1, <1>2, <1>3, TornWrite
<1> QED BY <1>1, <1>4

LEMMA EmitFailsStep ==
  ASSUME FileInv, EmitFails
  PROVE  FileInv'
<1>1. /\ alive /\ adding /\ AdvanceBlockOffset /\ left' = left - FragmentLength
      /\ begin' = FALSE /\ adding' = FALSE /\ Fault /\ damaged' = TRUE
      /\ length' = length /\ acked' = acked /\ alive' = alive
  BY DEF EmitFails
<1>2. PICK k : Grows(Len(Trailer), k)
  BY EmitFailsGrows
<1>3. /\ block_offset_' \in 0 .. kBlockSize /\ left' \in Nat /\ faults' \in 0 .. MaxFaults
      /\ alive' \in BOOLEAN
  BY <1>1, RoundBlockOffset, FaultsBounded DEF FileInv, WriterTypeOK
<1> QED BY <1>1, <1>2, <1>3, AbandonStep

LEMMA CrashStep ==
  ASSUME FileInv, Crash
  PROVE  FileInv'
<1>1. /\ alive /\ alive' = FALSE /\ Fault
      /\ block_offset_' = block_offset_ /\ length' = length /\ acked' = acked
      /\ adding' = adding /\ left' = left /\ begin' = begin /\ damaged' = damaged
  BY DEF Crash
<1>2. /\ block_offset_' \in 0 .. kBlockSize /\ left' \in Nat /\ faults' \in 0 .. MaxFaults
      /\ adding' \in BOOLEAN /\ begin' \in BOOLEAN /\ damaged' \in BOOLEAN
  BY <1>1, FaultsBounded DEF FileInv, WriterTypeOK
<1>3. CASE adding
  <2>1. PICK k \in 0 .. Len(Trailer \o Fragment) :
          file' = file \o SubSeq(Trailer \o Fragment, 1, k)
    BY <1>3 DEF Crash
  <2>2. Grows(Len(Trailer), k)
    BY <1>1, <1>3, <2>1, TornWrite
  <2> QED BY <1>1, <1>2, <1>3, <2>2, AbandonStep
<1>4. CASE ~adding
  <2>1. file' = file
    BY <1>4 DEF Crash
  <2>2. WriterTypeOK'
    BY <1>1, <1>2 DEF FileInv, WriterTypeOK
  <2>3. WriterProgress'
    BY <1>1 DEF WriterProgress
  <2> QED BY <1>1, <2>1, <2>2, <2>3, FileStays DEF FileInv
<1> QED BY <1>3, <1>4

LEMMA Remainder ==
  ASSUME NEW a \in Nat, NEW b \in Nat \ {0}
  PROVE  /\ a % b \in 0 .. b - 1 /\ a \div b \in Nat
         /\ a = (b * (a \div b)) + (a % b)
OBVIOUS

LEMMA ReopenStep ==
  ASSUME FileInv, Reopen
  PROVE  FileInv'
<1>1. /\ alive' = TRUE /\ block_offset_' = Len(file) % kBlockSize
      /\ adding' = FALSE /\ left' = 0 /\ begin' = TRUE /\ damaged' = (damaged \/ adding)
      /\ file' = file /\ length' = length /\ acked' = acked /\ faults' = faults
  BY DEF Reopen
<1>2. block_offset_' \in 0 .. kBlockSize
  <2>1. Len(file) \in Nat
    BY DEF FileInv, BytesRight
  <2>2. kBlockSize \in Nat \ {0}
    BY HeaderAndBlock
  <2>3. Len(file) % kBlockSize \in 0 .. kBlockSize - 1
    BY <2>1, <2>2, Remainder
  <2> QED BY <1>1, <2>2, <2>3
<1>3. WriterTypeOK'
  BY <1>1, <1>2 DEF FileInv, WriterTypeOK
<1>4. WriterProgress'
  BY <1>1 DEF WriterProgress
<1> QED BY <1>1, <1>3, <1>4, FileStays DEF FileInv

LEMMA CorruptStep ==
  ASSUME FileInv, Corrupt
  PROVE  FileInv'
<1>1. /\ Fault /\ damaged' = TRUE
      /\ UNCHANGED <<block_offset_, length, acked, adding, left, begin, alive>>
  BY DEF Corrupt
<1>2. PICK x \in DOMAIN file : file' = [file EXCEPT ![x] = BadByte]
  BY DEF Corrupt
<1>3. file \in Seq(AnyByte) /\ Len(file) \in Nat /\ DOMAIN file = 1 .. Len(file)
  BY DEF FileInv, BytesRight
<1>4. /\ file' \in Seq(AnyByte) /\ Len(file') = Len(file) /\ DOMAIN file' = DOMAIN file
      /\ \A p \in DOMAIN file : file'[p] \in {file[p], BadByte}
  <2>1. /\ file' \in Seq(AnyByte) /\ Len(file') = Len(file)
        /\ \A p \in 1 .. Len(file) : file'[p] = IF p = x THEN BadByte ELSE file[p]
    BY <1>2, <1>3, BytesAreBytes, ExceptSeq
  <2> QED BY <1>2, <1>3, <2>1
<1>5. \A p \in DOMAIN file : file'[p].at = 1 => file'[p] = file[p]
  <2>1. BadByte.at # 1
    BY DEF BadByte, Byte
  <2> QED BY <1>4, <2>1
<1>6. WriterTypeOK'
  BY <1>1, FaultsBounded DEF FileInv, WriterTypeOK
<1>7. BytesRight'
  <2>1. ASSUME NEW p \in DOMAIN file
        PROVE  file'[p] \in NoRecord \/ FragmentByte(file[p])'
    <3>1. file[p] \in NoRecord \/ FragmentByte(file[p])
      BY DEF FileInv, BytesRight
    <3>2. CASE file'[p] = file[p]
      BY <1>1, <3>1, <3>2 DEF FragmentByte, H
    <3> QED BY <1>4, <3>2 DEF NoRecord
  <2> QED BY <1>4, <2>1 DEF BytesRight, NoRecord
<1>8. ContinuationsRight'
  <2> SUFFICES ASSUME NEW p \in DOMAIN file, IsContinuation(file[p])'
               PROVE  Continues(p)'
    BY <1>4 DEF ContinuationsRight
  <2>1. file'[p] = file[p]
    BY <1>5 DEF IsContinuation
  <2>2. Continues(p)
    BY <2>1 DEF FileInv, ContinuationsRight, IsContinuation
  <2>3. Len(file') \in Nat /\ Len(file) <= Len(file')
    BY <1>3, <1>4
  <2> QED BY <1>3, <1>4, <2>1, <2>2, <2>3, ContinuesStays
<1>9. StartsInOrder'
  <2> SUFFICES ASSUME NEW p \in DOMAIN file, NEW q \in DOMAIN file, p < q,
                      IsStart(file[p])', IsStart(file[q])'
               PROVE  file'[p].rec < file'[q].rec
    BY <1>4 DEF StartsInOrder
  <2>1. file'[p] = file[p] /\ file'[q] = file[q]
    BY <1>5 DEF IsStart
  <2> QED BY <2>1 DEF FileInv, StartsInOrder, IsStart
<1>10. WriterProgress'
  <2> SUFFICES ASSUME alive, adding PROVE WriterProgress'
    BY <1>1 DEF WriterProgress
  <2>1. Len(length) > 0 /\ left <= length[Record] /\ Record \in Nat /\ Record > 0
        /\ length[Record] - left \in Nat
    BY RoundTypes DEF FileInv, WriterProgress
  <2>2. ASSUME begin
        PROVE  left = length[Record] /\ \A p \in DOMAIN file : file'[p].rec < Record
    <3>1. left = length[Record] /\ \A p \in DOMAIN file : file[p].rec < Record
      BY <2>2 DEF FileInv, WriterProgress
    <3>2. BadByte.rec < Record
      BY <2>1, BytesAreBytes
    <3> QED BY <1>4, <3>1, <3>2
  <2>3. ASSUME ~begin, NEW r, NEW y, NEW e, r = Record, y = length[Record] - left, e = Len(file)
        PROVE  \E t \in {kFirstType, kMiddleType}, o \in 0 .. y : Placed(t, r, o, y - o, e)'
    <3>1. PICK t \in {kFirstType, kMiddleType}, o \in 0 .. y : Placed(t, r, o, y - o, e)
      BY <2>3 DEF FileInv, WriterProgress
    <3>2. y - o \in Nat /\ e \in Int
      BY <1>3, <2>1, <2>3
    <3>3. Len(file') \in Nat /\ Len(file) <= Len(file')
      BY <1>3, <1>4
    <3>4. Placed(t, r, o, y - o, e)'
      BY <1>3, <1>4, <3>1, <3>2, <3>3, PlacedStays
    <3> QED BY <3>4
  <2> QED BY <1>1, <1>4, <2>1, <2>2, <2>3 DEF WriterProgress, Record
<1> QED BY <1>6, <1>7, <1>8, <1>9, <1>10 DEF FileInv

LEMMA WriterStep ==
  ASSUME FileInv, WriterNext
  PROVE  FileInv'
BY StartAddRecordStep, EmitPhysicalRecordStep, TrailerLostStep, EmitFailsStep, CrashStep,
   ReopenStep, CorruptStep DEF WriterNext

LEMMA InitialFile ==
  ASSUME Init
  PROVE  FileInv
<1>1. /\ file = <<>> /\ block_offset_ = 0 /\ length = <<>> /\ acked = {}
      /\ adding = FALSE /\ left = 0 /\ begin = TRUE /\ alive = TRUE /\ faults = 0
      /\ damaged = FALSE
  BY DEF Init, WriterInit
<1>2. WriterTypeOK
  <2>1. length \in Seq(Length) /\ Len(length) = 0 /\ acked \subseteq DOMAIN length
    BY <1>1
  <2>2. block_offset_ \in 0 .. kBlockSize /\ faults \in 0 .. MaxFaults /\ MaxRecords \in Nat
    BY <1>1, HeaderAndBlock, LogWriterAssumption
  <2>3. Len(length) <= MaxRecords
    BY <2>1, <2>2
  <2>4. adding \in BOOLEAN /\ begin \in BOOLEAN /\ alive \in BOOLEAN /\ damaged \in BOOLEAN
    BY <1>1, Zenon
  <2>5. left \in Nat
    BY <1>1
  <2> QED BY <2>1, <2>2, <2>3, <2>4, <2>5, Zenon DEF WriterTypeOK
<1> QED BY <1>1, <1>2 DEF FileInv, BytesRight, ContinuationsRight, StartsInOrder, WriterProgress

-----------------------------------------------------------------------------
(* What the reader finds in its buffer.                                    *)

LEMMA BufferTypes ==
  ASSUME ReaderTypeOK
  PROVE  /\ buffer_ \in Nat /\ end_of_buffer_offset_ \in Nat /\ buffer_ <= end_of_buffer_offset_
         /\ initial_offset_ \in Nat
         /\ BufferSize \in Nat /\ BufferSize = end_of_buffer_offset_ - buffer_
BY LogReaderAssumption DEF ReaderTypeOK, BufferSize

LEMMA FileTypes ==
  ASSUME FileInv
  PROVE  /\ file \in Seq(AnyByte) /\ Len(file) \in Nat /\ DOMAIN file = 1 .. Len(file)
         /\ \A p \in DOMAIN file : file[p] \in AnyByte
<1>1. file \in Seq(AnyByte)
  BY DEF FileInv, BytesRight
<1> QED BY <1>1, ElementOfSeq

LEMMA SubSeqAt ==
  ASSUME NEW S, NEW s, NEW a \in Int, NEW n \in Nat, \A i \in a + 1 .. a + n : s[i] \in S
  PROVE  /\ Len(SubSeq(s, a + 1, a + n)) = n
         /\ \A i \in 1 .. n : SubSeq(s, a + 1, a + n)[i] = s[a + i]
<1>1. PICK x \in Int, y \in Int : x = a + 1 /\ y = a + n
  OBVIOUS
<1>2. \A i \in x .. y : s[i] \in S
  BY <1>1
<1>3. /\ Len(SubSeq(s, x, y)) = IF x <= y THEN y - x + 1 ELSE 0
      /\ \A i \in 1 .. y - x + 1 : SubSeq(s, x, y)[i] = s[x + i - 1]
  BY <1>2, SubSeqProperties
<1>4. y - x + 1 = n /\ (~(x <= y) => n = 0) /\ \A i \in 1 .. n : x + i - 1 = a + i
  BY <1>1
<1>5. Len(SubSeq(s, x, y)) = n /\ \A i \in 1 .. n : SubSeq(s, x, y)[i] = s[a + i]
  BY <1>3, <1>4
<1> QED BY <1>1, <1>5

LEMMA HeaderInFile ==
  ASSUME FileInv, ReaderTypeOK, BufferRight, AtHeader
  PROVE  /\ buffer_ + 1 \in DOMAIN file /\ buffer_ + H <= Len(file)
         /\ end_of_buffer_offset_ <= Len(file)
         /\ Header[1] = file[buffer_ + 1]
         /\ Len(Header) = H /\ \A i \in 1 .. H : Header[i] = file[buffer_ + i]
<1>1. BufferSize >= H /\ H >= 1 /\ H \in Nat /\ H = kHeaderSize
  BY HeaderAndBlock DEF AtHeader
<1>2. /\ buffer_ \in Nat /\ end_of_buffer_offset_ \in Nat
      /\ BufferSize \in Nat /\ BufferSize = end_of_buffer_offset_ - buffer_
  BY BufferTypes
<1>3. end_of_buffer_offset_ <= Len(file)
  BY <1>1, <1>2 DEF BufferRight, FileSize
<1>4. file \in Seq(AnyByte) /\ Len(file) \in Nat /\ DOMAIN file = 1 .. Len(file)
  BY FileTypes
<1>5. /\ buffer_ + 1 \in DOMAIN file /\ buffer_ + H <= Len(file)
      /\ \A i \in buffer_ + 1 .. buffer_ + H : i \in DOMAIN file
  BY <1>1, <1>2, <1>3, <1>4
<1>6. \A i \in buffer_ + 1 .. buffer_ + H : file[i] \in AnyByte
  BY <1>5, FileTypes
<1>7. Header = SubSeq(file, buffer_ + 1, buffer_ + H)
  BY DEF Header, H
<1>8. buffer_ \in Int
  BY <1>2
<1>9. Len(Header) = H /\ \A i \in 1 .. H : Header[i] = file[buffer_ + i]
  BY <1>1, <1>6, <1>7, <1>8, SubSeqAt
<1>10. Header[1] = file[buffer_ + 1]
  BY <1>1, <1>9
<1> QED BY <1>3, <1>5, <1>9, <1>10

(* An intact header is the start of a fragment.                            *)
LEMMA IntactHeader ==
  ASSUME FileInv, ReaderTypeOK, BufferRight, AtHeader, HeaderIntact
  PROVE  /\ file[buffer_ + 1].at = 1 /\ FragmentByte(file[buffer_ + 1])
         /\ file[buffer_ + 1] \in AnyByte
<1> DEFINE c == file[buffer_ + 1]
<1>0. H \in Nat /\ H >= 1 /\ H = kHeaderSize
  BY HeaderAndBlock
<1>1. Header[1] = c /\ buffer_ + 1 \in DOMAIN file
  BY HeaderInFile
<1>2. c \in AnyByte
  BY <1>1, FileTypes
<1>3. c.len \in Nat
  BY <1>2 DEF AnyByte
<1>4. Expected = [i \in 1 .. H + c.len |-> Byte(c.type, c.rec, c.from, c.len, i)]
  BY <1>1 DEF Expected, PhysicalRecord, H
<1>5. Expected[1] = Byte(c.type, c.rec, c.from, c.len, 1)
  BY <1>0, <1>3, <1>4
<1>6. SubSeq(Expected, 1, H)[1] = Expected[1]
  <2>1. PICK E, S : E = Expected /\ S = {Expected[i] : i \in 1 .. H}
    OBVIOUS
  <2>2. \A i \in 1 .. H : E[i] \in S
    BY <2>1
  <2>3. \A i \in 1 .. H - 1 + 1 : SubSeq(E, 1, H)[i] = E[1 + i - 1]
    BY <1>0, <2>2, SubSeqProperties
  <2> QED BY <1>0, <2>1, <2>3
<1>7. Header[1] = Expected[1]
  BY <1>6 DEF HeaderIntact, H
<1>8. c.at = 1
  BY <1>1, <1>5, <1>7 DEF Byte
<1>9. c \notin NoRecord
  BY <1>8 DEF NoRecord, ZeroByte, BadByte, Byte
<1>10. FragmentByte(c)
  BY <1>1, <1>9 DEF FileInv, BytesRight
<1> QED BY <1>2, <1>8, <1>10

LEMMA PhysicalRecordIntact ==
  ASSUME FileInv, ReaderTypeOK, BufferRight, AtPhysicalRecord
  PROVE  /\ buffer_ + 1 \in DOMAIN file
         /\ file[buffer_ + 1].at = 1 /\ FragmentByte(file[buffer_ + 1])
         /\ Header[1] = file[buffer_ + 1]
         /\ NextInBuffer = buffer_ + H + Payload.len
         /\ NextInBuffer \in Nat /\ buffer_ < NextInBuffer
         /\ NextInBuffer <= end_of_buffer_offset_ /\ end_of_buffer_offset_ <= Len(file)
         /\ Payload \in Fragments
         /\ Payload.rec = file[buffer_ + 1].rec /\ Payload.from = file[buffer_ + 1].from
         /\ Payload.len = file[buffer_ + 1].len
         /\ EndsFragment(Payload, NextInBuffer)
<1> DEFINE c == file[buffer_ + 1]
<1>0. H \in Nat /\ H >= 1 /\ H = kHeaderSize
  BY HeaderAndBlock
<1>1. AtHeader /\ HeaderIntact /\ InBuffer(Header[1].len) /\ PayloadIntact
  BY DEF AtPhysicalRecord
<1>2. Header[1] = c /\ buffer_ + 1 \in DOMAIN file /\ end_of_buffer_offset_ <= Len(file)
  BY <1>1, HeaderInFile
<1>3. c.at = 1 /\ FragmentByte(c) /\ c \in AnyByte
  BY <1>1, IntactHeader
<1>4. c.len \in Nat /\ c.rec \in Nat /\ c.from \in Nat
  BY <1>3 DEF AnyByte
<1>5. Payload \in Fragments /\ Payload.rec = c.rec /\ Payload.from = c.from /\ Payload.len = c.len
  BY <1>2, <1>4 DEF Payload, Fragments
<1>6. /\ buffer_ \in Nat /\ end_of_buffer_offset_ \in Nat
      /\ BufferSize = end_of_buffer_offset_ - buffer_
  BY BufferTypes
<1>7. NextInBuffer = buffer_ + H + c.len
  BY <1>2 DEF NextInBuffer, H
<1>8. NextInBuffer \in Nat /\ buffer_ < NextInBuffer /\ NextInBuffer <= end_of_buffer_offset_
  BY SMTT(30), <1>0, <1>1, <1>2, <1>4, <1>6, <1>7 DEF InBuffer
<1>9. file[NextInBuffer] = Byte(c.type, c.rec, c.from, c.len, H + c.len)
  <2>1. PICK E, n : E = Expected /\ n = H + c.len
    OBVIOUS
  <2>2. E = [i \in 1 .. n |-> Byte(c.type, c.rec, c.from, c.len, i)] /\ n \in Nat /\ n >= 1
    BY <1>0, <1>2, <1>4, <2>1 DEF Expected, PhysicalRecord, H
  <2>3. Len(E) = n /\ E[n] = Byte(c.type, c.rec, c.from, c.len, n)
    BY <2>2
  <2>4. SubSeq(file, buffer_ + 1, buffer_ + n) = E
    BY <1>1, <2>1, <2>3 DEF PayloadIntact
  <2>5. \A i \in buffer_ + 1 .. buffer_ + n : file[i] \in AnyByte
    <3> TAKE i \in buffer_ + 1 .. buffer_ + n
    <3>1. i \in DOMAIN file
      <4>1. buffer_ + n <= Len(file)
        BY SMTT(30), <1>2, <1>6, <1>7, <1>8, <1>0, <1>4, <2>1, FileTypes
      <4> QED BY <1>6, <2>2, <4>1, FileTypes
    <3> QED BY <3>1, FileTypes
  <2>6. \A i \in 1 .. n : SubSeq(file, buffer_ + 1, buffer_ + n)[i] = file[buffer_ + i]
    <3>1. buffer_ \in Int
      BY <1>6
    <3> QED BY <2>2, <2>5, <3>1, SubSeqAt
  <2>7. n \in 1 .. n
    BY <2>2
  <2>8. E[n] = file[buffer_ + n]
    BY <2>4, <2>6, <2>7
  <2>9. NextInBuffer = buffer_ + n
    BY <1>0, <1>4, <1>6, <1>7, <2>1
  <2> QED BY <2>1, <2>3, <2>8, <2>9
<1>10. NextInBuffer \in DOMAIN file
  BY <1>2, <1>6, <1>8, FileTypes
<1>11. EndsFragment(Payload, NextInBuffer)
  BY <1>5, <1>9, <1>10 DEF EndsFragment, Byte
<1> QED BY <1>2, <1>3, <1>5, <1>7, <1>8, <1>11

(* A continuation less than a header behind the end of a fragment          *)
(* continues that fragment.                                                *)
LEMMA ContinuationFits ==
  ASSUME FileInv, NEW b \in Nat, b + 1 \in DOMAIN file, IsContinuation(file[b + 1]),
         NEW f \in Fragments, NEW e \in DOMAIN file, EndsFragment(f, e), e <= b, b < e + H
  PROVE  file[b + 1].rec = f.rec /\ file[b + 1].from = f.from + f.len
<1>0. H \in Nat /\ H >= 1
  BY HeaderAndBlock
<1>1. PICK p \in Nat : p = b + 1
  OBVIOUS
<1>2. PICK r, g : r = file[p].rec /\ g = file[p].from
  OBVIOUS
<1>3. p \in DOMAIN file /\ Continues(p)
  BY <1>1 DEF FileInv, ContinuationsRight
<1>4. PICK z \in 0 .. H - 1, t \in {kFirstType, kMiddleType}, o \in 0 .. g :
        /\ Placed(t, r, o, g - o, p - 1 - z)
        /\ \A q \in p - z .. p - 1 : file[q] \in NoRecord
  BY <1>2, <1>3 DEF Continues
<1>5. g \in Nat
  BY <1>2, <1>3, FileTypes DEF AnyByte
<1>6. PICK n \in Nat : n = g - o
  BY <1>4, <1>5
<1>7. PICK d \in Int : d = p - 1 - z
  BY <1>0, <1>4
<1>8. /\ H + n <= d /\ d <= Len(file)
      /\ \A i \in 1 .. H + n : file[d - (H + n) + i] \in {Byte(t, r, o, n, i), BadByte}
  BY <1>4, <1>6, <1>7 DEF Placed
<1>9. e \in Nat /\ z \in Nat /\ o \in Nat
  BY <1>0, <1>4, <1>5, FileTypes
<1>10. f.len \in Nat /\ f.from \in Nat
  BY DEF Fragments
<1>11. /\ file[e].rec = f.rec /\ file[e].from = f.from /\ file[e].len = f.len
       /\ file[e].at = H + f.len
  BY DEF EndsFragment
<1>12. file[e] \notin NoRecord
  <2>1. file[e].at >= 1
    BY <1>0, <1>10, <1>11
  <2> QED BY <2>1 DEF NoRecord, ZeroByte, BadByte, Byte
<1>13. e <= d
  <2> SUFFICES ASSUME e > d PROVE FALSE
    BY <1>7, <1>9
  <2>1. e \in p - z .. p - 1
    BY <1>1, <1>7, <1>9
  <2> QED BY <1>4, <1>12, <2>1
<1>14. PICK i \in Int : i = e - d + (H + n)
  BY <1>0, <1>6, <1>7, <1>9
<1>15. i \in 1 .. H + n /\ d - (H + n) + i = e
  BY <1>0, <1>1, <1>6, <1>7, <1>9, <1>13, <1>14
<1>16. file[e] = Byte(t, r, o, n, i)
  BY <1>8, <1>12, <1>15 DEF NoRecord
<1>17. f.rec = r /\ f.from = o /\ f.len = n
  BY <1>11, <1>16 DEF Byte
<1> QED BY <1>1, <1>2, <1>5, <1>6, <1>9, <1>17

-----------------------------------------------------------------------------
(* The reader's steps.                                                     *)

Frozen == UNCHANGED <<file, writerVars>>

LEMMA FrozenFile ==
  ASSUME FileInv, Frozen
  PROVE  FileInv' /\ file' = file /\ length' = length
<1>1. /\ file' = file /\ length' = length /\ block_offset_' = block_offset_ /\ acked' = acked
      /\ adding' = adding /\ left' = left /\ begin' = begin /\ alive' = alive
      /\ faults' = faults /\ damaged' = damaged
  BY DEF Frozen, writerVars
<1>2. WriterTypeOK'
  BY <1>1 DEF FileInv, WriterTypeOK
<1>3. WriterProgress'
  BY <1>1 DEF FileInv, WriterProgress, Record, Placed, H
<1> QED BY <1>1, <1>2, <1>3, FileStays DEF FileInv

(* A step that returns no record and moves the buffer only forward.        *)
LEMMA NothingReturned ==
  ASSUME LogInv, Frozen, returned' = returned, last_record_offset_' = last_record_offset_,
         initial_offset_' = initial_offset_, buffer_' \in Nat, buffer_ <= buffer_'
  PROVE  ReturnedRight' /\ OffsetsExact'
<1>1. file' = file /\ length' = length
  BY FrozenFile DEF LogInv
<1>2. OffsetsExact'
  BY <1>1 DEF LogInv, OffsetsExact, StartsAt
<1>3. returned # <<>> => last_record_offset_ < buffer_'
  BY DEF LogInv, ReturnedRight, ReaderTypeOK
<1>4. \A i \in DOMAIN returned : WholeRecord(returned[i])'
  BY <1>1 DEF LogInv, ReturnedRight, WholeRecord
<1>5. ReturnedRight'
  BY <1>3, <1>4 DEF LogInv, ReturnedRight
<1> QED BY <1>2, <1>5

(* A record is returned that starts behind the last one.                   *)
LEMMA RecordReturned ==
  ASSUME LogInv, Frozen, initial_offset_' = initial_offset_,
         NEW fs \in Seq(Fragments), fs # <<>>, WholeRecord(fs),
         NEW offset \in Nat, StartsAt(offset + 1, fs[1].rec), initial_offset_ <= offset,
         returned # <<>> => last_record_offset_ < offset,
         Return(fs, offset), offset < buffer_'
  PROVE  ReturnedRight' /\ OffsetsExact'
<1>1. file' = file /\ length' = length
  BY FrozenFile DEF LogInv
<1>2. returned \in Seq(Seq(Fragments)) /\ last_record_offset_ \in Nat
  BY DEF LogInv, ReturnedRight, ReaderTypeOK
<1>3. returned' = Append(returned, fs) /\ last_record_offset_' = offset
  BY DEF Return
<1>4. PICK N \in Nat : N = Len(returned)
  BY <1>2
<1>5. /\ returned' \in Seq(Seq(Fragments)) /\ Len(returned') = N + 1 /\ returned' # <<>>
      /\ DOMAIN returned = 1 .. N /\ DOMAIN returned' = 1 .. N + 1
      /\ \A i \in 1 .. N : returned'[i] = returned[i]
      /\ returned'[N + 1] = fs
  BY SMTT(30), <1>2, <1>3, <1>4
<1>6. /\ fs[1].rec \in DOMAIN length /\ fs[1].rec \in Nat /\ fs[1].rec >= 1
  <2>1. fs[1].rec \in DOMAIN length
    BY DEF WholeRecord
  <2>2. length \in Seq(Length)
    BY DEF LogInv, FileInv, WriterTypeOK
  <2> QED BY <2>1, <2>2
<1>7. ASSUME NEW i \in 1 .. N
      PROVE  returned[i][1].rec < fs[1].rec
  <2>1. N \in 1 .. N /\ returned # <<>>
    BY <1>4, <1>7
  <2>2. StartsAt(last_record_offset_ + 1, returned[N][1].rec)
    BY <1>4, <2>1 DEF LogInv, OffsetsExact
  <2>3. PICK p \in DOMAIN file, q \in DOMAIN file :
          p = last_record_offset_ + 1 /\ q = offset + 1
    BY <2>2 DEF StartsAt
  <2>4. /\ p < q /\ IsStart(file[p]) /\ IsStart(file[q])
        /\ file[p].rec = returned[N][1].rec /\ file[q].rec = fs[1].rec
    <3>1. last_record_offset_ < offset
      BY <2>1
    <3> QED BY <1>2, <2>2, <2>3, <3>1 DEF StartsAt, IsStart
  <2>5. returned[N][1].rec < fs[1].rec
    BY <2>3, <2>4 DEF LogInv, FileInv, StartsInOrder
  <2>6. i = N \/ i < N
    BY <1>7
  <2>7. i < N => returned[i][1].rec < returned[N][1].rec
    BY <1>5, <1>7, <2>1 DEF LogInv, ReturnedRight
  <2>8. returned[i][1].rec \in Nat /\ returned[N][1].rec \in Nat
    <3>1. WholeRecord(returned[i]) /\ WholeRecord(returned[N])
      BY <1>5, <1>7, <2>1 DEF LogInv, ReturnedRight
    <3>2. length \in Seq(Length)
      BY DEF LogInv, FileInv, WriterTypeOK
    <3>3. \A r \in DOMAIN length : r \in Nat
      BY <3>2
    <3> QED BY <3>1, <3>3 DEF WholeRecord
  <2> QED BY <1>6, <2>5, <2>6, <2>7, <2>8
<1>8. N + 1 <= fs[1].rec
  <2>1. CASE N = 0
    BY <1>6, <2>1
  <2>2. CASE N # 0
    <3>1. N \in 1 .. N
      BY <2>2
    <3>2. N <= returned[N][1].rec /\ WholeRecord(returned[N])
      BY <1>5, <3>1 DEF LogInv, ReturnedRight
    <3>3. returned[N][1].rec < fs[1].rec
      BY <1>7, <3>1
    <3>4. returned[N][1].rec \in Nat
      <4>1. length \in Seq(Length)
        BY DEF LogInv, FileInv, WriterTypeOK
      <4>2. \A r \in DOMAIN length : r \in Nat
        BY <4>1
      <4> QED BY <3>2, <4>2 DEF WholeRecord
    <3> QED BY <1>6, <3>2, <3>3, <3>4
  <2> QED BY <2>1, <2>2
<1>9. ASSUME NEW i \in DOMAIN returned'
      PROVE  /\ returned'[i] # <<>> /\ WholeRecord(returned[i])'
             /\ i <= returned'[i][1].rec
  <2>1. CASE i = N + 1
    <3>1. returned'[i] = fs
      BY <1>5, <2>1
    <3>2. WholeRecord(returned[i])'
      BY <1>1, <3>1 DEF WholeRecord
    <3> QED BY <1>8, <2>1, <3>1, <3>2
  <2>2. CASE i # N + 1
    <3>1. i \in 1 .. N
      BY <1>5, <1>9, <2>2
    <3>2. returned'[i] = returned[i] /\ i \in DOMAIN returned
      BY <1>5, <3>1
    <3>3. WholeRecord(returned[i])'
      BY SMTT(30), <1>1, <3>2 DEF WholeRecord, LogInv, ReturnedRight
    <3> QED BY <3>2, <3>3 DEF LogInv, ReturnedRight
  <2> QED BY <2>1, <2>2
<1>10. ASSUME NEW i \in DOMAIN returned', NEW j \in DOMAIN returned', i < j
       PROVE  returned'[i][1].rec < returned'[j][1].rec
  <2>1. i \in 1 .. N
    BY <1>5, <1>10
  <2>2. CASE j = N + 1
    BY <1>5, <1>7, <2>1, <2>2
  <2>3. CASE j # N + 1
    <3>1. j \in 1 .. N
      BY <1>5, <1>10, <2>3
    <3> QED BY <1>5, <1>10, <2>1, <3>1 DEF LogInv, ReturnedRight
  <2> QED BY <2>2, <2>3
<1>11. ReturnedRight'
  BY <1>3, <1>5, <1>9, <1>10 DEF ReturnedRight
<1>12. OffsetsExact'
  BY <1>1, <1>3, <1>5 DEF OffsetsExact, StartsAt
<1> QED BY <1>11, <1>12

(* The reader gives up: ReadRecord() returns false.                        *)
LEMMA ReturnEofStep ==
  ASSUME LogInv, Frozen, ReturnEof, reported' \in BOOLEAN, read_error' \in BOOLEAN
  PROVE  LogInv'
<1>1. /\ pc' = "eof" /\ buffer_' = end_of_buffer_offset_ /\ eof_' = TRUE
      /\ resyncing_' = FALSE
      /\ UNCHANGED <<initial_offset_, end_of_buffer_offset_, last_record_offset_,
                     in_fragmented_record, prospective, returned>>
  BY DEF ReturnEof
<1>2. buffer_' \in Nat /\ buffer_ <= buffer_' /\ BufferSize' = 0
  BY <1>1, BufferTypes DEF LogInv, BufferSize
<1>3. ReaderTypeOK'
  <2>1. buffer_' \in 0 .. end_of_buffer_offset_'
    BY <1>1, <1>2
  <2> QED BY <1>1, <2>1 DEF LogInv, ReaderTypeOK
<1>4. BufferRight' /\ Collecting'
  BY <1>1, <1>2 DEF BufferRight, Collecting
<1> QED BY <1>1, <1>2, <1>3, <1>4, FrozenFile, NothingReturned DEF LogInv

(* A bad record: what was collected is dropped, and the rest of the block. *)
LEMMA DropBadRecordStep ==
  ASSUME LogInv, Frozen, pc = "read", NEW buf \in Nat, NEW report \in BOOLEAN,
         buffer_ <= buf, buf <= end_of_buffer_offset_, DropBadRecord(buf, report)
  PROVE  LogInv'
<1>1. /\ buffer_' = buf /\ in_fragmented_record' = FALSE /\ resyncing_' = FALSE
      /\ UNCHANGED <<end_of_buffer_offset_, eof_, pc, initial_offset_, last_record_offset_,
                     prospective, returned, read_error>>
  BY DEF DropBadRecord
<1>2. reported' \in BOOLEAN
  BY DEF DropBadRecord, LogInv, ReaderTypeOK
<1>3. ReaderTypeOK'
  <2>1. buffer_' \in 0 .. end_of_buffer_offset_'
    BY <1>1, BufferTypes DEF LogInv
  <2> QED BY <1>1, <1>2, <2>1 DEF LogInv, ReaderTypeOK
<1>4. BufferRight'
  <2>1. file' = file
    BY FrozenFile DEF LogInv
  <2> QED BY <1>1, <2>1, BufferTypes DEF LogInv, BufferRight, BufferSize, FileSize
<1>5. Collecting'
  BY <1>1 DEF Collecting
<1>6. buffer_' \in Nat /\ buffer_ <= buffer_'
  BY <1>1
<1> QED BY <1>1, <1>3, <1>4, <1>5, <1>6, FrozenFile, NothingReturned DEF LogInv

LEMMA BlockStartIsNatural ==
  ASSUME ReaderTypeOK
  PROVE  InitialBlockStart \in Nat
<1>1. initial_offset_ \in Nat /\ kBlockSize \in Nat \ {0}
  BY BufferTypes, HeaderAndBlock
<1>2. BlockOf(initial_offset_) \in Nat
  BY <1>1, Remainder DEF BlockOf
<1>3. PICK b \in Nat :
        b = BlockOf(initial_offset_)
              + IF InBlock(initial_offset_) > kBlockSize - (kHeaderSize - 1) THEN 1 ELSE 0
  BY <1>2
<1>4. InitialBlockStart = b * kBlockSize
  BY <1>3 DEF InitialBlockStart
<1> QED BY <1>1, <1>4

(* The reader skips to its first block only before it has returned records.*)
LEMMA SkipsOnlyFirst ==
  ASSUME LogInv, Skips
  PROVE  returned = <<>>
<1>1. last_record_offset_ \in Nat /\ initial_offset_ \in Nat
  BY BufferTypes DEF LogInv, ReaderTypeOK
<1> QED BY <1>1 DEF LogInv, OffsetsExact, Skips

LEMMA ReadRecordStep ==
  ASSUME LogInv, Frozen, ReadRecord
  PROVE  LogInv'
<1>1. /\ pc' = "read" /\ in_fragmented_record' = FALSE /\ prospective' = 0
      /\ end_of_buffer_offset_' = IF Skips THEN InitialBlockStart ELSE end_of_buffer_offset_
      /\ buffer_' = IF Skips THEN InitialBlockStart ELSE buffer_
      /\ UNCHANGED <<initial_offset_, eof_, resyncing_, last_record_offset_, returned,
                     reported, read_error>>
  BY DEF ReadRecord
<1>2. InitialBlockStart \in Nat /\ buffer_ \in Nat /\ end_of_buffer_offset_ \in Nat
      /\ buffer_ <= end_of_buffer_offset_
  BY BlockStartIsNatural, BufferTypes DEF LogInv
<1>3. ReaderTypeOK'
  <2>1. end_of_buffer_offset_' \in Nat /\ buffer_' \in 0 .. end_of_buffer_offset_'
    BY <1>1, <1>2
  <2> QED BY <1>1, <2>1 DEF LogInv, ReaderTypeOK
<1>4. BufferRight'
  <2>1. file' = file
    BY FrozenFile DEF LogInv
  <2> QED BY <1>1, <1>2, <2>1 DEF LogInv, BufferRight, BufferSize, FileSize
<1>5. Collecting'
  BY <1>1 DEF Collecting
<1>6. CASE ~Skips
  <2>1. buffer_' \in Nat /\ buffer_ <= buffer_'
    BY <1>1, <1>2, <1>6
  <2> QED BY <1>1, <1>3, <1>4, <1>5, <2>1, FrozenFile, NothingReturned DEF LogInv
<1>7. CASE Skips
  <2>1. returned' = <<>>
    BY <1>1, <1>7, SkipsOnlyFirst
  <2>2. ReturnedRight' /\ OffsetsExact'
    BY <2>1 DEF ReturnedRight, OffsetsExact
  <2> QED BY <1>3, <1>4, <1>5, <2>2, FrozenFile DEF LogInv
<1> QED BY <1>6, <1>7

LEMMA SkipFailsStep ==
  ASSUME LogInv, Frozen, SkipFails
  PROVE  LogInv'
<1>1. /\ pc' = "eof" /\ Skips
      /\ end_of_buffer_offset_' = InitialBlockStart /\ buffer_' = InitialBlockStart
      /\ read_error' = TRUE
      /\ UNCHANGED <<initial_offset_, eof_, resyncing_, last_record_offset_,
                     in_fragmented_record, prospective, returned>>
  BY DEF SkipFails
<1>2. reported' \in BOOLEAN
  BY DEF SkipFails, LogInv, ReaderTypeOK, Reports
<1>3. InitialBlockStart \in Nat
  BY BlockStartIsNatural DEF LogInv
<1>4. ReaderTypeOK'
  <2>1. end_of_buffer_offset_' \in Nat /\ buffer_' \in 0 .. end_of_buffer_offset_'
    BY <1>1, <1>3
  <2> QED BY <1>1, <1>2, <2>1 DEF LogInv, ReaderTypeOK
<1>5. BufferRight' /\ Collecting'
  BY <1>1, <1>3 DEF BufferRight, BufferSize, Collecting
<1>6. returned' = <<>>
  BY <1>1, SkipsOnlyFirst
<1>7. ReturnedRight' /\ OffsetsExact'
  BY <1>6 DEF ReturnedRight, OffsetsExact
<1> QED BY <1>4, <1>5, <1>7, FrozenFile DEF LogInv

(* The refill drops less than a header, and the next one comes only after  *)
(* a full block: kBlockSize > kHeaderSize.                                 *)
LEMMA RefillBufferStep ==
  ASSUME LogInv, Frozen, RefillBuffer
  PROVE  LogInv'
<1> DEFINE got == IF FileSize > end_of_buffer_offset_
                    THEN Smaller(kBlockSize, FileSize - end_of_buffer_offset_) ELSE 0
<1>1. /\ pc = "read" /\ BufferSize < H /\ ~eof_
      /\ buffer_' = end_of_buffer_offset_
      /\ end_of_buffer_offset_' = end_of_buffer_offset_ + got
      /\ eof_' = (got < kBlockSize)
      /\ UNCHANGED <<pc, initial_offset_, resyncing_, last_record_offset_,
                     in_fragmented_record, scratch, prospective, returned, reported, read_error>>
  BY DEF RefillBuffer, H
<1>2. /\ buffer_ \in Nat /\ end_of_buffer_offset_ \in Nat /\ buffer_ <= end_of_buffer_offset_
      /\ BufferSize = end_of_buffer_offset_ - buffer_
  BY BufferTypes DEF LogInv
<1>3. file' = file /\ length' = length /\ Len(file) \in Nat
  BY FrozenFile, FileTypes DEF LogInv
<1>4. got \in Nat /\ (got > 0 => end_of_buffer_offset_ + got <= Len(file))
  BY <1>2, <1>3, HeaderAndBlock DEF FileSize, Smaller
<1> HIDE DEF got
<1>5. ReaderTypeOK'
  <2>1. end_of_buffer_offset_' \in Nat /\ buffer_' \in 0 .. end_of_buffer_offset_'
    BY <1>1, <1>2, <1>4
  <2>2. eof_' \in BOOLEAN
    BY <1>1
  <2> QED BY <1>1, <2>1, <2>2 DEF LogInv, ReaderTypeOK
<1>6. BufferRight'
  BY <1>1, <1>2, <1>3, <1>4 DEF LogInv, BufferRight, BufferSize, FileSize
<1>7. buffer_' \in Nat /\ buffer_ <= buffer_' /\ buffer_' - buffer_ < H
  BY <1>1, <1>2
<1>8. Collecting'
  <2> SUFFICES ASSUME in_fragmented_record PROVE Collecting'
    BY <1>1 DEF Collecting
  <2>1. /\ ~resyncing_ /\ Chained(scratch) /\ StartsAt(prospective + 1, scratch[1].rec)
        /\ initial_offset_ <= prospective /\ prospective < buffer_
        /\ returned # <<>> => last_record_offset_ < prospective
    BY <1>1 DEF LogInv, Collecting
  <2>2. PICK e \in DOMAIN file :
         /\ EndsFragment(scratch[Len(scratch)], e)
         /\ e <= buffer_ /\ buffer_ < e + H
         /\ buffer_ = e \/ BufferSize >= H \/ eof_
    BY <1>1 DEF LogInv, Collecting
  <2>3. buffer_ = e
    BY <1>1, <1>2, <2>2, HeaderAndBlock
  <2>4. e <= buffer_' /\ buffer_' < e + H
    BY <1>7, <1>2, <2>3, HeaderAndBlock
  <2>5. BufferSize' >= H \/ eof_'
    <3>1. BufferSize' = got
      BY <1>1, <1>2, <1>4 DEF BufferSize
    <3>2. CASE got < kBlockSize
      BY <1>1, <3>2
    <3>3. CASE ~(got < kBlockSize)
      BY <1>4, <3>1, <3>3, HeaderAndBlock
    <3> QED BY <3>2, <3>3
  <2>6. EndsFragment(scratch[Len(scratch)], e)'
    BY <1>1, <1>3, <2>2 DEF EndsFragment, H
  <2>7. prospective' < buffer_'
    BY <1>1, <1>2, <1>7, <2>1 DEF LogInv, ReaderTypeOK
  <2>8. ~resyncing_' /\ Chained(scratch)' /\ StartsAt(prospective + 1, scratch[1].rec)'
        /\ initial_offset_' <= prospective'
        /\ (returned' # <<>> => last_record_offset_' < prospective')
    BY <1>1, <1>3, <2>1 DEF Chained, StartsAt
  <2> QED BY <1>3, <2>2, <2>4, <2>5, <2>6, <2>7, <2>8 DEF Collecting, H
<1> QED BY <1>1, <1>5, <1>6, <1>7, <1>8, FrozenFile, NothingReturned DEF LogInv

LEMMA ReadPhysicalRecordStep ==
  ASSUME LogInv, Frozen, ReadPhysicalRecord
  PROVE  LogInv'
<1>0. /\ FileInv /\ ReaderTypeOK /\ BufferRight /\ reported \in BOOLEAN /\ read_error \in BOOLEAN
      /\ buffer_ \in Nat /\ end_of_buffer_offset_ \in Nat /\ buffer_ <= end_of_buffer_offset_
  BY BufferTypes DEF LogInv, ReaderTypeOK
<1>1. \A n, b : Reports(n, b) \in BOOLEAN
  BY DEF Reports
<1>2. CASE RefillBuffer
  BY <1>2, RefillBufferStep
<1>3. CASE ReadFails
  BY <1>0, <1>1, <1>3, ReturnEofStep DEF ReadFails
<1>4. CASE TruncatedHeader
  BY <1>0, <1>4, ReturnEofStep DEF TruncatedHeader
<1>5. CASE UnreadableHeader
  <2>1. CASE ReturnEof /\ UNCHANGED <<reported, read_error>>
    BY <1>0, <2>1, ReturnEofStep
  <2>2. ASSUME NEW report \in BOOLEAN, DropBadRecord(end_of_buffer_offset_, report)
        PROVE  LogInv'
    BY <1>0, <1>5, <2>2, DropBadRecordStep DEF UnreadableHeader, AtHeader
  <2> QED BY <1>1, <1>5, <2>1, <2>2 DEF UnreadableHeader
<1>6. CASE BadRecordLength
  <2>1. CASE eof_
    BY <1>0, <1>6, <2>1, ReturnEofStep DEF BadRecordLength
  <2>2. CASE ~eof_
    BY <1>0, <1>1, <1>6, <2>2, DropBadRecordStep DEF BadRecordLength, AtHeader
  <2> QED BY <2>1, <2>2
<1>7. CASE ZeroRecord
  <2>1. FALSE \in BOOLEAN
    OBVIOUS
  <2>2. pc = "read" /\ DropBadRecord(end_of_buffer_offset_, FALSE)
    BY <1>7 DEF ZeroRecord, AtHeader
  <2>3. end_of_buffer_offset_ <= end_of_buffer_offset_
    BY <1>0
  <2> QED BY <1>0, <2>1, <2>2, <2>3, DropBadRecordStep
<1>8. CASE ChecksumMismatch
  BY <1>0, <1>1, <1>8, DropBadRecordStep DEF ChecksumMismatch, AtHeader
<1>9. CASE SkipRecord
  <2>1. AtPhysicalRecord /\ pc = "read" /\ DropBadRecord(NextInBuffer, FALSE)
    BY <1>9 DEF SkipRecord, AtPhysicalRecord, AtHeader
  <2>2. /\ NextInBuffer \in Nat /\ buffer_ < NextInBuffer
        /\ NextInBuffer <= end_of_buffer_offset_
    BY <1>0, <2>1, PhysicalRecordIntact
  <2>3. buffer_ <= NextInBuffer
    BY <1>0, <2>2
  <2>4. FALSE \in BOOLEAN
    OBVIOUS
  <2> QED BY <2>1, <2>2, <2>3, <2>4, DropBadRecordStep
<1> QED BY <1>2, <1>3, <1>4, <1>5, <1>6, <1>7, <1>8, <1>9 DEF ReadPhysicalRecord

(* ConsumeRecord: the facts every action of ReadRecord() on a good         *)
(* physical record needs.                                                  *)
LEMMA Consumed ==
  ASSUME LogInv, Frozen, NEW t, Type(t), ConsumeRecord
  PROVE  /\ pc = "read" /\ initial_offset_ <= buffer_ /\ Header[1].type = t
         /\ buffer_' = NextInBuffer /\ buffer_' \in Nat /\ buffer_ \in Nat /\ buffer_ < buffer_'
         /\ buffer_' <= end_of_buffer_offset_ /\ end_of_buffer_offset_ \in Nat
         /\ end_of_buffer_offset_' = end_of_buffer_offset_ /\ initial_offset_' = initial_offset_
         /\ eof_' = eof_ /\ read_error' = read_error
         /\ buffer_ + 1 \in DOMAIN file /\ file[buffer_ + 1].at = 1
         /\ file[buffer_ + 1].type = t /\ FragmentByte(file[buffer_ + 1])
         /\ Payload \in Fragments
         /\ Payload.rec = file[buffer_ + 1].rec /\ Payload.from = file[buffer_ + 1].from
         /\ Payload.len = file[buffer_ + 1].len
         /\ EndsFragment(Payload, buffer_') /\ buffer_' \in DOMAIN file
         /\ (pc' # "off" => BufferRight')
<1>1. AtPhysicalRecord /\ pc = "read" /\ buffer_ >= initial_offset_ /\ Header[1].type = t
  BY DEF Type, AtPhysicalRecord, AtHeader
<1>2. FileInv /\ ReaderTypeOK /\ BufferRight /\ buffer_ \in Nat /\ end_of_buffer_offset_ \in Nat
      /\ initial_offset_ \in Nat
  BY BufferTypes DEF LogInv
<1>3. /\ buffer_' = NextInBuffer /\ end_of_buffer_offset_' = end_of_buffer_offset_
      /\ initial_offset_' = initial_offset_ /\ eof_' = eof_ /\ read_error' = read_error
  BY DEF ConsumeRecord
<1>4. /\ buffer_ + 1 \in DOMAIN file
      /\ file[buffer_ + 1].at = 1 /\ FragmentByte(file[buffer_ + 1])
      /\ Header[1] = file[buffer_ + 1]
      /\ NextInBuffer \in Nat /\ buffer_ < NextInBuffer
      /\ NextInBuffer <= end_of_buffer_offset_ /\ end_of_buffer_offset_ <= Len(file)
      /\ Payload \in Fragments
      /\ Payload.rec = file[buffer_ + 1].rec /\ Payload.from = file[buffer_ + 1].from
      /\ Payload.len = file[buffer_ + 1].len
      /\ EndsFragment(Payload, NextInBuffer)
  BY <1>1, <1>2, PhysicalRecordIntact
<1>5. NextInBuffer \in DOMAIN file
  BY <1>4 DEF EndsFragment
<1>6. pc' # "off" => BufferRight'
  <2>1. file' = file
    BY FrozenFile DEF LogInv
  <2> QED BY <1>3, <1>4, <2>1 DEF BufferRight, FileSize
<1>7. initial_offset_ <= buffer_
  BY <1>1, <1>2
<1> QED BY <1>1, <1>2, <1>3, <1>4, <1>5, <1>6, <1>7

(* What it needs besides when no record is returned.                       *)
LEMMA ConsumedAndReading ==
  ASSUME LogInv, Frozen, NEW t, Type(t), ConsumeRecord, pc' = pc,
         UNCHANGED <<last_record_offset_, returned>>, prospective' \in Nat,
         resyncing_' \in BOOLEAN, in_fragmented_record' \in BOOLEAN, reported' \in BOOLEAN,
         Collecting'
  PROVE  LogInv'
<1>1. /\ pc = "read"
      /\ buffer_' \in Nat /\ buffer_ \in Nat /\ buffer_ < buffer_'
      /\ buffer_' <= end_of_buffer_offset_ /\ end_of_buffer_offset_ \in Nat
      /\ end_of_buffer_offset_' = end_of_buffer_offset_ /\ initial_offset_' = initial_offset_
      /\ eof_' = eof_ /\ read_error' = read_error
      /\ (pc' # "off" => BufferRight')
  BY Consumed
<1>2. ReaderTypeOK'
  <2>1. buffer_' \in 0 .. end_of_buffer_offset_'
    BY <1>1
  <2> QED BY <1>1, <2>1 DEF LogInv, ReaderTypeOK
<1>3. buffer_ <= buffer_'
  BY <1>1
<1>4. BufferRight'
  BY <1>1
<1> QED BY <1>1, <1>2, <1>3, <1>4, FrozenFile, NothingReturned DEF LogInv

LEMMA ResyncSkipStep ==
  ASSUME LogInv, Frozen, ResyncSkip
  PROVE  LogInv'
<1>1. /\ resyncing_ /\ ConsumeRecord /\ resyncing_' = Type(kMiddleType)
      /\ UNCHANGED <<pc, last_record_offset_, in_fragmented_record, prospective, returned, reported>>
  BY DEF ResyncSkip
<1>2. PICK t : Type(t)
  BY DEF ResyncSkip
<1>3. pc = "read"
  BY <1>1, <1>2, Consumed
<1>4. ~in_fragmented_record
  BY <1>1, <1>3 DEF LogInv, Collecting
<1>5. Collecting'
  BY <1>1, <1>4 DEF Collecting
<1>6. prospective' \in Nat /\ in_fragmented_record' \in BOOLEAN /\ reported' \in BOOLEAN
  BY <1>1 DEF LogInv, ReaderTypeOK
<1>7. resyncing_' \in BOOLEAN
  BY <1>1 DEF Type
<1> QED BY <1>1, <1>2, <1>5, <1>6, <1>7, ConsumedAndReading

LEMMA MissingStartStep ==
  ASSUME LogInv, Frozen, MissingStart
  PROVE  LogInv'
<1>1. /\ ~in_fragmented_record /\ ConsumeRecord
      /\ UNCHANGED <<pc, resyncing_, last_record_offset_, in_fragmented_record, prospective, returned>>
  BY DEF MissingStart
<1>2. PICK t : Type(t)
  BY DEF MissingStart
<1>3. Collecting'
  BY <1>1 DEF Collecting
<1>4. prospective' \in Nat /\ in_fragmented_record' \in BOOLEAN /\ resyncing_' \in BOOLEAN
  BY <1>1 DEF LogInv, ReaderTypeOK
<1>5. reported' \in BOOLEAN
  BY DEF MissingStart, LogInv, ReaderTypeOK, Reports
<1> QED BY <1>1, <1>2, <1>3, <1>4, <1>5, ConsumedAndReading

LEMMA UnfinishedIsBoolean ==
  ASSUME ReportUnfinished
  PROVE  reported' \in BOOLEAN
BY DEF ReportUnfinished, Reports

LEMMA StartFound ==
  ASSUME LogInv, Frozen, NEW t \in {kFullType, kFirstType}, Type(t), ConsumeRecord
  PROVE  /\ StartsAt(buffer_ + 1, Payload.rec) /\ Payload.from = 0
         /\ returned # <<>> => last_record_offset_ < buffer_
<1>1. /\ buffer_ + 1 \in DOMAIN file /\ file[buffer_ + 1].at = 1
      /\ file[buffer_ + 1].type = t /\ FragmentByte(file[buffer_ + 1])
      /\ Payload.rec = file[buffer_ + 1].rec /\ Payload.from = file[buffer_ + 1].from
  BY Consumed
<1> QED BY <1>1 DEF StartsAt, FragmentByte, LogInv, ReturnedRight

LEMMA FullRecordStep ==
  ASSUME LogInv, Frozen, FullRecord
  PROVE  LogInv'
<1>1. /\ Type(kFullType) /\ ConsumeRecord /\ ReportUnfinished /\ resyncing_' = FALSE
      /\ prospective' = buffer_ /\ Return(<<Payload>>, buffer_)
      /\ in_fragmented_record' = (in_fragmented_record /\ ScratchSize > 0)
  BY DEF FullRecord
<1>2. /\ buffer_' \in Nat /\ buffer_ \in Nat /\ buffer_ < buffer_' /\ initial_offset_ <= buffer_
      /\ buffer_' <= end_of_buffer_offset_ /\ end_of_buffer_offset_ \in Nat
      /\ end_of_buffer_offset_' = end_of_buffer_offset_ /\ initial_offset_' = initial_offset_
      /\ eof_' = eof_ /\ read_error' = read_error
      /\ (pc' # "off" => BufferRight')
      /\ Payload \in Fragments
      /\ file[buffer_ + 1].type = kFullType /\ FragmentByte(file[buffer_ + 1])
      /\ Payload.rec = file[buffer_ + 1].rec /\ Payload.from = file[buffer_ + 1].from
      /\ Payload.len = file[buffer_ + 1].len
  BY <1>1, Consumed
<1>3. pc' = "call" /\ last_record_offset_' = buffer_
  BY <1>1 DEF Return
<1>4. /\ StartsAt(buffer_ + 1, Payload.rec) /\ Payload.from = 0
      /\ returned # <<>> => last_record_offset_ < buffer_
  BY <1>1, StartFound
<1>5. PICK fs : fs = <<Payload>>
  OBVIOUS
<1>6. fs \in Seq(Fragments) /\ fs # <<>> /\ Len(fs) = 1 /\ fs[1] = Payload
  BY <1>2, <1>5
<1>7. WholeRecord(fs)
  <2>1. Payload.rec \in DOMAIN length /\ Payload.from + Payload.len = length[Payload.rec]
    BY <1>2 DEF FragmentByte
  <2>2. \A i \in 1 .. Len(fs) - 1 : FALSE
    BY <1>6
  <2> QED BY <1>4, <1>6, <2>1, <2>2 DEF WholeRecord
<1>8. ReturnedRight' /\ OffsetsExact'
  BY <1>1, <1>2, <1>4, <1>5, <1>6, <1>7, RecordReturned
<1>9. ReaderTypeOK'
  <2>1. buffer_' \in 0 .. end_of_buffer_offset_'
    BY <1>2
  <2>2. reported' \in BOOLEAN
    BY <1>1, UnfinishedIsBoolean
  <2>3. in_fragmented_record' \in BOOLEAN
    BY <1>1
  <2>4. resyncing_' \in BOOLEAN
    BY <1>1
  <2>5. pc' \in {"off", "call", "read", "eof"}
    BY <1>3
  <2> QED BY <1>1, <1>2, <1>3, <2>1, <2>2, <2>3, <2>4, <2>5 DEF LogInv, ReaderTypeOK
<1>10. BufferRight' /\ Collecting'
  BY <1>2, <1>3 DEF Collecting
<1> QED BY <1>8, <1>9, <1>10, FrozenFile DEF LogInv

LEMMA FirstRecordStep ==
  ASSUME LogInv, Frozen, FirstRecord
  PROVE  LogInv'
<1>1. /\ Type(kFirstType) /\ ConsumeRecord /\ ReportUnfinished /\ resyncing_' = FALSE
      /\ in_fragmented_record' = TRUE /\ prospective' = buffer_ /\ scratch' = <<Payload>>
      /\ UNCHANGED <<pc, last_record_offset_, returned>>
  BY DEF FirstRecord
<1>2. /\ buffer_' \in Nat /\ buffer_ \in Nat /\ buffer_ < buffer_' /\ initial_offset_ <= buffer_
      /\ initial_offset_' = initial_offset_
      /\ Payload \in Fragments
      /\ EndsFragment(Payload, buffer_') /\ buffer_' \in DOMAIN file
  BY <1>1, Consumed
<1>3. /\ StartsAt(buffer_ + 1, Payload.rec) /\ Payload.from = 0
      /\ returned # <<>> => last_record_offset_ < buffer_
  BY <1>1, StartFound
<1>4. file' = file
  BY FrozenFile DEF LogInv
<1>5. PICK f : f = Payload
  OBVIOUS
<1>6. scratch' = <<f>> /\ f \in Fragments /\ f.from = 0
  BY <1>1, <1>2, <1>3, <1>5
<1>7. scratch' \in Seq(Fragments) /\ scratch' # <<>> /\ Len(scratch') = 1 /\ scratch'[1] = f
  BY <1>6
<1>8. Chained(scratch)'
  <2>1. \A i \in 1 .. Len(scratch') - 1 : FALSE
    BY <1>7
  <2> QED BY <1>6, <1>7, <2>1 DEF Chained
<1>9. Collecting'
  <2>1. StartsAt(prospective + 1, scratch[1].rec)'
    BY <1>1, <1>3, <1>4, <1>5, <1>7 DEF StartsAt
  <2>2. EndsFragment(scratch[Len(scratch)], buffer_)'
    BY <1>2, <1>4, <1>5, <1>7 DEF EndsFragment, H
  <2>3. buffer_' < buffer_' + H /\ buffer_' <= buffer_'
    <3>1. PICK x \in Nat : x = buffer_'
      BY <1>2
    <3>2. H \in Nat /\ H >= 1
      BY HeaderAndBlock
    <3>3. x < x + H /\ x <= x
      BY <3>2
    <3> QED BY <3>1, <3>3
  <2>4. initial_offset_' <= prospective' /\ prospective' < buffer_'
        /\ (returned' # <<>> => last_record_offset_' < prospective')
    BY <1>1, <1>2, <1>3
  <2> QED BY <1>1, <1>2, <1>4, <1>8, <2>1, <2>2, <2>3, <2>4 DEF Collecting, H
<1>10. reported' \in BOOLEAN
  BY <1>1, UnfinishedIsBoolean
<1>11. prospective' \in Nat /\ resyncing_' \in BOOLEAN /\ in_fragmented_record' \in BOOLEAN
  BY <1>1, <1>2
<1> QED BY <1>1, <1>9, <1>10, <1>11, ConsumedAndReading

(* A continuation found while collecting extends what was collected.       *)
LEMMA ContinuationFound ==
  ASSUME LogInv, Frozen, NEW t \in {kMiddleType, kLastType}, Type(t), ConsumeRecord,
         in_fragmented_record, NEW fs, fs = Append(scratch, Payload)
  PROVE  /\ Chained(fs) /\ fs[1] = scratch[1] /\ fs[Len(fs)] = Payload
         /\ Payload.rec = fs[1].rec
<1>1. /\ pc = "read" /\ buffer_ \in Nat
      /\ buffer_ + 1 \in DOMAIN file /\ file[buffer_ + 1].at = 1 /\ file[buffer_ + 1].type = t
      /\ Payload \in Fragments
      /\ Payload.rec = file[buffer_ + 1].rec /\ Payload.from = file[buffer_ + 1].from
  BY Consumed
<1>2. PICK s, N : s = scratch /\ N = Len(scratch)
  OBVIOUS
<1>3. Chained(s)
  BY <1>1, <1>2 DEF LogInv, Collecting
<1>4. s \in Seq(Fragments) /\ s # <<>> /\ N \in Nat /\ N >= 1 /\ N = Len(s)
  BY <1>2, <1>3 DEF Chained
<1>5. PICK e \in DOMAIN file : EndsFragment(s[N], e) /\ e <= buffer_ /\ buffer_ < e + H
  BY <1>1, <1>2 DEF LogInv, Collecting
<1>6. IsContinuation(file[buffer_ + 1])
  BY <1>1 DEF IsContinuation
<1>7. s[N] \in Fragments
  BY <1>4
<1>8. Payload.rec = s[N].rec /\ Payload.from = s[N].from + s[N].len
  BY <1>1, <1>5, <1>6, <1>7, ContinuationFits DEF LogInv
<1>9. PICK f \in Fragments : f = Payload
  BY <1>1
<1>10. /\ fs \in Seq(Fragments) /\ fs # <<>> /\ Len(fs) = N + 1
       /\ fs[N + 1] = f /\ \A i \in 1 .. N : fs[i] = s[i]
  <2>1. fs = Append(s, f)
    BY <1>2, <1>9
  <2> QED BY <1>4, <1>9, <2>1
<1>11. s[N].rec = s[1].rec
  <2>1. CASE N = 1
    BY <2>1
  <2>2. CASE N # 1
    <3>1. N - 1 \in 1 .. Len(s) - 1 /\ N - 1 + 1 = N
      BY <1>4, <2>2
    <3>2. s[N - 1 + 1].rec = s[1].rec
      BY <1>3, <3>1 DEF Chained
    <3> QED BY <3>1, <3>2
  <2> QED BY <2>1, <2>2
<1>12. fs[1] = s[1] /\ s[1].from = 0
  BY <1>3, <1>4, <1>10 DEF Chained
<1>13. ASSUME NEW i \in 1 .. Len(fs) - 1
       PROVE  fs[i + 1].rec = fs[1].rec /\ fs[i + 1].from = fs[i].from + fs[i].len
  <2>0. i \in 1 .. N
    BY <1>4, <1>10
  <2>1. CASE i = N
    BY <1>8, <1>9, <1>10, <1>11, <1>12, <2>0, <2>1
  <2>2. CASE i # N
    <3>1. i + 1 \in 1 .. N /\ i \in 1 .. Len(s) - 1
      BY <1>4, <2>0, <2>2
    <3>2. fs[i + 1] = s[i + 1] /\ fs[i] = s[i]
      BY <1>10, <2>0, <3>1
    <3> QED BY <1>3, <1>12, <3>1, <3>2 DEF Chained
  <2> QED BY <2>1, <2>2
<1>14. Chained(fs)
  BY <1>10, <1>12, <1>13 DEF Chained
<1> QED BY <1>2, <1>8, <1>9, <1>10, <1>11, <1>12, <1>14

LEMMA MiddleRecordStep ==
  ASSUME LogInv, Frozen, MiddleRecord
  PROVE  LogInv'
<1>1. /\ ~resyncing_ /\ in_fragmented_record /\ Type(kMiddleType) /\ ConsumeRecord
      /\ scratch' = Append(scratch, Payload)
      /\ UNCHANGED <<pc, resyncing_, last_record_offset_, in_fragmented_record, prospective,
                     returned, reported>>
  BY DEF MiddleRecord
<1>2. /\ pc = "read" /\ buffer_' \in Nat /\ buffer_ \in Nat /\ buffer_ < buffer_'
      /\ initial_offset_' = initial_offset_
      /\ EndsFragment(Payload, buffer_') /\ buffer_' \in DOMAIN file
  BY <1>1, Consumed
<1>3. PICK fs, f : fs = scratch' /\ f = Payload
  OBVIOUS
<1>4. Chained(fs) /\ fs[1] = scratch[1] /\ fs[Len(fs)] = f
  <2>1. fs = Append(scratch, Payload) /\ kMiddleType \in {kMiddleType, kLastType}
    BY <1>1, <1>3
  <2> QED BY <1>1, <1>3, <2>1, ContinuationFound
<1>5. file' = file
  BY FrozenFile DEF LogInv
<1>6. Collecting'
  <2>0. /\ StartsAt(prospective + 1, scratch[1].rec)
        /\ initial_offset_ <= prospective /\ prospective < buffer_
        /\ returned # <<>> => last_record_offset_ < prospective
    BY <1>1, <1>2 DEF LogInv, Collecting
  <2>1. StartsAt(prospective + 1, scratch[1].rec)'
    BY <1>1, <1>3, <1>4, <1>5, <2>0 DEF StartsAt
  <2>2. EndsFragment(scratch[Len(scratch)], buffer_)'
    BY <1>2, <1>3, <1>4, <1>5 DEF EndsFragment, H
  <2>3. buffer_' < buffer_' + H /\ buffer_' <= buffer_'
    <3>1. PICK x \in Nat : x = buffer_'
      BY <1>2
    <3>2. H \in Nat /\ H >= 1
      BY HeaderAndBlock
    <3>3. x < x + H /\ x <= x
      BY <3>2
    <3> QED BY <3>1, <3>3
  <2>4. initial_offset_' <= prospective' /\ prospective' < buffer_'
        /\ (returned' # <<>> => last_record_offset_' < prospective')
    BY <1>1, <1>2, <2>0 DEF LogInv, ReaderTypeOK
  <2>5. Chained(scratch)'
    BY <1>3, <1>4 DEF Chained
  <2> QED BY <1>1, <1>2, <1>5, <2>1, <2>2, <2>3, <2>4, <2>5 DEF Collecting, H
<1>7. prospective' \in Nat /\ resyncing_' \in BOOLEAN /\ in_fragmented_record' \in BOOLEAN
      /\ reported' \in BOOLEAN
  BY <1>1 DEF LogInv, ReaderTypeOK
<1> QED BY <1>1, <1>6, <1>7, ConsumedAndReading

LEMMA LastRecordStep ==
  ASSUME LogInv, Frozen, LastRecord
  PROVE  LogInv'
<1>1. /\ ~resyncing_ /\ in_fragmented_record /\ Type(kLastType) /\ ConsumeRecord
      /\ scratch' = Append(scratch, Payload) /\ Return(scratch', prospective)
      /\ UNCHANGED <<resyncing_, in_fragmented_record, prospective, reported>>
  BY DEF LastRecord
<1>2. /\ pc = "read" /\ buffer_' \in Nat /\ buffer_ \in Nat /\ buffer_ < buffer_'
      /\ buffer_' <= end_of_buffer_offset_ /\ end_of_buffer_offset_ \in Nat
      /\ end_of_buffer_offset_' = end_of_buffer_offset_ /\ initial_offset_' = initial_offset_
      /\ eof_' = eof_ /\ read_error' = read_error
      /\ (pc' # "off" => BufferRight')
      /\ Payload \in Fragments
      /\ file[buffer_ + 1].type = kLastType /\ FragmentByte(file[buffer_ + 1])
      /\ Payload.rec = file[buffer_ + 1].rec /\ Payload.from = file[buffer_ + 1].from
      /\ Payload.len = file[buffer_ + 1].len
  BY <1>1, Consumed
<1>3. PICK fs, f : fs = scratch' /\ f = Payload
  OBVIOUS
<1>4. Chained(fs) /\ fs[1] = scratch[1] /\ fs[Len(fs)] = f /\ f.rec = fs[1].rec
  <2>1. fs = Append(scratch, Payload) /\ kLastType \in {kMiddleType, kLastType}
    BY <1>1, <1>3
  <2> QED BY <1>1, <1>3, <2>1, ContinuationFound
<1>5. /\ StartsAt(prospective + 1, fs[1].rec)
      /\ initial_offset_ <= prospective /\ prospective < buffer_ /\ prospective \in Nat
      /\ returned # <<>> => last_record_offset_ < prospective
  BY <1>1, <1>2, <1>4 DEF LogInv, Collecting, ReaderTypeOK
<1>6. WholeRecord(fs)
  <2>1. f.rec \in DOMAIN length /\ f.from + f.len = length[f.rec]
    BY <1>2, <1>3 DEF FragmentByte
  <2> QED BY <1>4, <2>1 DEF WholeRecord, Chained
<1>7. ReturnedRight' /\ OffsetsExact'
  <2>1. fs \in Seq(Fragments) /\ fs # <<>>
    BY <1>4 DEF Chained
  <2>2. prospective < buffer_'
    BY <1>2, <1>5
  <2>3. Return(fs, prospective)
    BY <1>1, <1>3
  <2> QED BY <1>2, <1>5, <1>6, <2>1, <2>2, <2>3, RecordReturned
<1>8. pc' = "call" /\ last_record_offset_' = prospective
  BY <1>1 DEF Return
<1>9. ReaderTypeOK'
  <2>1. buffer_' \in 0 .. end_of_buffer_offset_'
    BY <1>2
  <2>2. pc' \in {"off", "call", "read", "eof"}
    BY <1>8
  <2> QED BY <1>1, <1>2, <1>5, <1>8, <2>1, <2>2 DEF LogInv, ReaderTypeOK
<1>10. BufferRight' /\ Collecting'
  BY <1>2, <1>8 DEF Collecting
<1> QED BY <1>7, <1>9, <1>10, FrozenFile DEF LogInv

-----------------------------------------------------------------------------
(* The invariant.                                                          *)

LEMMA ReadingStep ==
  ASSUME LogInv, Reading
  PROVE  LogInv'
<1>1. Frozen /\ ReaderNext
  BY DEF Reading, Frozen
<1> QED
  BY <1>1, ReadRecordStep, SkipFailsStep, ReadPhysicalRecordStep, ResyncSkipStep,
     FullRecordStep, FirstRecordStep, MissingStartStep, MiddleRecordStep, LastRecordStep
     DEF ReaderNext

LEMMA StartReadingStep ==
  ASSUME LogInv, StartReading
  PROVE  LogInv'
<1>1. PICK offset \in Offset : Open(offset)
  BY DEF StartReading
<1>2. Frozen
  BY DEF StartReading, Frozen
<1>3. /\ pc = "off" /\ pc' = "call" /\ initial_offset_' = offset /\ resyncing_' = (offset > 0)
      /\ UNCHANGED <<buffer_, end_of_buffer_offset_, eof_, last_record_offset_,
                     in_fragmented_record, scratch, prospective, returned, reported, read_error>>
  BY <1>1 DEF Open
<1>4. file' = file
  BY <1>2, FrozenFile DEF LogInv
<1>5. returned' = <<>>
  BY <1>3 DEF LogInv, BufferRight
<1>6. ReturnedRight' /\ OffsetsExact'
  BY <1>5 DEF ReturnedRight, OffsetsExact
<1>7. BufferRight' /\ Collecting'
  BY <1>3, <1>4 DEF LogInv, BufferRight, BufferSize, FileSize, Collecting
<1>8. ReaderTypeOK'
  <2>1. resyncing_' \in BOOLEAN
    BY <1>3
  <2>2. pc' \in {"off", "call", "read", "eof"}
    BY <1>3
  <2> QED BY <1>3, <2>1, <2>2 DEF LogInv, ReaderTypeOK
<1> QED BY <1>2, <1>6, <1>7, <1>8, FrozenFile DEF LogInv

LEMMA WritingStep ==
  ASSUME LogInv, Writing
  PROVE  LogInv'
<1>1. pc = "off" /\ WriterNext /\ UNCHANGED readerVars
  BY DEF Writing
<1>2. /\ returned = <<>> /\ buffer_ = end_of_buffer_offset_ /\ buffer_ \in Nat
  BY <1>1, BufferTypes DEF LogInv, BufferRight
<1>3. ReaderTypeOK'
  BY <1>1 DEF LogInv, ReaderTypeOK, readerVars
<1>4. BufferRight'
  BY <1>1, <1>2 DEF BufferRight, BufferSize, readerVars
<1>5. Collecting' /\ ReturnedRight' /\ OffsetsExact'
  BY <1>1, <1>2 DEF Collecting, ReturnedRight, OffsetsExact, readerVars
<1>6. FileInv'
  BY <1>1, WriterStep DEF LogInv
<1> QED BY <1>3, <1>4, <1>5, <1>6 DEF LogInv

LEMMA InitialLog ==
  ASSUME Init
  PROVE  LogInv
<1>1. /\ pc = "off" /\ initial_offset_ = 0 /\ buffer_ = 0 /\ end_of_buffer_offset_ = 0
      /\ eof_ = FALSE /\ resyncing_ = FALSE /\ last_record_offset_ = 0
      /\ in_fragmented_record = FALSE /\ prospective = 0
      /\ returned = <<>> /\ reported = FALSE /\ read_error = FALSE
  BY DEF Init, ReaderInit
<1>2. ReaderTypeOK
  <2>1. initial_offset_ \in Offset /\ pc \in {"off", "call", "read", "eof"}
    BY <1>1, LogReaderAssumption
  <2>2. /\ end_of_buffer_offset_ \in Nat /\ buffer_ \in 0 .. end_of_buffer_offset_
        /\ last_record_offset_ \in Nat /\ prospective \in Nat
    BY <1>1
  <2>3. /\ eof_ \in BOOLEAN /\ resyncing_ \in BOOLEAN /\ in_fragmented_record \in BOOLEAN
        /\ reported \in BOOLEAN /\ read_error \in BOOLEAN
    BY <1>1, Zenon
  <2> QED BY <2>1, <2>2, <2>3 DEF ReaderTypeOK
<1>3. BufferRight /\ Collecting /\ OffsetsExact
  BY <1>1 DEF BufferRight, BufferSize, Collecting, OffsetsExact
<1>4. ReturnedRight
  BY <1>1 DEF ReturnedRight
<1> QED BY <1>2, <1>3, <1>4, InitialFile DEF LogInv

LEMMA StutterStep ==
  ASSUME LogInv, UNCHANGED vars
  PROVE  LogInv'
<1>1. Frozen /\ UNCHANGED readerVars
  BY DEF vars, Frozen
<1>2. FileInv' /\ file' = file /\ length' = length
  BY <1>1, FrozenFile DEF LogInv
<1>3. ReaderTypeOK'
  BY <1>1 DEF LogInv, ReaderTypeOK, readerVars
<1>4. BufferRight'
  BY <1>1, <1>2 DEF LogInv, BufferRight, BufferSize, FileSize, readerVars
<1>5. Collecting'
  BY <1>1, <1>2 DEF LogInv, Collecting, Chained, StartsAt, EndsFragment, BufferSize, H, readerVars
<1>6. buffer_' \in Nat /\ buffer_ <= buffer_'
  BY <1>1, BufferTypes DEF LogInv, readerVars
<1>7. ReturnedRight' /\ OffsetsExact'
  BY <1>1, <1>6, NothingReturned DEF readerVars
<1> QED BY <1>2, <1>3, <1>4, <1>5, <1>7 DEF LogInv

LEMMA LogStep ==
  ASSUME LogInv, [Next]_vars
  PROVE  LogInv'
BY WritingStep, StartReadingStep, ReadingStep, StutterStep DEF Next, Terminated

LEMMA InvariantMeansNothingInvented ==
  LogInv => NothingInvented
<1> SUFFICES ASSUME LogInv PROVE NothingInvented
  OBVIOUS
<1>1. Len(returned) <= Len(length)
  <2>0. length \in Seq(Length) /\ returned \in Seq(Seq(Fragments))
    BY DEF LogInv, FileInv, WriterTypeOK, ReturnedRight
  <2>1. PICK N \in Nat, M \in Nat : N = Len(returned) /\ M = Len(length)
    BY <2>0
  <2>2. CASE N = 0
    BY <2>1, <2>2
  <2>3. CASE N # 0
    <3>1. N \in DOMAIN returned
      BY <2>0, <2>1, <2>3
    <3>2. N <= returned[N][1].rec /\ returned[N][1].rec \in DOMAIN length
      BY <3>1 DEF LogInv, ReturnedRight, WholeRecord
    <3>3. DOMAIN length = 1 .. M
      BY <2>0, <2>1
    <3> QED BY <2>1, <3>2, <3>3
  <2> QED BY <2>2, <2>3
<1>2. TypeOK
  BY <1>1 DEF LogInv, FileInv, ReaderTypeOK, TypeOK
<1> QED BY <1>2 DEF LogInv, ReturnedRight, NothingInvented

(* The reader of a log returns only records that were added, each whole    *)
(* and at most once, in the order of their addition, whatever the writes,  *)
(* the crashes and the disk did to the file (ReadRecord() and              *)
(* ReadPhysicalRecord() of log_reader.cpp, AddRecord() of log_writer.cpp). *)
THEOREM OnlyWholeRecordsReturned == Spec => []NothingInvented
<1>1. Init => LogInv
  BY InitialLog
<1>2. LogInv /\ [Next]_vars => LogInv'
  BY LogStep
<1> QED BY <1>1, <1>2, InvariantMeansNothingInvented, PTL DEF Spec

(* LastRecordOffset() is where the record last returned starts, and that   *)
(* is not before initial_offset_ (log_reader.h).                           *)
THEOREM LastRecordOffsetExact == Spec => []OffsetsExact
<1>1. Init => LogInv
  BY InitialLog
<1>2. LogInv /\ [Next]_vars => LogInv'
  BY LogStep
<1>3. LogInv => OffsetsExact
  BY DEF LogInv
<1> QED BY <1>1, <1>2, <1>3, PTL DEF Spec

-----------------------------------------------------------------------------
(* A log without faults, or with a torn tail: what its layout is and why   *)
(* the reader has nothing to report.                                       *)

IsLast(c) == c.at >= 1 /\ LastByteOf(c)
IsOpen(c) == c.type \in {kFirstType, kMiddleType}

(* A fragment's bytes are all there, as far as the file reaches.           *)
RunsWhole ==
  \A p \in DOMAIN file : file[p].at >= 1 =>
    /\ file[p].at <= p
    /\ \A i \in 1 .. H + file[p].len : p - file[p].at + i <= Len(file) =>
         file[p - file[p].at + i]
           = Byte(file[p].type, file[p].rec, file[p].from, file[p].len, i)

(* It stays inside its block.                                              *)
FitsBlock ==
  \A p \in DOMAIN file : file[p].at = 1 =>
    InBlock(p - 1) + H + file[p].len <= kBlockSize

(* At the start of a block, and behind a fragment where a header has room, *)
(* the next fragment starts.                                               *)
NextStarts ==
  \A p \in 0 .. Len(file) - 1 :
    \/ InBlock(p) = 0
    \/ p > 0 /\ IsLast(file[p]) /\ InBlock(p) + H <= kBlockSize
    => file[p + 1].at = 1

(* The fragment at p follows one that ends less than a header before it,   *)
(* and continues it exactly if that one is not the last of its record.     *)
Follows(p) ==
  \E q \in 0 .. p - 1 :
    /\ p - 1 - q < H
    /\ \A x \in q + 1 .. p - 1 : file[x] = ZeroByte
    /\ q = 0 \/ IsLast(file[q])
    /\ IsContinuation(file[p]) <=> q > 0 /\ IsOpen(file[q])
FragmentsFollow ==
  \A p \in DOMAIN file : file[p].at = 1 => Follows(p)

(* The file ends with a whole fragment, and in the middle of a record      *)
(* exactly if AddRecord() is.                                              *)
EndWhole ==
  /\ Len(file) = 0 \/ IsLast(file[Len(file)])
  /\ (Len(file) > 0 /\ IsOpen(file[Len(file)])) <=> (adding /\ ~begin)

OffsetAgrees ==
  \/ block_offset_ = InBlock(Len(file))
  \/ block_offset_ = kBlockSize /\ InBlock(Len(file)) = 0

Layout ==
  ~damaged =>
    /\ \A p \in DOMAIN file : file[p] # BadByte
    /\ RunsWhole /\ FitsBlock /\ NextStarts /\ FragmentsFollow
    /\ alive \/ ~adding => EndWhole
    /\ alive => OffsetAgrees

(* The buffer lies in one block, which it reaches the end of unless the    *)
(* file ends first, and begins where a fragment or a trailer does.         *)
BufferAligned ==
  /\ end_of_buffer_offset_ <= Len(file)
  /\ eof_ => end_of_buffer_offset_ = Len(file)
  /\ ~eof_ => \/ BufferSize = 0 /\ InBlock(buffer_) = 0
              \/ InBlock(buffer_) + BufferSize = kBlockSize
  /\ BufferSize > 0 => InBlock(buffer_) + BufferSize <= kBlockSize
  /\ InBlock(buffer_) = 0 \/ (buffer_ \in DOMAIN file /\ IsLast(file[buffer_]))

(* The last fragment read ends at q, and the reader collects exactly if    *)
(* that fragment is not the last of its record.                            *)
LastReadAt(q) ==
  /\ q = 0 \/ IsLast(file[q])
  /\ buffer_ < q + H
  /\ buffer_ = q \/ BufferSize >= H \/ eof_
  /\ (q > 0 /\ IsOpen(file[q])) <=> (pc = "read" /\ in_fragmented_record)

ReaderOff ==
  pc = "off" => /\ buffer_ = 0 /\ end_of_buffer_offset_ = 0 /\ ~eof_
                /\ ~resyncing_ /\ ~reported /\ ~in_fragmented_record

Untroubled ==
  /\ ~reported
  /\ pc # "eof" => /\ ~resyncing_ /\ BufferAligned
                   /\ \E q \in 0 .. buffer_ : LastReadAt(q)

NoAlarmYet ==
  initial_offset_ = 0 /\ ~damaged /\ ~read_error => Untroubled

AlarmInv == LogInv /\ Layout /\ ReaderOff /\ NoAlarmYet

(* Offsets in blocks.                                                      *)
LEMMA Quotient ==
  ASSUME NEW k \in Nat \ {0}, NEW q \in Nat, NEW r \in 0 .. k - 1
  PROVE  (k * q + r) % k = r /\ (k * q + r) \div k = q
OBVIOUS

LEMMA InBlockRange ==
  ASSUME NEW a \in Nat
  PROVE  InBlock(a) \in 0 .. kBlockSize - 1 /\ InBlock(a) \in Nat /\ InBlock(0) = 0
<1>1. kBlockSize \in Nat \ {0}
  BY HeaderAndBlock
<1>2. InBlock(a) \in 0 .. kBlockSize - 1
  BY <1>1, Remainder DEF InBlock
<1>3. InBlock(0) = 0
  BY <1>1 DEF InBlock
<1> QED BY <1>1, <1>2, <1>3

LEMMA InBlockMoves ==
  ASSUME NEW a \in Nat, NEW n \in Nat
  PROVE  /\ InBlock(a) + n < kBlockSize => InBlock(a + n) = InBlock(a) + n
         /\ InBlock(a) + n = kBlockSize => InBlock(a + n) = 0
<1>1. PICK k \in Nat \ {0} : k = kBlockSize
  BY HeaderAndBlock
<1>2. PICK q \in Nat, r \in 0 .. k - 1 : q = a \div k /\ r = a % k
  BY Remainder
<1>3. a = (k * q) + r
  BY <1>2, Remainder
<1>4. CASE r + n < k
  <2>1. a + n = (k * q) + (r + n) /\ r + n \in 0 .. k - 1
    BY <1>2, <1>3, <1>4
  <2>2. (a + n) % k = r + n
    BY <2>1, Quotient
  <2> QED BY <1>1, <1>2, <1>4, <2>2 DEF InBlock
<1>5. CASE r + n = k
  <2>1. PICK x \in Nat : x = q + 1
    OBVIOUS
  <2>2. k * x = (k * q) + k
    BY <2>1
  <2>3. a + n = (k * x) + 0 /\ 0 \in 0 .. k - 1
    BY <1>2, <1>3, <1>5, <2>2
  <2>4. (a + n) % k = 0
    BY <2>3, Quotient
  <2> QED BY <1>1, <1>2, <1>5, <2>4 DEF InBlock
<1> QED BY <1>1, <1>2, <1>4, <1>5 DEF InBlock

(* A trailer fills the block up to the next fragment.                      *)
LEMMA TrailerEnds ==
  ASSUME FileInv, OffsetAgrees
  PROVE  /\ InBlock(Len(file) + Len(Trailer)) = BlockOffset
         /\ \A j \in 0 .. Len(Trailer) - 1 :
              InBlock(Len(file) + j) # 0 /\ InBlock(Len(file) + j) + H > kBlockSize
<1>1. PICK n \in Nat, k \in Nat : n = Len(file) /\ k = kBlockSize
  BY FileTypes, HeaderAndBlock
<1>2. block_offset_ \in 0 .. k
  BY <1>1 DEF FileInv, WriterTypeOK
<1>3. InBlock(n) \in 0 .. k - 1 /\ H \in Nat /\ H >= 1 /\ k > H /\ H = kHeaderSize
  BY <1>1, InBlockRange, HeaderAndBlock
<1>4. block_offset_ = InBlock(n) \/ (block_offset_ = k /\ InBlock(n) = 0)
  BY <1>1 DEF OffsetAgrees
<1>5. CASE k - block_offset_ < H
  <2>1. BlockOffset = 0 /\ Trailer = [i \in 1 .. k - block_offset_ |-> ZeroByte]
    BY <1>1, <1>3, <1>5 DEF BlockOffset, Trailer, Leftover
  <2>2. k - block_offset_ \in Nat
    BY <1>2
  <2>3. Len(Trailer) = k - block_offset_
    BY <2>1, <2>2
  <2>4. CASE block_offset_ = InBlock(n)
    <3>1. InBlock(n + (k - block_offset_)) = 0
      BY <1>1, <1>2, <2>2, <2>4, InBlockMoves
    <3>2. ASSUME NEW j \in 0 .. Len(Trailer) - 1
          PROVE  InBlock(n + j) # 0 /\ InBlock(n + j) + H > k
      <4>1. j \in Nat /\ InBlock(n) + j < k
        BY <1>2, <2>2, <2>3, <2>4
      <4>2. InBlock(n + j) = InBlock(n) + j
        BY <1>1, <4>1, InBlockMoves
      <4> QED BY <1>2, <1>3, <1>5, <2>4, <4>1, <4>2
    <3> QED BY <1>1, <2>1, <2>3, <3>1, <3>2
  <2>5. CASE block_offset_ = k /\ InBlock(n) = 0
    BY <1>1, <2>1, <2>3, <2>5
  <2> QED BY <1>4, <2>4, <2>5
<1>6. CASE ~(k - block_offset_ < H)
  <2>1. BlockOffset = block_offset_ /\ Trailer = <<>>
    BY <1>1, <1>3, <1>6 DEF BlockOffset, Trailer, Leftover
  <2>2. Len(Trailer) = 0 /\ n + 0 = n /\ block_offset_ # k
    BY <1>1, <1>2, <1>3, <1>6, <2>1
  <2> QED BY <1>1, <1>4, <2>1, <2>2
<1> QED BY <1>5, <1>6

LEMMA FragmentStart ==
  ASSUME NEW c, FragmentByte(c), c \in AnyByte
  PROVE  c.at >= 1 /\ c.at \in Nat /\ c.len \in Nat /\ c # ZeroByte /\ c # BadByte
<1>1. c.at >= 1 /\ c.at \in Nat /\ c.len \in Nat
  BY HeaderAndBlock DEF FragmentByte, AnyByte
<1> QED BY <1>1 DEF ZeroByte, BadByte, Byte

(* In a file that ends with a whole fragment, all of every fragment is     *)
(* there.                                                                  *)
LEMMA FragmentInside ==
  ASSUME FileInv, RunsWhole, EndWhole, NEW p \in DOMAIN file, file[p].at >= 1
  PROVE  p - file[p].at + (H + file[p].len) <= Len(file)
<1>0. PICK c \in AnyByte, e \in Nat : c = file[p] /\ e = Len(file)
  BY FileTypes
<1>1. p \in Nat /\ p <= e /\ 1 <= p /\ e \in DOMAIN file
  BY <1>0, FileTypes
<1>2. c.at \in Int /\ c.len \in Nat /\ H \in Nat /\ c.at >= 1
  BY <1>0, HeaderAndBlock DEF AnyByte
<1> SUFFICES ASSUME p - c.at + (H + c.len) > e PROVE FALSE
  BY <1>0, <1>1, <1>2
<1>3. PICK i \in Int : i = e - p + c.at
  BY <1>1, <1>2
<1>4. i \in 1 .. H + c.len /\ p - c.at + i = e /\ i < H + c.len
  <2>1. PICK a \in Int, l \in Nat, h \in Nat : a = c.at /\ l = c.len /\ h = H
    BY <1>2
  <2>2. a >= 1 /\ p - a + (h + l) > e /\ i = e - p + a
    BY <1>2, <1>3, <2>1
  <2>3. i \in 1 .. h + l /\ p - a + i = e /\ i < h + l
    BY <1>1, <2>2
  <2> QED BY <2>1, <2>3
<1>5. file[e] = Byte(c.type, c.rec, c.from, c.len, i)
  <2>1. p - c.at + i <= Len(file)
    BY <1>0, <1>4
  <2> QED BY <1>0, <1>4, <2>1 DEF RunsWhole
<1>6. IsLast(file[e])
  BY <1>0, <1>1 DEF EndWhole
<1>7. i = H + c.len
  BY <1>5, <1>6, HeaderAndBlock DEF IsLast, LastByteOf, Byte
<1> QED BY <1>2, <1>4, <1>7

LEMMA RunsWholeGrows ==
  ASSUME FileInv, alive, adding, RunsWhole, EndWhole, NEW m, NEW k, Grows(m, k)
  PROVE  RunsWhole'
<1> SUFFICES ASSUME NEW p \in DOMAIN file', NEW c, c = file'[p], c.at >= 1,
                    NEW i \in 1 .. H + c.len
             PROVE  /\ c.at <= p
                    /\ p - c.at + i <= Len(file') =>
                         file'[p - c.at + i] = Byte(c.type, c.rec, c.from, c.len, i)
  <2>2. \A q \in DOMAIN file' : file'[q].at >= 1 => 1 \in 1 .. H + file'[q].len
    <3> SUFFICES ASSUME NEW q \in DOMAIN file' PROVE 1 \in 1 .. H + file'[q].len
      OBVIOUS
    <3>1. file'[q] \in AnyByte
      BY DEF Grows
    <3>2. file'[q].len \in Nat
      BY <3>1 DEF AnyByte
    <3> QED BY <3>2, HeaderAndBlock
  <2> QED BY <2>2 DEF RunsWhole, H
<1>0. /\ m \in Nat /\ Len(file) \in Nat /\ Len(file') \in Nat
      /\ DOMAIN file = 1 .. Len(file) /\ DOMAIN file' = 1 .. Len(file')
      /\ \A q \in DOMAIN file : q \in DOMAIN file' /\ file'[q] = file[q]
  BY GrownPositions
<1>1. CASE p \in DOMAIN file
  <2>1. file[p] = c /\ c \in AnyByte
    BY <1>0, <1>1, FileTypes
  <2>2. c.at \in Int /\ c.len \in Nat /\ H \in Nat /\ p \in Nat
    BY <1>0, <2>1, HeaderAndBlock DEF AnyByte
  <2>3. p - c.at + (H + c.len) <= Len(file)
    BY <1>1, <2>1, FragmentInside
  <2>4. c.at <= p
    BY <1>1, <2>1 DEF RunsWhole
  <2>5. PICK x \in Int : x = p - c.at + i
    BY <2>2
  <2>6. x \in DOMAIN file /\ x <= Len(file)
    BY SMTT(30), <1>0, <2>2, <2>3, <2>4, <2>5
  <2>7. file[x] = Byte(c.type, c.rec, c.from, c.len, i)
    BY <1>1, <2>1, <2>5, <2>6 DEF RunsWhole
  <2> QED BY <1>0, <2>4, <2>5, <2>6, <2>7
<1>2. CASE p \notin DOMAIN file
  <2>1. c # ZeroByte
    BY DEF ZeroByte, Byte
  <2>2. /\ p - Len(file) - m \in 1 .. H + FragmentLength
        /\ c = Byte(FragmentType, Record, length[Record] - left, FragmentLength, p - Len(file) - m)
    BY <1>2, <2>1, GrownPositions
  <2>3. /\ c.at = p - Len(file) - m /\ c.len = FragmentLength /\ c.type = FragmentType
        /\ c.rec = Record /\ c.from = length[Record] - left
    BY <2>2 DEF Byte
  <2>4. p \in Nat /\ H \in Nat /\ FragmentLength \in Nat
    BY <1>0, HeaderAndBlock, RoundTypes
  <2>5. c.at <= p
    BY <1>0, <2>3, <2>4
  <2>6. PICK x \in Int : x = p - c.at + i
    BY <1>0, <2>3, <2>4
  <2>7. x = Len(file) + m + i /\ i \in Nat /\ i >= 1
    BY <1>0, <2>3, <2>4, <2>6
  <2>8. ASSUME x <= Len(file')
        PROVE  file'[x] = Byte(c.type, c.rec, c.from, c.len, i)
    <3>1. x \in DOMAIN file' /\ x \notin DOMAIN file /\ ~(x \in Len(file) + 1 .. Len(file) + m)
          /\ x - Len(file) - m = i
      BY <1>0, <2>7, <2>8
    <3> QED BY <2>3, <3>1, GrownPositions
  <2> QED BY <2>5, <2>6, <2>8
<1> QED BY <1>1, <1>2

LEMMA FitsBlockGrows ==
  ASSUME FileInv, alive, adding, FitsBlock, OffsetAgrees, NEW m, NEW k, Grows(m, k),
         m = Len(Trailer)
  PROVE  FitsBlock'
<1> SUFFICES ASSUME NEW p \in DOMAIN file', file'[p].at = 1
             PROVE  InBlock(p - 1) + H + file'[p].len <= kBlockSize
  BY DEF FitsBlock, InBlock, H
<1>0. /\ m \in Nat /\ Len(file) \in Nat
      /\ \A q \in DOMAIN file : file'[q] = file[q]
  BY GrownPositions
<1>1. CASE p \in DOMAIN file
  BY <1>0, <1>1 DEF FitsBlock
<1>2. CASE p \notin DOMAIN file
  <2>1. p = Len(file) + m + 1
    BY <1>2, GrownStart
  <2>2. p - 1 = Len(file) + m
    BY <1>0, <2>1
  <2>3. InBlock(p - 1) = BlockOffset
    BY <2>2, TrailerEnds
  <2>4. file'[p].len = FragmentLength
    <3>1. file'[p] # ZeroByte
      BY DEF ZeroByte, Byte
    <3> QED BY <1>2, <3>1, GrownPositions DEF Byte
  <2> QED BY <2>3, <2>4, RoundTypes
<1> QED BY <1>1, <1>2

LEMMA NextStartsGrows ==
  ASSUME FileInv, alive, adding, NextStarts, OffsetAgrees, EndWhole,
         NEW m, NEW k, Grows(m, k), m = Len(Trailer)
  PROVE  NextStarts'
<1> SUFFICES ASSUME NEW p \in 0 .. Len(file') - 1,
                    InBlock(p) = 0 \/ (p > 0 /\ IsLast(file'[p]) /\ InBlock(p) + H <= kBlockSize)
             PROVE  file'[p + 1].at = 1
  BY DEF NextStarts, InBlock, IsLast, LastByteOf, H
<1>0. /\ m \in Nat /\ Len(file) \in Nat /\ Len(file') \in Nat
      /\ DOMAIN file = 1 .. Len(file) /\ DOMAIN file' = 1 .. Len(file')
      /\ \A q \in DOMAIN file : file'[q] = file[q]
  BY GrownPositions
<1>h. H \in Nat /\ H >= 1 /\ H = kHeaderSize /\ kBlockSize \in Nat
  BY HeaderAndBlock
<1>1. CASE p < Len(file)
  <2>1. p \in 0 .. Len(file) - 1 /\ p + 1 \in DOMAIN file /\ (p > 0 => p \in DOMAIN file)
    BY <1>0, <1>1
  <2>2. file'[p + 1] = file[p + 1] /\ (p > 0 => file'[p] = file[p])
    BY <1>0, <2>1
  <2> QED BY <2>1, <2>2 DEF NextStarts
<1>2. CASE ~(p < Len(file))
  <2>1. PICK j \in Nat : j = p - Len(file)
    <3>1. p - Len(file) \in Nat
      BY <1>0, <1>2
    <3> QED BY <3>1
  <2>2. p = Len(file) + j
    BY <1>0, <2>1
  <2>3. CASE j < m
    <3>1. InBlock(p) # 0 /\ InBlock(p) + H > kBlockSize
      BY <2>2, <2>3, TrailerEnds
    <3>2. InBlock(p) \in Nat
      BY SMTT(30), InBlockRange
    <3> QED BY <1>h, <3>1, <3>2
  <2>4. CASE j = m
    <3>1. p + 1 \in DOMAIN file' /\ p + 1 \notin DOMAIN file /\ p + 1 - Len(file) - m = 1
          /\ ~(p + 1 \in Len(file) + 1 .. Len(file) + m)
      BY <1>0, <2>2, <2>4
    <3> QED BY <3>1, GrownPositions DEF Byte
  <2>5. CASE j > m
    <3>1. p \in DOMAIN file' /\ p \notin DOMAIN file /\ p - Len(file) - m = j - m
          /\ ~(p \in Len(file) + 1 .. Len(file) + m) /\ p > 0
      BY <1>0, <2>2, <2>5
    <3>2. p + 1 \in DOMAIN file' /\ p + 1 \notin DOMAIN file
          /\ ~(p + 1 \in Len(file) + 1 .. Len(file) + m)
      BY <1>0, <2>2, <2>5
    <3>3. p + 1 - Len(file) - m \in 1 .. H + FragmentLength
      BY <3>2, GrownPositions
    <3>4. FragmentLength \in Nat /\ BlockOffset \in Nat /\ BlockOffset + H + FragmentLength <= kBlockSize
      BY RoundTypes
    <3>5. j - m \in Nat /\ j - m >= 1 /\ j - m < H + FragmentLength
      BY <1>0, <1>h, <2>2, <2>5, <3>3, <3>4
    <3>6. file'[p].at = j - m /\ file'[p].len = FragmentLength
      BY SMTT(30), <3>1, GrownPositions DEF Byte
    <3>7. ~IsLast(file'[p])
      BY <1>h, <3>4, <3>5, <3>6 DEF IsLast, LastByteOf
    <3>8. InBlock(p) # 0
      <4>1. PICK a \in Nat, d \in Nat : a = Len(file) + m /\ d = j - m
        <5>1. Len(file) + m \in Nat
          BY <1>0
        <5> QED BY <3>5, <5>1
      <4>2. InBlock(a) = BlockOffset /\ a + d = p
        BY <1>0, <2>2, <4>1, TrailerEnds
      <4>3. InBlock(a) + d < kBlockSize
        BY <1>h, <3>4, <3>5, <4>1, <4>2
      <4>4. InBlock(p) = BlockOffset + d
        BY <4>2, <4>3, InBlockMoves
      <4> QED BY <3>4, <3>5, <4>1, <4>4
    <3> QED BY <3>7, <3>8
  <2> QED BY <1>0, <2>3, <2>4, <2>5
<1> QED BY <1>1, <1>2

LEMMA FollowsStays ==
  ASSUME FileInv, NEW p \in DOMAIN file, Follows(p),
         \A q \in DOMAIN file : file'[q] = file[q]
  PROVE  Follows(p)'
<1>1. PICK q \in 0 .. p - 1 :
        /\ p - 1 - q < H
        /\ \A x \in q + 1 .. p - 1 : file[x] = ZeroByte
        /\ q = 0 \/ IsLast(file[q])
        /\ IsContinuation(file[p]) <=> q > 0 /\ IsOpen(file[q])
  BY DEF Follows
<1>2. DOMAIN file = 1 .. Len(file) /\ Len(file) \in Nat
  BY FileTypes
<1>3. file'[p] = file[p] /\ (q > 0 => file'[q] = file[q])
  BY <1>1, <1>2
<1>4. \A x \in q + 1 .. p - 1 : file'[x] = ZeroByte
  <2> TAKE x \in q + 1 .. p - 1
  <2>1. x \in DOMAIN file
    BY <1>1, <1>2
  <2> QED BY <1>1, <2>1
<1>5. q = 0 \/ IsLast(file[q])'
  BY <1>1, <1>3 DEF IsLast, LastByteOf
<1>6. IsContinuation(file[p])' <=> q > 0 /\ IsOpen(file[q])'
  BY <1>1, <1>3 DEF IsContinuation, IsOpen
<1> QED BY <1>1, <1>4, <1>5, <1>6 DEF Follows, H

LEMMA FragmentsFollowGrows ==
  ASSUME FileInv, alive, adding, FragmentsFollow, EndWhole, NEW m, NEW k, Grows(m, k)
  PROVE  FragmentsFollow'
<1> SUFFICES ASSUME NEW p \in DOMAIN file', file'[p].at = 1
             PROVE  Follows(p)'
  BY DEF FragmentsFollow
<1>0. /\ m \in Nat /\ Len(file) \in Nat /\ Len(file') \in Nat
      /\ DOMAIN file = 1 .. Len(file) /\ DOMAIN file' = 1 .. Len(file')
      /\ \A q \in DOMAIN file : file'[q] = file[q]
  BY GrownPositions
<1>1. CASE p \in DOMAIN file
  BY <1>0, <1>1, FollowsStays DEF FragmentsFollow
<1>2. CASE p \notin DOMAIN file
  <2>1. p = Len(file) + m + 1 /\ file'[p].type = FragmentType
    BY <1>2, GrownStart
  <2>2. PICK q \in Nat : q = Len(file)
    BY <1>0
  <2>3. q \in 0 .. p - 1 /\ p - 1 - q < H
    <3>1. m \in 0 .. H - 1
      BY DEF Grows
    <3> QED BY <1>0, <2>1, <2>2, <3>1, HeaderAndBlock
  <2>4. \A x \in q + 1 .. p - 1 : file'[x] = ZeroByte
    <3> TAKE x \in q + 1 .. p - 1
    <3>1. x \in DOMAIN file' /\ x \notin DOMAIN file /\ ~(x > Len(file) + m)
      BY <1>0, <2>1, <2>2
    <3> QED BY <3>1, GrownPositions
  <2>5. q > 0 => file'[q] = file[q]
    BY <1>0, <2>2
  <2>6. q = 0 \/ IsLast(file[q])'
    BY <2>2, <2>5 DEF EndWhole, IsLast, LastByteOf
  <2>7. IsContinuation(file[p])' <=> ~begin
    BY <2>1, RoundTypes DEF IsContinuation, kFullType, kFirstType, kMiddleType, kLastType
  <2>8. (q > 0 /\ IsOpen(file[q])') <=> ~begin
    BY <2>2, <2>5 DEF EndWhole, IsOpen
  <2> QED BY <2>3, <2>4, <2>6, <2>7, <2>8 DEF Follows, H
<1> QED BY <1>1, <1>2

(* The parts of Layout that are about the file alone.                      *)
FileLayout ==
  /\ \A p \in DOMAIN file : file[p] # BadByte
  /\ RunsWhole /\ FitsBlock /\ NextStarts /\ FragmentsFollow

LEMMA FileLayoutGrows ==
  ASSUME FileInv, alive, adding, ~damaged, Layout, NEW k, Grows(Len(Trailer), k)
  PROVE  FileLayout'
<1>1. FileLayout /\ EndWhole /\ OffsetAgrees
  BY DEF Layout, FileLayout
<1>2. \A p \in DOMAIN file' : file'[p] # BadByte
  <2> TAKE p \in DOMAIN file'
  <2>1. CASE p \in DOMAIN file
    BY <1>1, <2>1, GrownPositions DEF FileLayout
  <2>2. CASE p \notin DOMAIN file
    <3>1. file'[p] = ZeroByte \/ file'[p].at = p - Len(file) - Len(Trailer)
      BY <2>2, GrownPositions DEF Byte
    <3>2. file'[p] # ZeroByte => p - Len(file) - Len(Trailer) \in 1 .. H + FragmentLength
      BY <2>2, GrownPositions
    <3>3. file'[p].at # -1
      <4>1. CASE file'[p] = ZeroByte
        BY <4>1 DEF ZeroByte, Byte
      <4>2. CASE file'[p] # ZeroByte
        BY <3>1, <3>2, <4>2
      <4> QED BY <4>1, <4>2
    <3> QED BY <3>3 DEF BadByte, Byte
  <2> QED BY <2>1, <2>2
<1>3. RunsWhole' /\ FitsBlock' /\ NextStarts' /\ FragmentsFollow'
  BY <1>1, RunsWholeGrows, FitsBlockGrows, NextStartsGrows, FragmentsFollowGrows DEF FileLayout
<1> QED BY <1>2, <1>3 DEF FileLayout

LEMMA FileLayoutStays ==
  ASSUME FileInv, FileLayout, file' = file
  PROVE  FileLayout'
<1>1. RunsWhole' /\ FitsBlock'
  BY DEF FileLayout, RunsWhole, FitsBlock, H, InBlock
<1>2. NextStarts'
  BY DEF FileLayout, NextStarts, IsLast, LastByteOf, H, InBlock
<1>3. FragmentsFollow'
  BY FollowsStays DEF FileLayout, FragmentsFollow
<1> QED BY <1>1, <1>2, <1>3 DEF FileLayout

LEMMA EmitLayout ==
  ASSUME FileInv, Layout, ~damaged, EmitPhysicalRecord
  PROVE  FileLayout' /\ EndWhole' /\ OffsetAgrees'
<1>1. /\ alive /\ adding /\ RoundDone(Trailer \o Fragment)
      /\ Grows(Len(Trailer), Len(Trailer) + H + FragmentLength)
  BY EmitGrows
<1>2. FileLayout'
  BY <1>1, FileLayoutGrows
<1>3. PICK n \in Nat, m \in Nat, l \in Nat : n = Len(file) /\ m = Len(Trailer) /\ l = H + FragmentLength
  <2>1. Len(file) \in Nat /\ Len(Trailer) \in Nat
    BY <1>1, GrownPositions
  <2>2. H + FragmentLength \in Nat
    BY <1>1, RoundTypes, HeaderAndBlock
  <2> QED BY <2>1, <2>2
<1>4. /\ FragmentLength \in Nat /\ FragmentLength <= left /\ left \in Nat /\ H \in Nat /\ H >= 1
      /\ BlockOffset \in Nat /\ BlockOffset + H + FragmentLength <= kBlockSize
      /\ kBlockSize \in Nat
  BY <1>1, RoundTypes, HeaderAndBlock
<1>5. Len(file') = n + m + l /\ l >= 1
  <2>1. Len(file') = Len(file) + (Len(Trailer) + H + FragmentLength)
    BY <1>1 DEF Grows
  <2> QED BY <1>3, <1>4, <2>1
<1>6. PICK e \in Nat : e = n + m + l
  OBVIOUS
<1>7. file'[e] = Byte(FragmentType, Record, length[Record] - left, FragmentLength, l)
  <2>1. e \in DOMAIN file' /\ e \notin DOMAIN file /\ ~(e \in Len(file) + 1 .. Len(file) + Len(Trailer))
    BY <1>1, <1>3, <1>5, <1>6, GrownPositions
  <2>2. e - Len(file) - Len(Trailer) = l
    <3>1. e - n - m = l
      BY <1>6
    <3> QED BY <1>3, <3>1
  <2> QED BY <1>1, <2>1, <2>2, GrownPositions
<1>8. IsLast(file'[e]) /\ file'[e].type = FragmentType
  BY <1>3, <1>4, <1>5, <1>7 DEF IsLast, LastByteOf, Byte, H
<1>9. left' = left - FragmentLength /\ begin' = FALSE /\ adding' = (left' > 0)
  BY <1>1 DEF RoundDone
<1>10. IsOpen(file'[e]) <=> adding'
  <2>1. adding' <=> ~End
    <3>1. left' > 0 <=> ~(left = FragmentLength)
      BY <1>4, <1>9
    <3> QED BY <1>9, <3>1 DEF End
  <2>2. FragmentType \in {kFirstType, kMiddleType} <=> ~End
    BY <1>1, RoundTypes DEF kFullType, kFirstType, kMiddleType, kLastType
  <2> QED BY <1>8, <2>1, <2>2 DEF IsOpen
<1>11. EndWhole'
  <2>1. Len(file') = e /\ e > 0
    BY <1>3, <1>5, <1>6
  <2>2. IsLast(file[Len(file)])' /\ (IsOpen(file[Len(file)])' <=> adding')
    BY <1>8, <1>10, <2>1 DEF IsLast, LastByteOf, IsOpen
  <2> QED BY <1>9, <2>1, <2>2 DEF EndWhole
<1>12. OffsetAgrees'
  <2>1. block_offset_' = BlockOffset + l
    BY <1>1, <1>3, <1>4 DEF RoundDone, AdvanceBlockOffset, H
  <2>2. PICK a \in Nat : a = n + m
    OBVIOUS
  <2>3. InBlock(a) = BlockOffset
    BY <1>1, <1>3, <2>2, TrailerEnds DEF Layout
  <2>4. BlockOffset + l <= kBlockSize
    BY <1>3, <1>4
  <2>5. CASE BlockOffset + l < kBlockSize
    <3>1. InBlock(a + l) = BlockOffset + l
      BY <2>3, <2>5, InBlockMoves
    <3> QED BY <1>5, <2>1, <2>2, <3>1 DEF OffsetAgrees, InBlock
  <2>6. CASE BlockOffset + l = kBlockSize
    <3>1. InBlock(a + l) = 0
      BY <2>3, <2>6, InBlockMoves
    <3> QED BY <1>5, <2>1, <2>2, <2>6, <3>1 DEF OffsetAgrees, InBlock
  <2> QED BY <1>3, <1>4, <2>4, <2>5, <2>6
<1> QED BY <1>2, <1>11, <1>12

LEMMA LayoutParts ==
  Layout <=> (~damaged => /\ FileLayout
                          /\ alive \/ ~adding => EndWhole
                          /\ alive => OffsetAgrees)
BY DEF Layout, FileLayout

LEMMA WriterLayout ==
  ASSUME FileInv, Layout, WriterNext
  PROVE  Layout'
<1> SUFFICES ASSUME ~damaged'
             PROVE  /\ FileLayout'
                    /\ (alive' \/ ~adding') => EndWhole'
                    /\ alive' => OffsetAgrees'
  BY DEF Layout, FileLayout
<1>0. alive \in BOOLEAN /\ adding \in BOOLEAN /\ begin \in BOOLEAN
  BY DEF FileInv, WriterTypeOK
<1>1. ASSUME NEW n \in Length, StartAddRecord(n)
      PROVE  /\ FileLayout'
             /\ (alive' \/ ~adding') => EndWhole'
             /\ alive' => OffsetAgrees'
  <2>1. /\ alive /\ ~adding /\ adding' = TRUE /\ begin' = TRUE /\ file' = file
        /\ block_offset_' = block_offset_ /\ alive' = alive /\ damaged' = damaged
    BY <1>1 DEF StartAddRecord
  <2>2. FileLayout /\ EndWhole /\ OffsetAgrees
    BY <2>1 DEF Layout, FileLayout
  <2>3. EndWhole'
    BY <2>1, <2>2 DEF EndWhole, IsLast, LastByteOf, IsOpen
  <2>4. OffsetAgrees'
    BY <2>1, <2>2 DEF OffsetAgrees, InBlock
  <2> QED BY <2>1, <2>2, <2>3, <2>4, FileLayoutStays
<1>2. CASE EmitPhysicalRecord
  BY <1>2, EmitGrows, EmitLayout
<1>3. CASE TrailerLost \/ EmitFails \/ Corrupt
  BY <1>3 DEF TrailerLost, EmitFails, Corrupt
<1>4. CASE Crash
  <2>1. /\ alive /\ alive' = FALSE /\ adding' = adding /\ begin' = begin /\ damaged' = damaged
    BY <1>4 DEF Crash
  <2>2. CASE adding
    <3>1. PICK k \in 0 .. Len(Trailer \o Fragment) :
            file' = file \o SubSeq(Trailer \o Fragment, 1, k)
      BY <1>4, <2>2 DEF Crash
    <3>2. Grows(Len(Trailer), k)
      BY <2>1, <2>2, <3>1, TornWrite
    <3>3. FileLayout'
      BY <2>1, <2>2, <3>2, FileLayoutGrows
    <3> QED BY <2>1, <2>2, <3>3
  <2>3. CASE ~adding
    <3>1. file' = file
      BY <1>4, <2>3 DEF Crash
    <3>2. FileLayout /\ EndWhole
      BY <2>1, <2>3 DEF Layout, FileLayout
    <3>3. EndWhole'
      BY <2>1, <3>1, <3>2 DEF EndWhole, IsLast, LastByteOf, IsOpen
    <3> QED BY <2>1, <3>1, <3>2, <3>3, FileLayoutStays
  <2> QED BY <2>2, <2>3
<1>5. CASE Reopen
  <2>1. /\ block_offset_' = Len(file) % kBlockSize /\ adding' = FALSE /\ begin' = TRUE
        /\ damaged' = (damaged \/ adding) /\ file' = file
    BY <1>5 DEF Reopen
  <2>2. FileLayout /\ EndWhole /\ ~adding
    BY <2>1 DEF Layout, FileLayout
  <2>3. EndWhole'
    BY <2>1, <2>2 DEF EndWhole, IsLast, LastByteOf, IsOpen
  <2>4. OffsetAgrees'
    BY <2>1 DEF OffsetAgrees, InBlock
  <2> QED BY <2>1, <2>2, <2>3, <2>4, FileLayoutStays
<1> QED BY <1>1, <1>2, <1>3, <1>4, <1>5 DEF WriterNext

(* A fragment in the file whose header, or the whole of which, is in the   *)
(* buffer, is read intact.                                                 *)
LEMMA HeaderThere ==
  ASSUME FileInv, ReaderTypeOK, BufferRight, AtHeader,
         NEW c \in AnyByte, c = file[buffer_ + 1], c.at = 1,
         \A i \in 1 .. H : file[buffer_ + i] = Byte(c.type, c.rec, c.from, c.len, i)
  PROVE  HeaderIntact /\ ~ZeroHeader
<1>0. H \in Nat /\ H >= 1 /\ c.len \in Nat
  BY HeaderAndBlock DEF AnyByte
<1>1. buffer_ \in Nat
  BY BufferTypes
<1>2. /\ buffer_ + 1 \in DOMAIN file /\ buffer_ + H <= Len(file)
      /\ Header[1] = file[buffer_ + 1]
      /\ Len(Header) = H /\ \A i \in 1 .. H : Header[i] = file[buffer_ + i]
  BY HeaderInFile
<1>3. Len(file) \in Nat /\ DOMAIN file = 1 .. Len(file)
  BY FileTypes
<1>10. Expected = [i \in 1 .. H + c.len |-> Byte(c.type, c.rec, c.from, c.len, i)]
  BY <1>2 DEF Expected, PhysicalRecord, H
<1>11. HeaderIntact
  <2> DEFINE S == {Byte(c.type, c.rec, c.from, c.len, i) : i \in 1 .. H + c.len}
             E == SubSeq(Expected, 0 + 1, 0 + H)
  <2>1. \A i \in 0 + 1 .. 0 + H : Expected[i] \in S
    BY <1>0, <1>10
  <2>2. Len(E) = H /\ \A i \in 1 .. H : E[i] = Expected[0 + i]
    BY <1>0, <2>1, SubSeqAt
  <2>3. \A i \in 1 .. H : E[i] = Byte(c.type, c.rec, c.from, c.len, i)
    BY <1>0, <1>10, <2>2
  <2>4. E \in Seq(S)
    BY <1>0, <2>1, SubSeqProperties
  <2>5. Header \in Seq(AnyByte)
    <3>1. \A i \in buffer_ + 1 .. buffer_ + H : file[i] \in AnyByte
      <4> TAKE i \in buffer_ + 1 .. buffer_ + H
      <4>1. i \in DOMAIN file
        BY <1>0, <1>1, <1>2, <1>3
      <4> QED BY <4>1, FileTypes
    <3>2. PICK x \in Int, y \in Int : x = buffer_ + 1 /\ y = buffer_ + H
      BY <1>0, <1>1
    <3>3. SubSeq(file, x, y) \in Seq(AnyByte)
      BY <3>1, <3>2, SubSeqProperties
    <3> QED BY <3>2, <3>3 DEF Header, H
  <2>6. PICK A : A = AnyByte \cup S
    OBVIOUS
  <2> HIDE DEF E, S
  <2>7. E \in Seq(A) /\ Header \in Seq(A)
    BY <2>4, <2>5, <2>6
  <2>8. \A i \in 1 .. Len(Header) : Header[i] = E[i]
    BY <1>2, <2>3
  <2>9. Header = E
    BY <1>2, <2>2, <2>7, <2>8, SeqEqual
  <2>10. 0 + 1 = 1 /\ 0 + H = H
    BY <1>0
  <2> QED BY <2>9, <2>10 DEF HeaderIntact, E, H
<1>12. ~ZeroHeader
  <2>1. Header[1].at = 1 /\ 1 \in 1 .. kHeaderSize
    BY <1>0, <1>2 DEF H
  <2> QED BY <2>1 DEF ZeroHeader, ZeroByte, Byte
<1> QED BY <1>11, <1>12

LEMMA PayloadThere ==
  ASSUME FileInv, ReaderTypeOK, BufferRight, AtHeader,
         NEW c \in AnyByte, c = file[buffer_ + 1], InBuffer(c.len),
         \A i \in 1 .. H + c.len : file[buffer_ + i] = Byte(c.type, c.rec, c.from, c.len, i)
  PROVE  PayloadIntact
<1>0. H \in Nat /\ H >= 1 /\ H = kHeaderSize /\ c.len \in Nat
  BY HeaderAndBlock DEF AnyByte
<1>1. /\ buffer_ \in Nat /\ BufferSize \in Nat /\ BufferSize = end_of_buffer_offset_ - buffer_
      /\ end_of_buffer_offset_ \in Nat
  BY BufferTypes
<1>2. /\ buffer_ + 1 \in DOMAIN file /\ end_of_buffer_offset_ <= Len(file)
      /\ Header[1] = c
  BY HeaderInFile
<1>3. Len(file) \in Nat /\ DOMAIN file = 1 .. Len(file)
  BY FileTypes
<1>4. PICK n \in Nat : n = H + c.len
  BY <1>0
<1>5. n <= BufferSize
  BY <1>0, <1>4 DEF InBuffer
<1>6. buffer_ + n <= Len(file) /\ buffer_ \in Int
  BY <1>1, <1>2, <1>3, <1>5
<1>7. PICK E : E = Expected
  OBVIOUS
<1>8. E = [i \in 1 .. n |-> Byte(c.type, c.rec, c.from, c.len, i)]
  BY <1>2, <1>4, <1>7 DEF Expected, PhysicalRecord, H
<1> DEFINE S == {Byte(c.type, c.rec, c.from, c.len, i) : i \in 1 .. n}
<1>9. E \in Seq(S) /\ Len(E) = n /\ \A i \in 1 .. n : E[i] = Byte(c.type, c.rec, c.from, c.len, i)
  BY <1>8
<1> HIDE DEF S
<1>10. \A i \in buffer_ + 1 .. buffer_ + n : file[i] \in AnyByte
  <2> TAKE i \in buffer_ + 1 .. buffer_ + n
  <2>1. i \in DOMAIN file
    BY <1>1, <1>3, <1>6
  <2> QED BY <2>1, FileTypes
<1>11. PICK F : F = SubSeq(file, buffer_ + 1, buffer_ + n)
  OBVIOUS
<1>12. Len(F) = n /\ \A i \in 1 .. n : F[i] = file[buffer_ + i]
  <2>1. PICK a \in Int, m \in Nat : a = buffer_ /\ m = n
    BY <1>4, <1>6
  <2>2. \A i \in a + 1 .. a + m : file[i] \in AnyByte
    BY <1>10, <2>1
  <2>3. /\ Len(SubSeq(file, a + 1, a + m)) = m
        /\ \A i \in 1 .. m : SubSeq(file, a + 1, a + m)[i] = file[a + i]
    BY <2>2, SubSeqAt
  <2> QED BY <1>11, <2>1, <2>3
<1>13. F \in Seq(AnyByte)
  <2>1. PICK x \in Int, y \in Int : x = buffer_ + 1 /\ y = buffer_ + n
    BY <1>6
  <2>2. SubSeq(file, x, y) \in Seq(AnyByte)
    BY <1>10, <2>1, SubSeqProperties
  <2> QED BY <1>11, <2>1, <2>2
<1>14. PICK A : A = AnyByte \cup S
  OBVIOUS
<1>15. E \in Seq(A) /\ F \in Seq(A)
  BY <1>9, <1>13, <1>14
<1>16. E = F
  BY <1>4, <1>9, <1>12, <1>15, SeqEqual
<1> QED BY <1>7, <1>9, <1>11, <1>16 DEF PayloadIntact

(* Where the reader expects a header there is one.                         *)
LEMMA HeaderExpected ==
  ASSUME FileInv, ReaderTypeOK, BufferRight, FileLayout, BufferAligned, AtHeader
  PROVE  file[buffer_ + 1].at = 1 /\ HeaderIntact /\ ~ZeroHeader
<1>0. H \in Nat /\ H >= 1 /\ kBlockSize \in Nat
  BY HeaderAndBlock
<1>1. /\ buffer_ \in Nat /\ BufferSize \in Nat /\ BufferSize >= H /\ InBlock(buffer_) \in Nat
  BY BufferTypes, InBlockRange DEF AtHeader, H
<1>2. /\ buffer_ + 1 \in DOMAIN file /\ buffer_ + H <= Len(file)
      /\ Header[1] = file[buffer_ + 1]
      /\ Len(Header) = H /\ \A i \in 1 .. H : Header[i] = file[buffer_ + i]
  BY HeaderInFile
<1>3. Len(file) \in Nat /\ DOMAIN file = 1 .. Len(file)
  BY FileTypes
<1>4. InBlock(buffer_) + H <= kBlockSize
  BY <1>0, <1>1 DEF BufferAligned
<1>5. buffer_ \in 0 .. Len(file) - 1
  BY <1>1, <1>2, <1>3
<1>6. file[buffer_ + 1].at = 1
  <2>1. InBlock(buffer_) = 0 \/ (buffer_ > 0 /\ IsLast(file[buffer_]))
    BY <1>3 DEF BufferAligned
  <2> QED BY <1>4, <1>5, <2>1 DEF FileLayout, NextStarts
<1>7. PICK c \in AnyByte : c = file[buffer_ + 1]
  BY <1>2, FileTypes
<1>8. c.len \in Nat
  BY DEF AnyByte
<1>9. ASSUME NEW i \in 1 .. H
      PROVE  file[buffer_ + i] = Byte(c.type, c.rec, c.from, c.len, i)
  <2>1. PICK p \in DOMAIN file : p = buffer_ + 1
    BY <1>2
  <2>2. i \in 1 .. H + file[p].len /\ p - file[p].at + i = buffer_ + i /\ buffer_ + i <= Len(file)
    BY <1>0, <1>1, <1>2, <1>3, <1>6, <1>7, <1>8, <2>1
  <2>3. file[p].at >= 1
    BY <1>6, <2>1
  <2>4. file[p - file[p].at + i]
          = Byte(file[p].type, file[p].rec, file[p].from, file[p].len, i)
    BY <2>2, <2>3 DEF FileLayout, RunsWhole
  <2> QED BY <1>7, <2>1, <2>2, <2>4
<1>10. HeaderIntact /\ ~ZeroHeader
  <2>1. c.at = 1
    BY <1>6, <1>7
  <2> QED BY <1>7, <1>9, <2>1, HeaderThere
<1> QED BY <1>6, <1>10

LEMMA PayloadExpected ==
  ASSUME FileInv, ReaderTypeOK, BufferRight, FileLayout, BufferAligned, AtHeader
  PROVE  /\ ~eof_ => InBuffer(Header[1].len)
         /\ InBuffer(Header[1].len) => PayloadIntact
<1>0. H \in Nat /\ H >= 1 /\ kBlockSize \in Nat /\ H = kHeaderSize
  BY HeaderAndBlock
<1>1. /\ buffer_ \in Nat /\ BufferSize \in Nat /\ InBlock(buffer_) \in Nat
      /\ BufferSize >= H /\ BufferSize = end_of_buffer_offset_ - buffer_
      /\ end_of_buffer_offset_ \in Nat
  BY BufferTypes, InBlockRange DEF AtHeader, H
<1>2. /\ buffer_ + 1 \in DOMAIN file /\ end_of_buffer_offset_ <= Len(file)
      /\ Header[1] = file[buffer_ + 1]
  BY HeaderInFile
<1>3. Len(file) \in Nat /\ DOMAIN file = 1 .. Len(file)
  BY FileTypes
<1>4. file[buffer_ + 1].at = 1
  BY HeaderExpected
<1>5. PICK c \in AnyByte, p \in DOMAIN file : p = buffer_ + 1 /\ c = file[p]
  BY <1>2, FileTypes
<1>6. c.len \in Nat /\ Header[1] = c /\ c.at = 1
  BY <1>2, <1>4, <1>5 DEF AnyByte
<1>7. ASSUME ~eof_ PROVE InBuffer(Header[1].len)
  <2>1. InBlock(buffer_) + BufferSize = kBlockSize
    BY <1>0, <1>1, <1>7 DEF BufferAligned
  <2>2. InBlock(buffer_) + H + c.len <= kBlockSize
    <3>1. p - 1 = buffer_
      BY <1>1, <1>5
    <3>2. InBlock(p - 1) + H + file[p].len <= kBlockSize
      BY <1>4, <1>5 DEF FileLayout, FitsBlock
    <3> QED BY <1>5, <3>1, <3>2
  <2> QED BY <1>0, <1>1, <1>6, <2>1, <2>2 DEF InBuffer
<1>8. ASSUME InBuffer(Header[1].len) PROVE PayloadIntact
  <2>1. PICK n \in Nat : n = H + c.len
    BY <1>0, <1>6
  <2>2. n <= BufferSize /\ InBuffer(c.len)
    BY <1>0, <1>6, <1>8, <2>1 DEF InBuffer
  <2>3. buffer_ + n <= Len(file)
    BY <1>1, <1>2, <1>3, <2>2
  <2>4. \A i \in 1 .. n : file[buffer_ + i] = Byte(c.type, c.rec, c.from, c.len, i)
    <3> TAKE i \in 1 .. n
    <3>1. i \in 1 .. H + file[p].len /\ p - file[p].at + i = buffer_ + i /\ buffer_ + i <= Len(file)
      BY <1>0, <1>1, <1>3, <1>5, <1>6, <2>1, <2>3
    <3>2. file[p].at >= 1
      BY <1>5, <1>6
    <3>3. file[p - file[p].at + i]
            = Byte(file[p].type, file[p].rec, file[p].from, file[p].len, i)
      BY <3>1, <3>2 DEF FileLayout, RunsWhole
    <3> QED BY <1>5, <3>1, <3>3
  <2> QED BY <1>5, <2>1, <2>2, <2>4, PayloadThere
<1> QED BY <1>7, <1>8

(* A fragment that the reader meets continues a record exactly if the      *)
(* reader is collecting one.                                               *)
LEMMA NextFragment ==
  ASSUME FileInv, ReaderTypeOK, FileLayout, pc = "read",
         buffer_ + 1 \in DOMAIN file, file[buffer_ + 1].at = 1,
         NEW q \in 0 .. buffer_, LastReadAt(q)
  PROVE  IsContinuation(file[buffer_ + 1]) <=> in_fragmented_record
<1>0. H \in Nat /\ H >= 1 /\ buffer_ \in Nat /\ Len(file) \in Nat /\ DOMAIN file = 1 .. Len(file)
  BY HeaderAndBlock, BufferTypes, FileTypes
<1>1. PICK p \in DOMAIN file : p = buffer_ + 1 /\ p - 1 = buffer_
  BY <1>0
<1>2. PICK x \in 0 .. p - 1 :
        /\ p - 1 - x < H
        /\ \A y \in x + 1 .. p - 1 : file[y] = ZeroByte
        /\ x = 0 \/ IsLast(file[x])
        /\ IsContinuation(file[p]) <=> x > 0 /\ IsOpen(file[x])
  BY <1>1 DEF FileLayout, FragmentsFollow, Follows
<1>3. q = 0 \/ IsLast(file[q])
  BY DEF LastReadAt
<1>4. buffer_ < q + H /\ q \in Nat /\ x \in Nat /\ x <= buffer_ /\ q <= buffer_
  BY <1>0, <1>1, <1>2 DEF LastReadAt
<1>5. ~(x < q)
  <2> SUFFICES ASSUME x < q PROVE FALSE
    OBVIOUS
  <2>1. q \in x + 1 .. p - 1
    BY <1>0, <1>1, <1>4
  <2>2. file[q] = ZeroByte
    BY <1>2, <2>1
  <2>3. IsLast(file[q])
    BY <1>3, <1>4
  <2> QED BY <2>2, <2>3 DEF IsLast, ZeroByte, Byte
<1>6. ~(q < x)
  <2> SUFFICES ASSUME q < x PROVE FALSE
    OBVIOUS
  <2>1. x \in DOMAIN file /\ x > 0
    BY <1>0, <1>1, <1>4
  <2>2. PICK c \in AnyByte : c = file[x]
    BY <2>1, FileTypes
  <2>3. c.at \in Int /\ c.len \in Nat /\ c.at = H + c.len /\ c.at >= 1
    BY <1>0, <1>2, <2>1, <2>2 DEF IsLast, LastByteOf, AnyByte, H
  <2>4. c.at <= x
    BY <2>1, <2>2, <2>3 DEF FileLayout, RunsWhole
  <2>5. PICK i \in Int : i = q - x + c.at
    BY <1>4, <2>3
  <2>6. i \in 1 .. H + c.len /\ x - c.at + i = q /\ i < H + c.len /\ q <= Len(file)
    <3>1. PICK a \in Int, l \in Nat, h \in Nat : a = c.at /\ l = c.len /\ h = H
      BY <1>0, <2>3
    <3>2. a = h + l /\ buffer_ < q + h /\ i = q - x + a
      BY <1>4, <2>3, <2>5, <3>1
    <3>3. i \in 1 .. h + l /\ x - a + i = q /\ i < h + l
      <4>1. PICK b \in Nat : b = buffer_
        BY <1>0
      <4>2. x <= b /\ b < q + h /\ q < x
        BY <1>4, <3>2, <4>1
      <4> QED BY <1>4, <3>2, <4>2
    <3>4. q <= Len(file)
      BY <1>0, <1>4, <2>1
    <3> QED BY <3>1, <3>3, <3>4
  <2>7. file[q] = Byte(c.type, c.rec, c.from, c.len, i)
    <3>1. x - file[x].at + i = q /\ i \in 1 .. H + file[x].len /\ file[x].at >= 1
      BY <2>2, <2>3, <2>6
    <3> QED BY <2>1, <2>2, <2>6, <3>1 DEF FileLayout, RunsWhole
  <2>8. q > 0
    <3>1. x >= c.at /\ i >= 1
      BY <2>4, <2>6, <1>0, <2>3
    <3> QED BY <1>4, <2>3, <2>5, <3>1
  <2>9. IsLast(file[q])
    BY <1>3, <2>8
  <2>10. i = H + c.len
    BY <2>7, <2>9 DEF IsLast, LastByteOf, Byte, H
  <2> QED BY <1>0, <2>3, <2>6, <2>10
<1>7. x = q
  BY <1>4, <1>5, <1>6
<1> QED BY <1>1, <1>2, <1>7 DEF LastReadAt

(* The reader moves behind a fragment.                                     *)
LEMMA MovesOn ==
  ASSUME LogInv, Frozen, FileLayout, BufferAligned, NEW t, Type(t), ConsumeRecord
  PROVE  /\ BufferAligned'
         /\ \A open \in BOOLEAN :
              /\ open <=> t \in {kFirstType, kMiddleType}
              /\ (pc' = "read" /\ in_fragmented_record') <=> open
              => \E q \in 0 .. buffer_' : LastReadAt(q)'
<1>0. /\ buffer_' = NextInBuffer /\ buffer_' \in Nat /\ buffer_ \in Nat /\ buffer_ < buffer_'
      /\ buffer_' <= end_of_buffer_offset_ /\ end_of_buffer_offset_ \in Nat
      /\ end_of_buffer_offset_' = end_of_buffer_offset_ /\ eof_' = eof_
      /\ buffer_ + 1 \in DOMAIN file /\ file[buffer_ + 1].at = 1
      /\ file[buffer_ + 1].type = t /\ buffer_' \in DOMAIN file
      /\ Payload.len = file[buffer_ + 1].len
  BY Consumed
<1>1. file' = file /\ Len(file) \in Nat /\ DOMAIN file = 1 .. Len(file)
  BY FrozenFile, FileTypes DEF LogInv
<1>2. H \in Nat /\ H >= 1 /\ kBlockSize \in Nat
  BY HeaderAndBlock
<1>3. PICK p \in DOMAIN file, c \in AnyByte, b \in Nat : p = buffer_ + 1 /\ c = file[p] /\ b = buffer_'
  BY <1>0, FileTypes DEF LogInv
<1>4. c.len \in Nat /\ c.at = 1 /\ c.type = t
  BY <1>0, <1>3 DEF AnyByte
<1>5. b = buffer_ + H + c.len
  <2>1. AtPhysicalRecord
    BY DEF Type
  <2>2. NextInBuffer = buffer_ + H + Payload.len
    BY <2>1, PhysicalRecordIntact DEF LogInv
  <2> QED BY <1>0, <1>3, <2>2
<1>6. file[b] = Byte(c.type, c.rec, c.from, c.len, H + c.len)
  <2>1. PICK i \in Nat : i = H + c.len
    BY <1>2, <1>4
  <2>2. i \in 1 .. H + file[p].len /\ p - file[p].at + i = b /\ b <= Len(file) /\ file[p].at >= 1
    BY <1>0, <1>1, <1>2, <1>3, <1>4, <1>5, <2>1
  <2>3. file[p - file[p].at + i] = Byte(file[p].type, file[p].rec, file[p].from, file[p].len, i)
    BY <2>2 DEF FileLayout, RunsWhole
  <2> QED BY <1>3, <2>1, <2>2, <2>3
<1>7. IsLast(file[b]) /\ file[b].type = t
  BY <1>2, <1>4, <1>6 DEF IsLast, LastByteOf, Byte, H
<1>8. BufferAligned'
  <2>1. PICK n \in Nat, s \in Nat : n = H + c.len /\ s = BufferSize
    BY <1>2, <1>4, BufferTypes DEF LogInv
  <2>2. s = end_of_buffer_offset_ - buffer_ /\ BufferSize' = s - n /\ n >= 1 /\ n <= s /\ b = buffer_ + n
    BY <1>0, <1>2, <1>3, <1>4, <1>5, <2>1 DEF BufferSize
  <2>3. InBlock(buffer_) + s <= kBlockSize /\ InBlock(buffer_) \in Nat
    BY <1>0, <2>1, <2>2, InBlockRange DEF BufferAligned
  <2>4. CASE InBlock(buffer_) + n < kBlockSize
    <3>1. InBlock(b) = InBlock(buffer_) + n
      BY <1>0, <2>2, <2>4, InBlockMoves
    <3>2. BufferSize' > 0 => InBlock(b) + BufferSize' <= kBlockSize
      BY <1>2, <2>2, <2>3, <3>1
    <3>3. ~eof_ => InBlock(b) + BufferSize' = kBlockSize
      BY SMTT(30), <1>2, <2>1, <2>2, <2>3, <3>1 DEF BufferAligned
    <3> QED BY <1>0, <1>1, <1>3, <1>7, <3>2, <3>3 DEF BufferAligned, IsLast, LastByteOf, InBlock
  <2>5. CASE InBlock(buffer_) + n = kBlockSize
    <3>1. InBlock(b) = 0
      BY <1>0, <2>2, <2>5, InBlockMoves
    <3>2. BufferSize' = 0
      BY <1>2, <2>2, <2>3, <2>5
    <3>3. InBlock(buffer_)' = 0
      BY <1>3, <3>1 DEF InBlock
    <3>4. end_of_buffer_offset_' <= Len(file') /\ (eof_' => end_of_buffer_offset_' = Len(file'))
      BY <1>0, <1>1 DEF BufferAligned
    <3>5. ~(BufferSize' > 0)
      BY <3>2
    <3> QED BY <3>2, <3>3, <3>4, <3>5, Zenon DEF BufferAligned
  <2> QED BY <1>2, <2>2, <2>3, <2>4, <2>5
<1>9. ASSUME NEW open \in BOOLEAN, open <=> t \in {kFirstType, kMiddleType},
             (pc' = "read" /\ in_fragmented_record') <=> open
      PROVE  \E q \in 0 .. buffer_' : LastReadAt(q)'
  <2>1. b \in 0 .. buffer_' /\ b > 0 /\ b < b + H
    BY <1>0, <1>2, <1>3
  <2>2. IsLast(file'[b]) /\ (IsOpen(file'[b]) <=> open)
    BY <1>1, <1>7, <1>9 DEF IsOpen
  <2>3. LastReadAt(b)'
    BY <1>3, <1>9, <2>1, <2>2 DEF LastReadAt, IsLast, LastByteOf, IsOpen, H
  <2> QED BY <2>1, <2>3
<1> QED BY <1>8, <1>9

(* What the reader of such a log knows before each of its steps.           *)
Quiet ==
  /\ LogInv /\ FileLayout
  /\ initial_offset_ = 0 /\ ~read_error /\ ~reported /\ ~resyncing_
  /\ BufferAligned

LEMMA ReadRecordQuiet ==
  ASSUME Quiet, Frozen, ReadRecord, NEW q \in 0 .. buffer_, LastReadAt(q)
  PROVE  Untroubled'
<1>1. ~Skips
  BY DEF Quiet, LogInv, ReaderTypeOK, Skips
<1>2. /\ pc = "call" /\ pc' = "read" /\ ~in_fragmented_record' /\ buffer_' = buffer_
      /\ end_of_buffer_offset_' = end_of_buffer_offset_ /\ eof_' = eof_
      /\ resyncing_' = resyncing_ /\ reported' = reported
  BY <1>1 DEF ReadRecord
<1>3. file' = file
  BY FrozenFile DEF Quiet, LogInv
<1>4. BufferAligned'
  BY <1>2, <1>3 DEF Quiet, BufferAligned, BufferSize, InBlock, IsLast, LastByteOf
<1>5. LastReadAt(q)'
  BY <1>2, <1>3 DEF LastReadAt, BufferSize, IsLast, LastByteOf, IsOpen, H
<1> QED BY <1>2, <1>4, <1>5 DEF Quiet, Untroubled

LEMMA RefillBufferQuiet ==
  ASSUME Quiet, Frozen, RefillBuffer, NEW q \in 0 .. buffer_, LastReadAt(q)
  PROVE  Untroubled'
<1> DEFINE got == IF FileSize > end_of_buffer_offset_
                    THEN Smaller(kBlockSize, FileSize - end_of_buffer_offset_) ELSE 0
<1>1. /\ pc = "read" /\ BufferSize < H /\ ~eof_
      /\ buffer_' = end_of_buffer_offset_
      /\ end_of_buffer_offset_' = end_of_buffer_offset_ + got
      /\ eof_' = (got < kBlockSize)
      /\ UNCHANGED <<pc, resyncing_, in_fragmented_record, reported>>
  BY DEF RefillBuffer, H
<1>2. /\ buffer_ \in Nat /\ end_of_buffer_offset_ \in Nat /\ buffer_ <= end_of_buffer_offset_
      /\ BufferSize = end_of_buffer_offset_ - buffer_
  BY BufferTypes DEF Quiet, LogInv
<1>3. file' = file /\ Len(file) \in Nat /\ DOMAIN file = 1 .. Len(file)
  BY FrozenFile, FileTypes DEF Quiet, LogInv
<1>4. H \in Nat /\ H >= 1 /\ kBlockSize \in Nat /\ kBlockSize > H
  BY HeaderAndBlock
<1>5. end_of_buffer_offset_ <= Len(file)
  BY DEF Quiet, BufferAligned
<1>6. /\ got \in Nat /\ got <= kBlockSize /\ end_of_buffer_offset_ + got <= Len(file)
      /\ got < kBlockSize => end_of_buffer_offset_ + got = Len(file)
  <2>1. PICK e \in Nat, n \in Nat : e = end_of_buffer_offset_ /\ n = Len(file)
    BY <1>2, <1>3
  <2>2. e <= n /\ got = IF n > e THEN (IF kBlockSize < n - e THEN kBlockSize ELSE n - e) ELSE 0
    BY <1>5, <2>1 DEF FileSize, Smaller
  <2> HIDE DEF got
  <2>3. CASE kBlockSize < n - e
    BY <1>4, <2>1, <2>2, <2>3
  <2>4. CASE ~(kBlockSize < n - e)
    <3>1. got = n - e
      BY <1>4, <2>2, <2>4
    <3> QED BY <1>4, <2>1, <2>2, <2>4, <3>1
  <2> QED BY <2>3, <2>4
<1> HIDE DEF got
<1>7. InBlock(end_of_buffer_offset_) = 0
  <2>1. CASE BufferSize = 0 /\ InBlock(buffer_) = 0
    <3>1. buffer_ = end_of_buffer_offset_
      BY <1>2, <2>1
    <3> QED BY <2>1, <3>1
  <2>2. CASE InBlock(buffer_) + BufferSize = kBlockSize
    <3>1. PICK n \in Nat : n = BufferSize
      BY <1>2
    <3>2. InBlock(buffer_ + n) = 0 /\ buffer_ + n = end_of_buffer_offset_
      BY <1>2, <2>2, <3>1, InBlockMoves
    <3> QED BY <3>2
  <2> QED BY <1>1, <2>1, <2>2 DEF Quiet, BufferAligned
<1>8. BufferSize' = got
  BY <1>1, <1>2, <1>6 DEF BufferSize
<1>9. InBlock(buffer_)' = 0
  BY <1>1, <1>7 DEF InBlock
<1>10. BufferAligned'
  <2>1. end_of_buffer_offset_' <= Len(file')
    BY <1>1, <1>3, <1>6
  <2>2. eof_' => end_of_buffer_offset_' = Len(file')
    BY <1>1, <1>3, <1>6
  <2>3. ~eof_' => InBlock(buffer_)' + BufferSize' = kBlockSize
    <3>1. ~eof_' => ~(got < kBlockSize)
      BY <1>1
    <3> QED BY <1>4, <1>6, <1>8, <1>9, <3>1
  <2>4. InBlock(buffer_)' + BufferSize' <= kBlockSize
    BY <1>4, <1>6, <1>8, <1>9
  <2> QED BY <1>9, <2>1, <2>2, <2>3, <2>4 DEF BufferAligned
<1>11. buffer_ = q
  BY <1>1, <1>2, <1>4 DEF LastReadAt
<1>12. q \in 0 .. buffer_' /\ buffer_' < q + H
  BY <1>1, <1>2, <1>4, <1>11
<1>13. BufferSize' >= H \/ eof_'
  <2>1. CASE got < kBlockSize
    BY <1>1, <2>1
  <2>2. CASE ~(got < kBlockSize)
    BY <1>4, <1>6, <1>8, <2>2
  <2> QED BY <2>1, <2>2
<1>14. LastReadAt(q)'
  BY <1>1, <1>3, <1>12, <1>13 DEF LastReadAt, IsLast, LastByteOf, IsOpen, H
<1> QED BY <1>1, <1>10, <1>12, <1>14 DEF Quiet, Untroubled

(* Where there is a header ReadPhysicalRecord() finds it and its payload,  *)
(* unless the file ends first.                                             *)
LEMMA ReadPhysicalRecordQuiet ==
  ASSUME Quiet, Frozen, ReadPhysicalRecord, ~read_error',
         NEW q \in 0 .. buffer_, LastReadAt(q)
  PROVE  Untroubled'
<1>1. AtHeader => /\ HeaderIntact /\ ~ZeroHeader
                  /\ ~eof_ => InBuffer(Header[1].len)
                  /\ InBuffer(Header[1].len) => PayloadIntact
  BY HeaderExpected, PayloadExpected DEF Quiet, LogInv
<1>2. ASSUME ReturnEof, reported' = reported PROVE Untroubled'
  BY <1>2 DEF ReturnEof, Quiet, Untroubled
<1>3. CASE RefillBuffer
  BY <1>3, RefillBufferQuiet
<1>4. CASE ReadFails
  BY <1>4 DEF ReadFails
<1>5. CASE TruncatedHeader
  BY <1>2, <1>5 DEF TruncatedHeader
<1>6. CASE UnreadableHeader
  BY <1>1, <1>6 DEF UnreadableHeader
<1>7. CASE BadRecordLength
  BY <1>1, <1>2, <1>7 DEF BadRecordLength
<1>8. CASE ZeroRecord
  BY <1>1, <1>8 DEF ZeroRecord
<1>9. CASE ChecksumMismatch
  BY <1>1, <1>9 DEF ChecksumMismatch
<1>10. CASE SkipRecord
  <2>1. buffer_ < 0
    BY <1>10 DEF SkipRecord, Quiet
  <2> QED BY <2>1, BufferTypes DEF Quiet, LogInv
<1> QED BY <1>3, <1>4, <1>5, <1>6, <1>7, <1>8, <1>9, <1>10 DEF ReadPhysicalRecord

(* A good physical record that starts, continues or ends a record is what  *)
(* ReadRecord() waits for.                                                 *)
LEMMA FragmentQuiet ==
  ASSUME Quiet, Frozen, NEW t \in {kFullType, kFirstType, kMiddleType, kLastType},
         Type(t), ConsumeRecord, NEW q \in 0 .. buffer_, LastReadAt(q),
         (t \in {kMiddleType, kLastType} <=> in_fragmented_record)
           => /\ reported' = reported /\ resyncing_' = FALSE
              /\ pc' = "read" \/ pc' = "call"
              /\ (pc' = "read" /\ in_fragmented_record') <=> t \in {kFirstType, kMiddleType}
  PROVE  Untroubled'
<1>1. /\ pc = "read" /\ buffer_ + 1 \in DOMAIN file
      /\ file[buffer_ + 1].at = 1 /\ file[buffer_ + 1].type = t
  BY Consumed DEF Quiet
<1>2. t \in {kMiddleType, kLastType} <=> in_fragmented_record
  BY <1>1, NextFragment DEF Quiet, LogInv, IsContinuation
<1>3. /\ reported' = reported /\ resyncing_' = FALSE
      /\ (pc' = "read" /\ in_fragmented_record') <=> t \in {kFirstType, kMiddleType}
  BY <1>2
<1>4. BufferAligned' /\ \E x \in 0 .. buffer_' : LastReadAt(x)'
  <2>1. PICK open \in BOOLEAN : open <=> t \in {kFirstType, kMiddleType}
    <3>1. (t \in {kFirstType, kMiddleType}) \in BOOLEAN
      OBVIOUS
    <3> QED BY <3>1, Zenon
  <2> QED BY <1>3, <2>1, MovesOn DEF Quiet
<1> QED BY <1>3, <1>4 DEF Quiet, Untroubled

LEMMA ReadRecordLoopQuiet ==
  ASSUME Quiet, Frozen, NEW q \in 0 .. buffer_, LastReadAt(q),
         ResyncSkip \/ FullRecord \/ FirstRecord \/ MissingStart \/ MiddleRecord \/ LastRecord
  PROVE  Untroubled'
<1> USE DEF kFullType, kFirstType, kMiddleType, kLastType
<1>1. ~resyncing_ /\ resyncing_ \in BOOLEAN
  BY DEF Quiet, LogInv, ReaderTypeOK
<1>2. CASE FullRecord
  <2>1. Type(kFullType) /\ ConsumeRecord
    BY <1>2 DEF FullRecord
  <2>2. ~in_fragmented_record => reported' = reported
    BY <1>2 DEF FullRecord, ReportUnfinished, Quiet, LogInv, ReaderTypeOK
  <2>3. resyncing_' = FALSE /\ pc' = "call"
    BY <1>2 DEF FullRecord, Return
  <2>4. PICK t \in {kFullType, kFirstType, kMiddleType, kLastType} : t = kFullType
    OBVIOUS
  <2>5. t \notin {kMiddleType, kLastType} /\ t \notin {kFirstType, kMiddleType}
    BY <2>4
  <2>6. Type(t)
    BY <2>1, <2>4
  <2> QED BY <2>1, <2>2, <2>3, <2>5, <2>6, FragmentQuiet
<1>3. CASE FirstRecord
  <2>1. Type(kFirstType) /\ ConsumeRecord
    BY <1>3 DEF FirstRecord
  <2>2. ~in_fragmented_record => reported' = reported
    BY <1>3 DEF FirstRecord, ReportUnfinished, Quiet, LogInv, ReaderTypeOK
  <2>3. resyncing_' = FALSE /\ pc' = "read" /\ in_fragmented_record'
    BY <1>3 DEF FirstRecord, Type, AtPhysicalRecord, AtHeader
  <2>4. PICK t \in {kFullType, kFirstType, kMiddleType, kLastType} : t = kFirstType
    OBVIOUS
  <2>5. t \notin {kMiddleType, kLastType} /\ t \in {kFirstType, kMiddleType}
    BY <2>4
  <2>6. Type(t)
    BY <2>1, <2>4
  <2> QED BY <2>1, <2>2, <2>3, <2>5, <2>6, FragmentQuiet
<1>4. CASE MissingStart
  <2>1. PICK t \in {kMiddleType, kLastType} : Type(t)
    BY <1>4 DEF MissingStart
  <2>2. ConsumeRecord /\ ~in_fragmented_record
    BY <1>4 DEF MissingStart
  <2> QED BY <2>1, <2>2, FragmentQuiet
<1>5. CASE MiddleRecord
  <2>1. /\ Type(kMiddleType) /\ ConsumeRecord /\ resyncing_' = FALSE /\ reported' = reported
        /\ pc' = "read" /\ in_fragmented_record'
    BY <1>1, <1>5 DEF MiddleRecord, Type, AtPhysicalRecord, AtHeader
  <2> QED BY <2>1, FragmentQuiet
<1>6. CASE LastRecord
  <2>1. /\ Type(kLastType) /\ ConsumeRecord /\ resyncing_' = FALSE /\ reported' = reported
        /\ pc' = "call"
    BY <1>1, <1>6 DEF LastRecord, Return
  <2>2. PICK t \in {kFullType, kFirstType, kMiddleType, kLastType} : t = kLastType
    OBVIOUS
  <2>3. t \in {kMiddleType, kLastType} /\ t \notin {kFirstType, kMiddleType}
    BY <2>2
  <2>4. Type(t)
    BY <2>1, <2>2
  <2> QED BY <2>1, <2>3, <2>4, FragmentQuiet
<1>7. CASE ResyncSkip
  BY <1>1, <1>7 DEF ResyncSkip
<1> QED BY <1>2, <1>3, <1>4, <1>5, <1>6, <1>7

LEMMA FrozenLayout ==
  ASSUME LogInv, Layout, Frozen
  PROVE  Layout' /\ damaged' = damaged
<1>1. /\ file' = file /\ block_offset_' = block_offset_ /\ adding' = adding /\ begin' = begin
      /\ alive' = alive /\ damaged' = damaged
  BY DEF Frozen, writerVars
<1>2. FileLayout => FileLayout'
  BY <1>1, FileLayoutStays DEF LogInv
<1>3. EndWhole => EndWhole'
  BY <1>1 DEF EndWhole, IsLast, LastByteOf, IsOpen
<1>4. OffsetAgrees => OffsetAgrees'
  BY <1>1 DEF OffsetAgrees, InBlock
<1> QED BY <1>1, <1>2, <1>3, <1>4 DEF Layout, FileLayout

(* The reader's pc, and what no step of it changes back.                   *)
LEMMA ReaderRuns ==
  ASSUME ReaderNext
  PROVE  /\ pc \in {"call", "read"} /\ pc' # "off" /\ initial_offset_' = initial_offset_
         /\ read_error => read_error'
<1> USE DEF Type, AtPhysicalRecord, AtHeader
<1>1. CASE ReadRecord \/ SkipFails
  BY <1>1 DEF ReadRecord, SkipFails
<1>2. CASE ReadPhysicalRecord
  <2>1. ASSUME ReturnEof, pc = "read", read_error => read_error'
        PROVE  /\ pc \in {"call", "read"} /\ pc' # "off" /\ initial_offset_' = initial_offset_
               /\ read_error => read_error'
    BY <2>1 DEF ReturnEof
  <2>2. ASSUME NEW b, NEW r, DropBadRecord(b, r), pc = "read"
        PROVE  /\ pc \in {"call", "read"} /\ pc' # "off" /\ initial_offset_' = initial_offset_
               /\ read_error => read_error'
    BY <2>2 DEF DropBadRecord
  <2>3. CASE RefillBuffer
    BY <2>3 DEF RefillBuffer
  <2>4. CASE ReadFails \/ TruncatedHeader
    BY <2>1, <2>4 DEF ReadFails, TruncatedHeader
  <2>5. CASE UnreadableHeader \/ BadRecordLength
    BY <2>1, <2>2, <2>5 DEF UnreadableHeader, BadRecordLength
  <2>6. CASE ZeroRecord \/ ChecksumMismatch \/ SkipRecord
    BY <2>2, <2>6 DEF ZeroRecord, ChecksumMismatch, SkipRecord
  <2> QED BY <1>2, <2>3, <2>4, <2>5, <2>6 DEF ReadPhysicalRecord
<1>3. CASE ResyncSkip \/ FullRecord \/ FirstRecord \/ MissingStart \/ MiddleRecord \/ LastRecord
  BY <1>3 DEF ResyncSkip, FullRecord, FirstRecord, MissingStart, MiddleRecord, LastRecord,
              ConsumeRecord, Return
<1> QED BY <1>1, <1>2, <1>3 DEF ReaderNext

LEMMA ReadingAlarm ==
  ASSUME AlarmInv, Reading
  PROVE  AlarmInv'
<1>1. Frozen /\ ReaderNext
  BY DEF Reading, Frozen
<1>2. LogInv' /\ Layout' /\ damaged' = damaged
  BY <1>1, ReadingStep, FrozenLayout DEF AlarmInv
<1>3. /\ pc \in {"call", "read"} /\ pc' # "off" /\ initial_offset_' = initial_offset_
      /\ read_error => read_error'
  BY <1>1, ReaderRuns
<1>4. ReaderOff'
  BY <1>3 DEF ReaderOff
<1>5. ASSUME initial_offset_' = 0, ~damaged', ~read_error' PROVE Untroubled'
  <2>1. initial_offset_ = 0 /\ ~damaged /\ ~read_error
    BY <1>2, <1>3, <1>5
  <2>2. Untroubled
    BY <2>1 DEF AlarmInv, NoAlarmYet
  <2>3. PICK q \in 0 .. buffer_ : LastReadAt(q)
    BY <1>3, <2>2 DEF Untroubled
  <2>4. Quiet
    BY <1>3, <2>1, <2>2 DEF AlarmInv, Layout, FileLayout, Untroubled, Quiet
  <2>5. ~SkipFails
    BY <1>5 DEF SkipFails
  <2> QED BY <1>1, <1>5, <2>3, <2>4, <2>5, ReadRecordQuiet, ReadPhysicalRecordQuiet,
             ReadRecordLoopQuiet DEF ReaderNext
<1> QED BY <1>2, <1>4, <1>5 DEF AlarmInv, NoAlarmYet

(* A reader that has not read yet.                                         *)
Fresh ==
  /\ pc # "read" /\ buffer_ = 0 /\ end_of_buffer_offset_ = 0
  /\ ~eof_ /\ ~resyncing_ /\ ~reported

LEMMA FreshReader ==
  FileInv /\ Fresh => Untroubled
<1> SUFFICES ASSUME FileInv, Fresh PROVE Untroubled
  OBVIOUS
<1> USE DEF Fresh
<1>0. H \in Nat /\ H >= 1 /\ kBlockSize \in Nat /\ Len(file) \in Nat
  BY HeaderAndBlock, FileTypes
<1>1. BufferSize = 0 /\ InBlock(0) = 0
  BY InBlockRange DEF BufferSize
<1>2. BufferAligned
  BY <1>0, <1>1 DEF BufferAligned
<1>3. 0 \in 0 .. buffer_ /\ LastReadAt(0)
  BY <1>0 DEF LastReadAt
<1> QED BY <1>2, <1>3 DEF Untroubled

LEMMA AlarmStep ==
  ASSUME AlarmInv, [Next]_vars
  PROVE  AlarmInv'
<1>0. LogInv' /\ FileInv'
  BY LogStep DEF AlarmInv, LogInv
<1>1. CASE Writing
  <2>1. pc = "off" /\ WriterNext /\ UNCHANGED readerVars
    BY <1>1 DEF Writing
  <2>2. /\ pc' = "off" /\ buffer_' = 0 /\ end_of_buffer_offset_' = 0 /\ ~eof_' /\ ~resyncing_'
        /\ ~reported' /\ ~in_fragmented_record'
    BY <2>1 DEF AlarmInv, ReaderOff, readerVars
  <2>3. Layout'
    BY <2>1, WriterLayout DEF AlarmInv, LogInv
  <2>4. Untroubled'
    <3>1. (FileInv /\ Fresh => Untroubled)'
      BY FreshReader, PTL
    <3> QED BY <1>0, <2>2, <3>1 DEF Fresh
  <2> QED BY <1>0, <2>2, <2>3, <2>4 DEF AlarmInv, NoAlarmYet, ReaderOff
<1>2. CASE StartReading
  <2>1. Frozen /\ \E offset \in Offset : Open(offset)
    BY <1>2 DEF StartReading, Frozen
  <2>2. /\ pc' = "call" /\ buffer_' = 0 /\ end_of_buffer_offset_' = 0 /\ ~eof_' /\ ~reported'
    BY <2>1 DEF Open, AlarmInv, ReaderOff
  <2>3. initial_offset_' = 0 => ~resyncing_'
    <3>1. PICK offset \in Offset : initial_offset_' = offset /\ resyncing_' = (offset > 0)
      BY <2>1 DEF Open
    <3>2. offset = 0 => ~(offset > 0)
      OBVIOUS
    <3> QED BY <3>1, <3>2, Zenon
  <2>4. initial_offset_' = 0 => Untroubled'
    <3>1. (FileInv /\ Fresh => Untroubled)'
      BY FreshReader, PTL
    <3> QED BY <1>0, <2>2, <2>3, <3>1 DEF Fresh
  <2> QED BY <1>0, <2>1, <2>2, <2>4, FrozenLayout DEF AlarmInv, NoAlarmYet, ReaderOff
<1>3. CASE Reading
  BY <1>3, ReadingAlarm
<1>4. CASE UNCHANGED vars
  <2>1. Frozen /\ UNCHANGED readerVars /\ file' = file /\ damaged' = damaged
    BY <1>4 DEF vars, Frozen, writerVars
  <2>2. Layout' /\ ReaderOff'
    BY <2>1, FrozenLayout DEF AlarmInv, ReaderOff, readerVars
  <2>3. BufferAligned => BufferAligned'
    BY <2>1 DEF BufferAligned, BufferSize, InBlock, IsLast, LastByteOf, readerVars
  <2>4. \A q : LastReadAt(q) => LastReadAt(q)'
    BY <2>1 DEF LastReadAt, BufferSize, IsLast, LastByteOf, IsOpen, H, readerVars
  <2>5. Untroubled => Untroubled'
    BY <2>1, <2>3, <2>4 DEF Untroubled, readerVars
  <2> QED BY <1>0, <2>1, <2>2, <2>5 DEF AlarmInv, NoAlarmYet, readerVars
<1> QED BY <1>1, <1>2, <1>3, <1>4 DEF Next, Terminated

LEMMA InitialAlarm ==
  ASSUME Init
  PROVE  AlarmInv
<1>1. LogInv /\ FileInv
  BY InitialLog DEF LogInv
<1>2. /\ pc = "off" /\ buffer_ = 0 /\ end_of_buffer_offset_ = 0 /\ ~eof_ /\ ~resyncing_
      /\ ~reported /\ ~in_fragmented_record
  BY DEF Init, ReaderInit
<1>3. file = <<>> /\ block_offset_ = 0 /\ ~adding
  BY DEF Init, WriterInit
<1>4. Len(file) = 0 /\ DOMAIN file = {} /\ 0 .. Len(file) - 1 = {}
  BY <1>3
<1>5. FileLayout
  BY <1>4 DEF FileLayout, RunsWhole, FitsBlock, NextStarts, FragmentsFollow
<1>6. EndWhole /\ OffsetAgrees
  BY <1>3, <1>4, InBlockRange DEF EndWhole, OffsetAgrees
<1>7. Layout
  BY <1>5, <1>6 DEF Layout, FileLayout
<1>8. Untroubled
  BY <1>1, <1>2, FreshReader DEF Fresh
<1> QED BY <1>1, <1>2, <1>7, <1>8 DEF AlarmInv, ReaderOff, NoAlarmYet

(* A log whose writer finished every record, or died in the middle of one  *)
(* and was not reopened, is read from its start without a report of        *)
(* corruption: a torn tail is the end of the file and nothing else         *)
(* (log_test.cpp:385-490, ReadPhysicalRecord() of log_reader.cpp).         *)
THEOREM NoFalseAlarms == Spec => []NoFalseAlarm
<1>1. Init => AlarmInv
  BY InitialAlarm
<1>2. AlarmInv /\ [Next]_vars => AlarmInv'
  BY AlarmStep
<1>3. AlarmInv => NoFalseAlarm
  BY DEF AlarmInv, NoAlarmYet, Untroubled, NoFalseAlarm
<1> QED BY <1>1, <1>2, <1>3, PTL DEF Spec

-----------------------------------------------------------------------------
(* Damage is confined to its blocks.  In a well-formed block a fragment    *)
(* that starts is whole and the next one starts behind it, so a reader     *)
(* that enters the block at its beginning meets every fragment in it.      *)

LEMMA LeastNatural ==
  ASSUME NEW S \in SUBSET Nat, S # {}
  PROVE  \E k \in S : \A j \in S : k <= j
<1> DEFINE Lt == {ss \in Nat \X Nat : ss[1] < ss[2]}
<1>1. IsWellFoundedOn(Lt, Nat)
  BY NatLessThanWellFounded, Zenon DEF OpToRel
<1>2. \A j, k \in Nat : <<j, k>> \in Lt <=> j < k
  OBVIOUS
<1> HIDE DEF Lt
<1>3. PICK k \in S : \A j \in S : ~(<<j, k>> \in Lt)
  BY <1>1, WFMin
<1>4. \A j \in S : j \in Nat /\ k \in Nat /\ ~(j < k)
  BY <1>2, <1>3
<1>5. \A j \in S : k <= j
  BY <1>4
<1> QED BY <1>5

(* Block b is the offsets from B to B + kBlockSize - 1.                    *)
BlockStart(b) == kBlockSize * b

LEMMA BlockRange ==
  ASSUME NEW x \in Nat, NEW b \in Nat
  PROVE  /\ BlockStart(b) \in Nat
         /\ BlockOf(x) \in Nat
         /\ BlockOf(x) = b <=> (BlockStart(b) <= x /\ x < BlockStart(b) + kBlockSize)
         /\ BlockOf(x) = b => InBlock(x) = x - BlockStart(b)
         /\ x < BlockStart(b) + kBlockSize => BlockOf(x) <= b
         /\ BlockStart(b) <= x => b <= BlockOf(x)
<1> USE DEF BlockStart
<1>1. PICK k \in Nat \ {0} : k = kBlockSize
  BY HeaderAndBlock
<1>2. PICK q \in Nat, r \in 0 .. k - 1 : q = x \div k /\ r = x % k
  BY Remainder
<1>3. x = (k * q) + r
  BY <1>2, Remainder
<1>4. k * b \in Nat /\ k * q \in Nat
  OBVIOUS
<1>5. CASE q = b
  BY <1>1, <1>2, <1>3, <1>4, <1>5 DEF BlockOf, InBlock
<1>6. CASE q < b
  <2>1. PICK d \in Nat : b = q + 1 + d
    <3>1. b - q - 1 \in Nat /\ b = q + 1 + (b - q - 1)
      BY <1>6
    <3> QED BY <3>1
  <2>2. k * b = (k * q) + k + (k * d) /\ k * d \in Nat
    BY <2>1
  <2>3. x < k * b
    BY <1>2, <1>3, <1>4, <2>2
  <2> QED BY <1>1, <1>2, <1>3, <1>4, <1>6, <2>3 DEF BlockOf, InBlock
<1>7. CASE b < q
  <2>1. PICK d \in Nat : q = b + 1 + d
    <3>1. q - b - 1 \in Nat /\ q = b + 1 + (q - b - 1)
      BY <1>7
    <3> QED BY <3>1
  <2>2. k * q = (k * b) + k + (k * d) /\ k * d \in Nat
    BY <2>1
  <2>3. x >= k * b + k
    BY <1>2, <1>3, <1>4, <2>2
  <2> QED BY <1>1, <1>2, <1>3, <1>4, <1>7, <2>3 DEF BlockOf, InBlock
<1> QED BY <1>5, <1>6, <1>7

(* What WellFormed says of a byte, with B the block's first offset.        *)
LEMMA WellFormedByte ==
  ASSUME FileInv, NEW b \in Nat, WellFormed(b), NEW B \in Nat, B = BlockStart(b),
         NEW p \in DOMAIN file, B < p, p <= B + kBlockSize
  PROVE  /\ file[p] = ZeroByte \/ file[p].at >= 1
         /\ file[p].at > 1 => p - 1 > B /\ file[p - 1] = [file[p] EXCEPT !.at = @ - 1]
         /\ file[p].at = 1 /\ p - 1 > B => file[p - 1] # ZeroByte /\ LastByteOf(file[p - 1])
         /\ file[p] = ZeroByte =>
              /\ p - 1 - B > kBlockSize - H
              /\ file[p - 1] = ZeroByte \/ LastByteOf(file[p - 1])
         /\ p = B + kBlockSize => file[p] = ZeroByte \/ LastByteOf(file[p])
<1>0. /\ kBlockSize \in Nat /\ Len(file) \in Nat /\ DOMAIN file = 1 .. Len(file) /\ p \in Nat
      /\ p >= 1 /\ p <= Len(file) /\ file[p] \in AnyByte /\ H = kHeaderSize /\ H \in Nat /\ H < kBlockSize
  BY HeaderAndBlock, FileTypes
<1> DEFINE inB == {x \in 1 .. Len(file) : BlockOf(x - 1) = b}
<1>1. \A x \in 1 .. Len(file) : x \in inB <=> (B < x /\ x <= B + kBlockSize)
  <2> TAKE x \in 1 .. Len(file)
  <2>1. x - 1 \in Nat /\ x \in Nat
    BY <1>0
  <2>2. BlockOf(x - 1) = b <=> (B <= x - 1 /\ x - 1 < B + kBlockSize)
    BY <2>1, BlockRange
  <2> QED BY <1>0, <2>1, <2>2
<1>2. p \in inB
  BY <1>0, <1>1
<1>3. InBlock(p - 1) = p - 1 - B
  <2>1. p - 1 \in Nat /\ BlockOf(p - 1) = b
    BY <1>0, <1>2
  <2> QED BY <2>1, BlockRange
<1>4. p - 1 \in inB <=> p - 1 > B
  <2>1. CASE p - 1 \in 1 .. Len(file)
    BY <1>0, <1>1, <2>1
  <2>2. CASE p - 1 \notin 1 .. Len(file)
    <3>1. p - 1 = 0
      BY <1>0, <2>2
    <3> QED BY <2>2, <3>1
  <2> QED BY <2>1, <2>2
<1>5. /\ file[p] # BadByte
      /\ file[p].at > 1 => p - 1 \in inB /\ file[p - 1] = [file[p] EXCEPT !.at = @ - 1]
      /\ file[p].at = 1 /\ p - 1 \in inB => file[p - 1] # ZeroByte /\ LastByteOf(file[p - 1])
      /\ file[p] = ZeroByte =>
           /\ InBlock(p - 1) > kBlockSize - kHeaderSize
           /\ file[p - 1] = ZeroByte \/ LastByteOf(file[p - 1])
      /\ InBlock(p - 1) = kBlockSize - 1 => file[p] = ZeroByte \/ LastByteOf(file[p])
  BY <1>2 DEF WellFormed
<1> HIDE DEF inB
<1>6. file[p] = ZeroByte \/ file[p].at >= 1
  <2>1. file[p] \in NoRecord \/ FragmentByte(file[p])
    BY DEF FileInv, BytesRight
  <2> QED BY <1>0, <1>5, <2>1, FragmentStart DEF NoRecord
<1>7. p = B + kBlockSize => InBlock(p - 1) = kBlockSize - 1
  BY <1>0, <1>3
<1> QED BY <1>0, <1>3, <1>4, <1>5, <1>6, <1>7

(* From the start of a fragment on, its bytes follow each other as far as  *)
(* the block and the file reach.                                           *)
LEMMA RunForward ==
  ASSUME FileInv, NEW b \in Nat, WellFormed(b), NEW B \in Nat, B = BlockStart(b),
         NEW s \in DOMAIN file, B < s, file[s].at = 1,
         NEW c \in AnyByte, c = file[s],
         NEW i \in 1 .. H + c.len, s - 1 + i <= B + kBlockSize, s - 1 + i <= Len(file)
  PROVE  file[s - 1 + i] = Byte(c.type, c.rec, c.from, c.len, i)
<1>0. /\ kBlockSize \in Nat /\ Len(file) \in Nat /\ DOMAIN file = 1 .. Len(file) /\ s \in Nat
      /\ H \in Nat /\ c.len \in Nat /\ s >= 1 /\ s <= Len(file)
  BY HeaderAndBlock, FileTypes DEF AnyByte
<1> DEFINE S == {j \in Nat : /\ 1 <= j /\ j <= i
                             /\ file[s - 1 + j] # Byte(c.type, c.rec, c.from, c.len, j)}
<1> SUFFICES ASSUME i \in S PROVE FALSE
  BY <1>0
<1>1. PICK j \in S : \A x \in S : j <= x
  <2>1. S \in SUBSET Nat /\ S # {}
    OBVIOUS
  <2> HIDE DEF S
  <2> QED BY <2>1, LeastNatural
<1>2. /\ j \in Nat /\ 1 <= j /\ j <= i
      /\ file[s - 1 + j] # Byte(c.type, c.rec, c.from, c.len, j)
  BY <1>1
<1>3. j # 1
  <2>1. Byte(c.type, c.rec, c.from, c.len, 1) = c
    BY DEF Byte, AnyByte
  <2>2. s - 1 + 1 = s
    BY <1>0
  <2> QED BY <1>2, <2>1, <2>2
<1>4. PICK l \in Nat : j = l + 1
  <2>1. j - 1 \in Nat /\ j = (j - 1) + 1
    BY <1>2, <1>3
  <2> QED BY <2>1
<1>5. l >= 1 /\ l <= i /\ l < H + c.len
  BY <1>0, <1>2, <1>3, <1>4
<1>6. l \notin S
  BY <1>1, <1>4
<1>7. file[s - 1 + l] = Byte(c.type, c.rec, c.from, c.len, l)
  BY <1>5, <1>6
<1> HIDE DEF S
<1>8. PICK p \in DOMAIN file : p = s - 1 + j
  BY <1>0, <1>2
<1>9. B < p /\ p <= B + kBlockSize /\ p - 1 = s - 1 + l /\ p - 1 > B
  <2>1. PICK k \in Nat, x \in Nat : k = kBlockSize /\ x = i
    BY <1>0
  <2>2. s - 1 + x <= B + k /\ j <= x /\ p = s - 1 + j
    BY <1>2, <1>8, <2>1
  <2>3. B < p /\ p <= B + k /\ p - 1 = s - 1 + l /\ p - 1 > B
    <3>1. B < s /\ s \in Nat /\ l >= 1
      BY <1>0, <1>5
    <3>2. p <= B + k
      BY SMTT(30), <1>2, <2>2, <3>1
    <3>3. p = s + l
      BY <1>4, <2>2, <3>1
    <3>4. B < p /\ p - 1 > B
      BY <3>1, <3>3
    <3>5. p - 1 = s - 1 + l
      BY <3>1, <3>3
    <3> QED BY <3>2, <3>4, <3>5
  <2> QED BY <2>1, <2>3
<1>10. PICK d \in AnyByte : d = file[p]
  BY FileTypes
<1>11. PICK e \in AnyByte : e = Byte(c.type, c.rec, c.from, c.len, l)
  <2>1. c.type \in 0 .. 4 /\ c.rec \in Nat /\ c.from \in Nat /\ c.len \in Nat /\ l \in Int
    BY DEF AnyByte
  <2> QED BY <2>1, BytesAreBytes
<1>12. e # ZeroByte /\ ~LastByteOf(e) /\ file[p - 1] = e /\ e.at = l
  <2>1. file[p - 1] = e
    BY <1>7, <1>9, <1>11
  <2>2. e.at = l /\ e.len = c.len
    BY <1>11 DEF Byte
  <2>3. l # H + c.len /\ l # 0
    BY SMTT(30), <1>0, <1>5
  <2> QED BY <2>1, <2>2, <2>3 DEF LastByteOf, ZeroByte, Byte, H
<1>13. d = ZeroByte \/ d.at >= 1
  BY <1>9, <1>10, WellFormedByte
<1>14. d # ZeroByte /\ d.at # 1
  BY <1>9, <1>10, <1>12, WellFormedByte
<1>15. d.at > 1
  <2>1. d.at \in Int
    BY DEF AnyByte
  <2> QED BY <1>13, <1>14, <2>1
<1>16. e = [d EXCEPT !.at = @ - 1]
  BY <1>9, <1>10, <1>12, <1>15, WellFormedByte
<1>17. /\ d.type = c.type /\ d.rec = c.rec /\ d.from = c.from /\ d.len = c.len
       /\ d.at - 1 = l
  BY SMTT(30), <1>11, <1>12, <1>16 DEF AnyByte, Byte
<1>18. d.at = j
  <2>1. PICK a \in Int : a = d.at
    BY DEF AnyByte
  <2>2. a - 1 = l
    BY <1>17, <2>1
  <2> QED BY <1>4, <2>1, <2>2
<1>19. d = Byte(c.type, c.rec, c.from, c.len, j)
  BY <1>17, <1>18 DEF AnyByte, Byte
<1> QED BY <1>2, <1>8, <1>10, <1>19

(* Behind a zero there are only zeros in a block.                          *)
LEMMA ZerosStay ==
  ASSUME FileInv, NEW b \in Nat, WellFormed(b), NEW B \in Nat, B = BlockStart(b),
         NEW x \in DOMAIN file, B < x, file[x] = ZeroByte,
         NEW y \in DOMAIN file, x <= y, y <= B + kBlockSize
  PROVE  file[y] = ZeroByte
<1>0. /\ kBlockSize \in Nat /\ Len(file) \in Nat /\ DOMAIN file = 1 .. Len(file)
      /\ x \in Nat /\ y \in Nat /\ x >= 1 /\ y <= Len(file)
  BY HeaderAndBlock, FileTypes
<1> DEFINE S == {j \in Nat : x <= j /\ j <= y /\ file[j] # ZeroByte}
<1> SUFFICES ASSUME y \in S PROVE FALSE
  BY <1>0
<1>1. PICK j \in S : \A z \in S : j <= z
  <2>1. S \in SUBSET Nat /\ S # {}
    OBVIOUS
  <2> HIDE DEF S
  <2> QED BY <2>1, LeastNatural
<1>2. j \in Nat /\ x <= j /\ j <= y /\ file[j] # ZeroByte
  BY <1>1
<1>3. j # x
  BY <1>2
<1>4. PICK l \in Nat : j = l + 1
  <2>1. j - 1 \in Nat /\ j = (j - 1) + 1
    BY <1>0, <1>2
  <2> QED BY <2>1
<1>5. x <= l /\ l <= y
  BY <1>0, <1>2, <1>3, <1>4
<1>6. file[l] = ZeroByte
  BY <1>1, <1>4, <1>5
<1> HIDE DEF S
<1>7. j \in DOMAIN file /\ B < j /\ j <= B + kBlockSize /\ j - 1 = l /\ j - 1 > B
  BY <1>0, <1>2, <1>4, <1>5
<1>8. PICK d \in AnyByte : d = file[j]
  BY <1>7, FileTypes
<1>9. d.at > 1
  <2>1. file[j].at >= 1
    BY <1>2, <1>7, WellFormedByte
  <2>2. file[j].at # 1
    BY <1>6, <1>7, WellFormedByte
  <2> QED BY <1>8, <2>1, <2>2 DEF AnyByte
<1>10. ZeroByte = [d EXCEPT !.at = @ - 1]
  BY <1>6, <1>7, <1>8, <1>9, WellFormedByte
<1>11. d.at - 1 = 0
  BY <1>10 DEF ZeroByte, Byte, AnyByte
<1> QED BY <1>9, <1>11 DEF AnyByte

(* A fragment that starts in a well-formed block, with the end of one      *)
(* somewhere behind it, is whole.                                          *)
LEMMA WholeRun ==
  ASSUME FileInv, NEW b \in Nat, WellFormed(b), NEW B \in Nat, B = BlockStart(b),
         NEW s \in DOMAIN file, B < s, s <= B + kBlockSize, file[s].at = 1,
         NEW q \in DOMAIN file, s <= q, IsLast(file[q])
  PROVE  /\ s - 1 + H + file[s].len <= q
         /\ s - 1 + H + file[s].len <= B + kBlockSize
         /\ \A i \in 1 .. H + file[s].len :
              file[s - 1 + i] = Byte(file[s].type, file[s].rec, file[s].from, file[s].len, i)
<1>0. /\ Len(file) \in Nat /\ DOMAIN file = 1 .. Len(file) /\ s \in Nat /\ q \in Nat
      /\ s >= 1 /\ q <= Len(file)
  BY FileTypes
<1>1. PICK c \in AnyByte, n \in Nat, k \in Nat, e \in Nat :
        c = file[s] /\ n = H + c.len /\ k = kBlockSize /\ e = B + k
  <2>1. PICK c \in AnyByte : c = file[s]
    BY FileTypes
  <2>2. H + c.len \in Nat /\ kBlockSize \in Nat
    BY HeaderAndBlock DEF AnyByte
  <2> QED BY <2>1, <2>2
<1>2. c.at = 1 /\ s <= e /\ B < s /\ n >= 1
  BY <1>1, HeaderAndBlock DEF AnyByte
<1>3. \A i \in 1 .. n : s - 1 + i <= e /\ s - 1 + i <= Len(file) =>
        file[s - 1 + i] = Byte(c.type, c.rec, c.from, c.len, i)
  BY SMTT(30), <1>1, <1>2, RunForward
<1>4. ASSUME NEW x \in DOMAIN file, s <= x, x <= e, x < s - 1 + n
      PROVE  file[x] # ZeroByte /\ ~LastByteOf(file[x])
  <2>1. PICK i \in Nat : i = x - s + 1
    BY <1>0, <1>4
  <2>2. i \in 1 .. n /\ s - 1 + i = x /\ x <= Len(file) /\ i < n
    <3>1. x \in Nat /\ x <= Len(file)
      BY <1>0
    <3>2. i >= 1 /\ i < n /\ s - 1 + i = x
      BY <1>0, <1>4, <2>1, <3>1
    <3> QED BY <3>1, <3>2
  <2>3. file[x] = Byte(c.type, c.rec, c.from, c.len, i)
    BY <1>3, <1>4, <2>2
  <2>4. i # H + c.len /\ i # 0
    BY <1>1, <2>2
  <2> QED BY <2>3, <2>4 DEF LastByteOf, ZeroByte, Byte, H
<1>5. ~(e < s - 1 + n /\ e <= q)
  <2> SUFFICES ASSUME e < s - 1 + n, e <= q PROVE FALSE
    OBVIOUS
  <2>1. e \in DOMAIN file /\ B < e /\ e <= e /\ s <= e
    BY <1>0, <1>2
  <2>2. file[e] # ZeroByte /\ ~LastByteOf(file[e])
    BY <1>4, <2>1
  <2>3. file[e] = ZeroByte \/ LastByteOf(file[e])
    BY <1>1, <2>1, WellFormedByte
  <2> QED BY <2>2, <2>3
<1>6. s - 1 + n <= q
  <2> SUFFICES ASSUME q < s - 1 + n PROVE FALSE
    BY <1>0
  <2>1. CASE q <= e
    BY <1>4, <2>1 DEF IsLast
  <2>2. CASE e < q
    BY <1>0, <1>5, <2>2
  <2> QED BY <1>0, <2>1, <2>2
<1>7. s - 1 + n <= e
  BY <1>0, <1>5, <1>6
<1>8. \A i \in 1 .. n : file[s - 1 + i] = Byte(c.type, c.rec, c.from, c.len, i)
  <2> TAKE i \in 1 .. n
  <2>1. s - 1 + i <= e /\ s - 1 + i <= Len(file)
    BY <1>0, <1>6, <1>7
  <2> QED BY <1>3, <2>1
<1>9. PICK l \in Nat, h \in Nat : l = c.len /\ h = H
  BY HeaderAndBlock DEF AnyByte
<1>10. s - 1 + h + l <= q /\ s - 1 + h + l <= e
  <2>1. n = h + l
    BY <1>1, <1>9
  <2> QED BY <1>0, <1>6, <1>7, <2>1
<1> QED BY <1>1, <1>8, <1>9, <1>10

(* The fragment that ends at offset x, or nothing yet, is in block b.      *)
FragmentEnd(x, b) ==
  \/ x = BlockStart(b)
  \/ x > BlockStart(b) /\ x \in DOMAIN file /\ IsLast(file[x])

LEMMA BehindFragment ==
  ASSUME FileInv, NEW b \in Nat, WellFormed(b), NEW B \in Nat, B = BlockStart(b),
         NEW x \in Nat, B <= x, x < B + kBlockSize, x + 1 \in DOMAIN file, FragmentEnd(x, b)
  PROVE  \/ file[x + 1].at = 1
         \/ file[x + 1] = ZeroByte /\ x - B > kBlockSize - H
<1>1. PICK p \in DOMAIN file, c \in AnyByte, k \in Nat : p = x + 1 /\ c = file[p] /\ k = kBlockSize
  BY FileTypes, HeaderAndBlock
<1>2. p \in Nat /\ B < p /\ p <= B + kBlockSize /\ p - 1 = x
  BY <1>1
<1>3. c = ZeroByte \/ c.at >= 1
  BY <1>1, <1>2, WellFormedByte
<1>4. CASE c = ZeroByte
  BY <1>1, <1>2, <1>4, WellFormedByte
<1>5. CASE c.at > 1
  <2>1. x > B /\ file[x] = [c EXCEPT !.at = @ - 1]
    BY <1>1, <1>2, <1>5, WellFormedByte
  <2>2. IsLast(file[x])
    BY <2>1 DEF FragmentEnd
  <2>3. file[x].at = c.at - 1 /\ file[x].len = c.len
    BY <2>1 DEF AnyByte
  <2>4. c.at - 1 = H + c.len
    BY <2>2, <2>3 DEF IsLast, LastByteOf, H
  <2>5. c.at <= H + c.len
    <3>1. c \in NoRecord \/ FragmentByte(c)
      BY <1>1 DEF FileInv, BytesRight
    <3>2. c \notin NoRecord
      BY <1>5 DEF NoRecord, ZeroByte, BadByte, Byte
    <3> QED BY <3>1, <3>2 DEF FragmentByte
  <2> QED BY <2>4, <2>5, HeaderAndBlock DEF AnyByte
<1>6. CASE c.at = 1
  BY <1>1, <1>6
<1> QED BY <1>3, <1>4, <1>5, <1>6 DEF AnyByte

(* A reader behind a fragment in a well-formed block, and before the end   *)
(* of one: either the next fragment is there and whole, or nothing more is *)
(* in this block.                                                          *)
LEMMA FragmentAhead ==
  ASSUME FileInv, NEW b \in Nat, WellFormed(b), NEW B \in Nat, B = BlockStart(b),
         NEW x \in Nat, B <= x, FragmentEnd(x, b),
         NEW q \in DOMAIN file, x < q, IsLast(file[q])
  PROVE  /\ x + H <= B + kBlockSize =>
              /\ x + 1 \in DOMAIN file /\ file[x + 1].at = 1
              /\ x + H + file[x + 1].len <= q /\ x + H + file[x + 1].len <= B + kBlockSize
              /\ \A i \in 1 .. H + file[x + 1].len :
                   file[x + i] = Byte(file[x + 1].type, file[x + 1].rec, file[x + 1].from,
                                      file[x + 1].len, i)
         /\ ~(x + H <= B + kBlockSize) => B + kBlockSize < q
<1>0. /\ Len(file) \in Nat /\ DOMAIN file = 1 .. Len(file) /\ q \in Nat /\ q <= Len(file)
      /\ H \in Nat /\ H >= 1
  BY FileTypes, HeaderAndBlock
<1>1. PICK s \in DOMAIN file, k \in Nat, h \in Nat : s = x + 1 /\ k = kBlockSize /\ h = H
  BY <1>0, HeaderAndBlock
<1>2. s \in Nat /\ B < s /\ s - 1 = x /\ s <= q
  BY <1>0, <1>1
<1>3. PICK c \in AnyByte, l \in Nat : c = file[s] /\ l = c.len
  BY FileTypes DEF AnyByte
<1>4. ASSUME c.at = 1, s <= B + k
      PROVE  /\ x + h + l <= q /\ x + h + l <= B + k
             /\ \A i \in 1 .. h + l : file[x + i] = Byte(c.type, c.rec, c.from, c.len, i)
  <2>1. /\ s - 1 + H + file[s].len <= q
        /\ s - 1 + H + file[s].len <= B + kBlockSize
        /\ \A i \in 1 .. H + file[s].len :
             file[s - 1 + i] = Byte(file[s].type, file[s].rec, file[s].from, file[s].len, i)
    BY <1>1, <1>2, <1>3, <1>4, WholeRun
  <2> QED BY <1>1, <1>2, <1>3, <2>1
<1>5. CASE x + h <= B + k
  <2>1. x < B + k /\ s <= B + k /\ ~(x - B > k - h)
    BY <1>0, <1>1, <1>2, <1>5
  <2>2. c.at = 1
    BY <1>1, <1>3, <2>1, BehindFragment
  <2> QED BY <1>1, <1>3, <1>4, <1>5, <2>1, <2>2
<1>6. CASE ~(x + h <= B + k)
  <2> SUFFICES ASSUME q <= B + k PROVE FALSE
    BY <1>0, <1>1, <1>6
  <2>1. x < B + k /\ s <= B + k
    BY <1>0, <1>2
  <2>2. c.at = 1 \/ c = ZeroByte
    BY <1>1, <1>3, <2>1, BehindFragment
  <2>3. CASE c.at = 1
    BY <1>4, <1>6, <2>1, <2>3
  <2>4. CASE c = ZeroByte
    <3>1. file[q] = ZeroByte
      BY <1>1, <1>2, <1>3, <2>4, ZerosStay
    <3> QED BY <3>1 DEF IsLast, ZeroByte, Byte
  <2> QED BY <2>2, <2>3, <2>4
<1> QED BY <1>1, <1>5, <1>6

(* Fragments are in the file in the order of their records, the first one  *)
(* of a record before its others.                                          *)
RecordsInOrder ==
  \A x, y \in DOMAIN file :
    x < y /\ file[x].at >= 1 /\ file[y].at >= 1 => file[x].rec <= file[y].rec
StartComesFirst ==
  \A p, x \in DOMAIN file :
    IsStart(file[p]) /\ file[x].at >= 1 /\ file[x].rec = file[p].rec => p <= x

LEMMA WriterGrows ==
  ASSUME FileInv, WriterNext
  PROVE  \/ file' = file
         \/ alive /\ adding /\ \E m, k : Grows(m, k)
         \/ Corrupt
<1>1. ASSUME NEW n \in Length, StartAddRecord(n) PROVE file' = file
  BY <1>1 DEF StartAddRecord
<1>2. CASE EmitPhysicalRecord
  BY <1>2, EmitGrows
<1>3. CASE TrailerLost
  BY <1>3, TrailerLostGrows
<1>4. CASE EmitFails
  BY <1>4, EmitFailsGrows
<1>5. CASE Crash
  <2>1. CASE ~adding
    BY <1>5, <2>1 DEF Crash
  <2>2. CASE adding
    <3>1. PICK k \in 0 .. Len(Trailer \o Fragment) :
            alive /\ file' = file \o SubSeq(Trailer \o Fragment, 1, k)
      BY <1>5, <2>2 DEF Crash
    <3> QED BY <2>2, <3>1, TornWrite
  <2> QED BY <2>1, <2>2
<1>6. CASE Reopen
  BY <1>6 DEF Reopen
<1> QED BY <1>1, <1>2, <1>3, <1>4, <1>5, <1>6 DEF WriterNext

LEMMA OrderGrows ==
  ASSUME FileInv, alive, adding, NEW m, NEW k, Grows(m, k), RecordsInOrder, StartComesFirst
  PROVE  RecordsInOrder' /\ StartComesFirst'
<1>0. /\ m \in Nat /\ Len(file) \in Nat /\ Len(file') \in Nat
      /\ DOMAIN file = 1 .. Len(file) /\ DOMAIN file' = 1 .. Len(file')
      /\ \A p \in DOMAIN file : file'[p] = file[p]
  BY GrownPositions
<1>1. ASSUME NEW x \in DOMAIN file', x \notin DOMAIN file, file'[x].at >= 1
      PROVE  /\ x > Len(file) + m
             /\ file'[x] = Byte(FragmentType, Record, length[Record] - left,
                                FragmentLength, x - Len(file) - m)
             /\ file'[x].rec = Record /\ file'[x].type = FragmentType
             /\ file'[x].at = x - Len(file) - m
  <2>1. file'[x] # ZeroByte
    BY <1>1 DEF ZeroByte, Byte
  <2>2. /\ x > Len(file) + m
        /\ file'[x] = Byte(FragmentType, Record, length[Record] - left,
                           FragmentLength, x - Len(file) - m)
    BY <1>1, <2>1, GrownPositions
  <2> QED BY <2>2 DEF Byte
<1>2. ASSUME NEW x \in DOMAIN file, file[x].at >= 1
      PROVE  file[x].rec <= Record /\ (begin => file[x].rec < Record)
  <2>1. FragmentByte(file[x])
    <3>1. file[x] \notin NoRecord
      BY <1>2 DEF NoRecord, ZeroByte, BadByte, Byte
    <3> QED BY <3>1 DEF FileInv, BytesRight
  <2>2. length \in Seq(Length)
    BY DEF FileInv, WriterTypeOK
  <2>3. file[x].rec <= Record
    BY <2>1, <2>2 DEF FragmentByte, Record
  <2>4. begin => file[x].rec < Record
    BY DEF FileInv, WriterProgress
  <2> QED BY <2>3, <2>4
<1>3. RecordsInOrder'
  <2> SUFFICES ASSUME NEW x \in DOMAIN file', NEW y \in DOMAIN file', x < y,
                      file'[x].at >= 1, file'[y].at >= 1
               PROVE  file'[x].rec <= file'[y].rec
    BY DEF RecordsInOrder
  <2>1. CASE y \in DOMAIN file
    <3>1. x \in DOMAIN file
      BY <1>0, <2>1
    <3> QED BY <1>0, <2>1, <3>1 DEF RecordsInOrder
  <2>2. CASE y \notin DOMAIN file /\ x \in DOMAIN file
    BY <1>0, <1>1, <1>2, <2>2
  <2>3. CASE y \notin DOMAIN file /\ x \notin DOMAIN file
    <3>1. file'[x].rec = Record /\ file'[y].rec = Record /\ Record \in Nat
      BY <1>1, <2>3, RoundTypes
    <3> QED BY <3>1
  <2> QED BY <2>1, <2>2, <2>3
<1>4. StartComesFirst'
  <2> SUFFICES ASSUME NEW p \in DOMAIN file', NEW x \in DOMAIN file', IsStart(file'[p]),
                      file'[x].at >= 1, file'[x].rec = file'[p].rec
               PROVE  p <= x
    BY DEF StartComesFirst, IsStart
  <2>0. file'[p].at >= 1
    BY DEF IsStart
  <2>1. CASE p \in DOMAIN file /\ x \in DOMAIN file
    BY <1>0, <2>1 DEF StartComesFirst
  <2>2. CASE p \in DOMAIN file /\ x \notin DOMAIN file
    BY <1>0, <2>2
  <2>3. CASE p \notin DOMAIN file /\ x \in DOMAIN file
    <3>1. file'[p].rec = Record /\ file'[p].type = FragmentType
      BY <1>1, <2>0, <2>3
    <3>2. begin
      BY <3>1, RoundTypes DEF IsStart
    <3>3. file[x].rec < Record /\ file'[x] = file[x]
      BY <1>0, <1>2, <2>3, <3>2
    <3> QED BY <3>1, <3>3, RoundTypes
  <2>4. CASE p \notin DOMAIN file /\ x \notin DOMAIN file
    <3>1. p - Len(file) - m = 1 /\ x > Len(file) + m
      BY <1>1, <2>0, <2>4 DEF IsStart
    <3> QED BY <1>0, <3>1
  <2> QED BY <2>1, <2>2, <2>3, <2>4
<1> QED BY <1>3, <1>4

LEMMA WriterOrder ==
  ASSUME FileInv, WriterNext, RecordsInOrder, StartComesFirst
  PROVE  RecordsInOrder' /\ StartComesFirst'
<1>1. CASE file' = file
  BY <1>1 DEF RecordsInOrder, StartComesFirst, IsStart
<1>2. ASSUME alive, adding, NEW m, NEW k, Grows(m, k)
      PROVE  RecordsInOrder' /\ StartComesFirst'
  BY <1>2, OrderGrows
<1>3. CASE Corrupt
  <2>1. PICK x \in DOMAIN file : file' = [file EXCEPT ![x] = BadByte]
    BY <1>3 DEF Corrupt
  <2>2. DOMAIN file' = DOMAIN file /\ \A p \in DOMAIN file : file'[p] \in {file[p], BadByte}
    BY <2>1
  <2>3. ~(BadByte.at >= 1)
    BY DEF BadByte, Byte
  <2>4. \A p \in DOMAIN file' : file'[p].at >= 1 => p \in DOMAIN file /\ file'[p] = file[p]
    BY <2>2, <2>3
  <2>5. RecordsInOrder'
    BY <2>4 DEF RecordsInOrder
  <2>6. \A p \in DOMAIN file' : IsStart(file'[p]) => file'[p].at >= 1
    BY DEF IsStart
  <2>7. StartComesFirst'
    <3> SUFFICES ASSUME NEW p \in DOMAIN file', NEW y \in DOMAIN file', IsStart(file'[p]),
                        file'[y].at >= 1, file'[y].rec = file'[p].rec
                 PROVE  p <= y
      BY DEF StartComesFirst, IsStart
    <3> QED BY <2>4, <2>6 DEF StartComesFirst
  <2> QED BY <2>5, <2>7
<1> QED BY <1>1, <1>2, <1>3, WriterGrows

-----------------------------------------------------------------------------
(* The reader on its way to a record that can be recovered.                *)

(* The buffer lies in block b and reaches its end unless the file ends     *)
(* first, or nothing of the block was read yet.                            *)
BufferIn(b) ==
  /\ BlockStart(b) <= buffer_ /\ end_of_buffer_offset_ <= BlockStart(b) + kBlockSize
  /\ eof_ => Len(file) <= end_of_buffer_offset_
  /\ ~eof_ => \/ end_of_buffer_offset_ = BlockStart(b)
              \/ end_of_buffer_offset_ = BlockStart(b) + kBlockSize

(* A record from position p to q, all of its blocks well-formed.           *)
Recoverable(p, q) ==
  /\ StartsAt(p, file[p].rec) /\ EndsAt(q, file[p].rec) /\ p - 1 >= initial_offset_
  /\ \A b \in BlockOf(p - 1) .. BlockOf(q - 1) : WellFormed(b)

(* The reader is before it, if in its first block then between fragments.  *)
Approaches(b, p) ==
  /\ buffer_ < p
  /\ BlockStart(b) + kBlockSize < p \/ FragmentEnd(buffer_, b)

(* The reader has collected a part of it.                                  *)
Collects(b, p, q) ==
  /\ pc = "read" /\ in_fragmented_record /\ scratch[1].rec = file[p].rec
  /\ p <= buffer_ /\ buffer_ < q
  /\ FragmentEnd(buffer_, b)

Found(p) == \E i \in DOMAIN returned : returned[i][1].rec = file[p].rec

OnTrack(p, q) ==
  \/ Found(p)
  \/ read_error
  \/ pc # "eof" /\ \E b \in Nat : BufferIn(b) /\ (Approaches(b, p) \/ Collects(b, p, q))

Track ==
  pc # "off" => \A p, q \in DOMAIN file : Recoverable(p, q) => OnTrack(p, q)

FirstCall == pc = "call" /\ returned = <<>> => ~eof_

DamageInv == AlarmInv /\ RecordsInOrder /\ StartComesFirst /\ FirstCall /\ Track

LEMMA RecoverableFacts ==
  ASSUME LogInv, StartComesFirst, NEW p \in DOMAIN file, NEW q \in DOMAIN file, Recoverable(p, q)
  PROVE  /\ p <= q /\ IsStart(file[p]) /\ IsLast(file[q]) /\ file[p].at = 1
         /\ file[q].type \in {kFullType, kLastType} /\ file[q].rec = file[p].rec
         /\ initial_offset_ <= p - 1 /\ p \in Nat /\ q \in Nat /\ q <= Len(file)
         /\ \A b \in Nat : BlockStart(b) < q /\ p <= BlockStart(b) + kBlockSize => WellFormed(b)
<1>0. /\ Len(file) \in Nat /\ DOMAIN file = 1 .. Len(file) /\ p \in Nat /\ q \in Nat
      /\ p >= 1 /\ q >= 1 /\ q <= Len(file) /\ kBlockSize \in Nat /\ initial_offset_ \in Nat
  BY FileTypes, HeaderAndBlock, BufferTypes DEF LogInv
<1>1. /\ IsStart(file[p]) /\ LastByteOf(file[q]) /\ file[q].rec = file[p].rec /\ file[p].at = 1
      /\ file[q].type \in {kFullType, kLastType} /\ initial_offset_ <= p - 1
  BY <1>0 DEF Recoverable, StartsAt, EndsAt, IsStart
<1>2. file[q].at >= 1
  <2>1. file[q].type # 0
    BY <1>1 DEF kFullType, kLastType
  <2>2. file[q] \notin NoRecord
    BY <2>1 DEF NoRecord, ZeroByte, BadByte, Byte, kZeroType
  <2>3. FragmentByte(file[q]) /\ file[q] \in AnyByte
    BY <2>2, FileTypes DEF LogInv, FileInv, BytesRight
  <2> QED BY <2>3, FragmentStart
<1>3. p <= q
  BY <1>1, <1>2 DEF StartComesFirst
<1>4. ASSUME NEW b \in Nat, BlockStart(b) < q, p <= BlockStart(b) + kBlockSize
      PROVE  WellFormed(b)
  <2>1. BlockStart(b) \in Nat
    BY <1>0, BlockRange
  <2>2. p - 1 \in Nat /\ q - 1 \in Nat /\ BlockStart(b) <= q - 1
        /\ p - 1 < BlockStart(b) + kBlockSize
    BY <1>0, <1>4, <2>1
  <2>3. BlockOf(p - 1) <= b /\ b <= BlockOf(q - 1) /\ BlockOf(p - 1) \in Nat /\ BlockOf(q - 1) \in Nat
    BY <2>2, BlockRange
  <2>4. b \in BlockOf(p - 1) .. BlockOf(q - 1)
    BY <2>3
  <2> QED BY <2>4 DEF Recoverable
<1> QED BY <1>0, <1>1, <1>2, <1>3, <1>4 DEF IsLast

(* Between fragments of a well-formed block, with the end of one ahead:    *)
(* ReadPhysicalRecord() returns the fragment there, or reads on.           *)
LEMMA RecordAhead ==
  ASSUME FileInv, ReaderTypeOK, BufferRight, pc = "read",
         NEW b \in Nat, BufferIn(b), WellFormed(b), FragmentEnd(buffer_, b),
         NEW q \in DOMAIN file, buffer_ < q, IsLast(file[q])
  PROVE  /\ BufferSize >= H =>
              /\ AtPhysicalRecord
              /\ buffer_ + 1 \in DOMAIN file /\ file[buffer_ + 1].at = 1
              /\ Header[1] = file[buffer_ + 1]
              /\ buffer_ + H + file[buffer_ + 1].len <= q
              /\ \A i \in 1 .. H + file[buffer_ + 1].len :
                   file[buffer_ + i] = Byte(file[buffer_ + 1].type, file[buffer_ + 1].rec,
                                            file[buffer_ + 1].from, file[buffer_ + 1].len, i)
         /\ BufferSize < H =>
              /\ ~eof_ /\ end_of_buffer_offset_ < q
              /\ \/ end_of_buffer_offset_ = BlockStart(b)
                 \/ ~(buffer_ + H <= BlockStart(b) + kBlockSize)
<1>0. /\ H \in Nat /\ H >= 1 /\ H = kHeaderSize /\ Len(file) \in Nat /\ DOMAIN file = 1 .. Len(file)
      /\ q \in Nat /\ q <= Len(file)
  BY HeaderAndBlock, FileTypes
<1>1. PICK x \in Nat, B \in Nat, k \in Nat, e \in Nat :
        x = buffer_ /\ B = BlockStart(b) /\ k = kBlockSize /\ e = end_of_buffer_offset_
  BY BufferTypes, HeaderAndBlock, BlockRange
<1>2. BufferSize = e - x /\ x <= e
  BY <1>1, BufferTypes
<1>3. /\ B <= x /\ e <= B + k /\ (eof_ => Len(file) <= e) /\ (~eof_ => e = B \/ e = B + k)
      /\ x < q /\ FragmentEnd(x, b)
  BY <1>1 DEF BufferIn
<1>4. /\ x + H <= B + k =>
           /\ x + 1 \in DOMAIN file /\ file[x + 1].at = 1
           /\ x + H + file[x + 1].len <= q /\ x + H + file[x + 1].len <= B + k
           /\ \A i \in 1 .. H + file[x + 1].len :
                file[x + i] = Byte(file[x + 1].type, file[x + 1].rec, file[x + 1].from,
                                   file[x + 1].len, i)
      /\ ~(x + H <= B + k) => B + k < q
  BY <1>1, <1>3, FragmentAhead
<1>5. CASE x + H <= B + k
  <2>1. x + 1 \in DOMAIN file
    BY <1>4, <1>5
  <2>2. PICK c \in AnyByte, l \in Nat : c = file[x + 1] /\ l = c.len
    <3>1. PICK c \in AnyByte : c = file[x + 1]
      BY <2>1, FileTypes
    <3> QED BY <3>1 DEF AnyByte
  <2>3. /\ c.at = 1 /\ x + H + l <= q /\ x + H + l <= B + k
        /\ \A i \in 1 .. H + l : file[x + i] = Byte(c.type, c.rec, c.from, c.len, i)
    BY <1>4, <1>5, <2>2
  <2>4. CASE e - x >= H
    <3>1. AtHeader
      BY <1>0, <1>1, <1>2, <2>4 DEF AtHeader
    <3>2. e = B + k \/ q <= e
      BY <1>0, <1>1, <1>3, <2>4
    <3>3. H + l <= e - x
      BY <1>0, <1>3, <2>3, <3>2
    <3>4. InBuffer(c.len)
      BY <1>0, <1>1, <1>2, <2>2, <3>3 DEF InBuffer
    <3>5. \A i \in 1 .. H : file[buffer_ + i] = Byte(c.type, c.rec, c.from, c.len, i)
      BY <1>0, <1>1, <2>3
    <3>6. \A i \in 1 .. H + c.len : file[buffer_ + i] = Byte(c.type, c.rec, c.from, c.len, i)
      BY <1>1, <2>2, <2>3
    <3>7. HeaderIntact
      BY <1>1, <2>2, <2>3, <3>1, <3>5, HeaderThere
    <3>8. PayloadIntact
      BY <1>1, <2>2, <3>1, <3>4, <3>6, PayloadThere
    <3>9. Header[1] = c
      BY <1>1, <2>2, <3>1, HeaderInFile
    <3>10. AtPhysicalRecord
      BY <3>1, <3>4, <3>7, <3>8, <3>9 DEF AtPhysicalRecord
    <3>11. ~(BufferSize < H)
      BY <1>0, <1>1, <1>2, <2>4
    <3> QED BY <1>1, <2>1, <2>2, <2>3, <3>6, <3>9, <3>10, <3>11
  <2>5. CASE ~(e - x >= H)
    <3>1. ~(BufferSize >= H)
      BY <1>2, <2>5
    <3>2. ~eof_
      <4> SUFFICES ASSUME eof_ PROVE FALSE
        OBVIOUS
      <4>1. q <= e
        BY <1>0, <1>1, <1>3
      <4> QED BY <1>0, <1>1, <2>3, <2>5, <4>1
    <3>3. e = B
      BY <1>0, <1>1, <1>3, <1>5, <2>5, <3>2
    <3>4. e < q
      BY <1>0, <1>3, <3>3
    <3> QED BY <1>1, <3>1, <3>2, <3>3, <3>4
  <2> QED BY <2>4, <2>5
<1>6. CASE ~(x + H <= B + k)
  <2>1. B + k < q
    BY <1>4, <1>6
  <2>2. ~eof_ /\ e < q
    BY <1>0, <1>1, <1>3, <2>1
  <2>3. ~(BufferSize >= H)
    BY <1>0, <1>1, <1>2, <1>3, <1>6
  <2> QED BY <1>1, <1>6, <2>2, <2>3
<1> QED BY <1>5, <1>6

(* Behind it the reader is between fragments again, and not past a start.  *)
LEMMA FragmentPassed ==
  ASSUME FileInv, NEW x \in Nat, x + 1 \in DOMAIN file, NEW b \in Nat, BlockStart(b) <= x,
         NEW q \in DOMAIN file, x + H + file[x + 1].len <= q,
         \A i \in 1 .. H + file[x + 1].len :
           file[x + i] = Byte(file[x + 1].type, file[x + 1].rec, file[x + 1].from,
                              file[x + 1].len, i)
  PROVE  /\ FragmentEnd(x + H + file[x + 1].len, b)
         /\ file[x + H + file[x + 1].len].type = file[x + 1].type
         /\ \A p \in DOMAIN file : file[p].at = 1 /\ x + 1 < p => x + H + file[x + 1].len < p
<1>0. H \in Nat /\ H >= 1 /\ DOMAIN file = 1 .. Len(file) /\ Len(file) \in Nat
  BY HeaderAndBlock, FileTypes
<1>1. PICK c \in AnyByte : c = file[x + 1]
  BY FileTypes
<1>2. PICK n \in Nat, B \in Nat : n = H + c.len /\ B = BlockStart(b)
  <2>1. c.len \in Nat
    BY DEF AnyByte
  <2>2. H + c.len \in Nat
    BY <1>0, <2>1
  <2>3. BlockStart(b) \in Nat
    BY BlockRange
  <2> QED BY <2>2, <2>3
<1>3. n >= 1 /\ x + n <= q /\ x + n = x + H + c.len
  <2>1. c.len \in Nat
    BY DEF AnyByte
  <2> QED BY <1>0, <1>1, <1>2, <2>1
<1>4. \A i \in 1 .. n : file[x + i] = Byte(c.type, c.rec, c.from, c.len, i)
  BY <1>1, <1>2
<1>5. file[x + n] = Byte(c.type, c.rec, c.from, c.len, n)
  BY <1>3, <1>4
<1>6. IsLast(file[x + n]) /\ file[x + n].type = c.type
  BY <1>2, <1>3, <1>5 DEF IsLast, LastByteOf, Byte, H
<1>7. x + n \in DOMAIN file /\ x + n > B
  BY <1>0, <1>2, <1>3
<1>8. ASSUME NEW p \in DOMAIN file, file[p].at = 1, x + 1 < p
      PROVE  x + n < p
  <2> SUFFICES ASSUME p <= x + n PROVE FALSE
    BY <1>0
  <2>1. PICK i \in Int : i = p - x
    BY <1>0
  <2>2. i \in 1 .. n /\ x + i = p /\ i # 1
    BY <1>0, <1>8, <2>1
  <2>3. file[p] = Byte(c.type, c.rec, c.from, c.len, i)
    BY <1>4, <2>2
  <2> QED BY <1>8, <2>2, <2>3 DEF Byte
<1> QED BY <1>1, <1>2, <1>3, <1>6, <1>7, <1>8 DEF FragmentEnd

(* The record sought is in a later block, or the reader is between the     *)
(* fragments of a well-formed block.                                       *)
LEMMA SeekingCases ==
  ASSUME LogInv, StartComesFirst, NEW p \in DOMAIN file, NEW q \in DOMAIN file, Recoverable(p, q),
         NEW b \in Nat, BufferIn(b), Approaches(b, p) \/ Collects(b, p, q)
  PROVE  \/ BlockStart(b) + kBlockSize < p /\ Approaches(b, p) /\ ~eof_
         \/ /\ WellFormed(b) /\ FragmentEnd(buffer_, b) /\ buffer_ < q
            /\ p <= BlockStart(b) + kBlockSize
            /\ buffer_ < p \/ Collects(b, p, q)
<1>0. PICK B \in Nat, k \in Nat, x \in Nat, e \in Nat :
        B = BlockStart(b) /\ k = kBlockSize /\ x = buffer_ /\ e = end_of_buffer_offset_
  BY HeaderAndBlock, BlockRange, BufferTypes DEF LogInv
<1>1. /\ p <= q /\ p \in Nat /\ q \in Nat /\ q <= Len(file) /\ Len(file) \in Nat /\ x <= e
      /\ B < q /\ p <= B + k => WellFormed(b)
  BY <1>0, RecoverableFacts, FileTypes, BufferTypes DEF LogInv
<1>2. B <= x /\ e <= B + k /\ (eof_ => Len(file) <= e)
  BY <1>0 DEF BufferIn
<1>3. CASE B + k < p
  <2>1. ~eof_
    BY <1>1, <1>2, <1>3
  <2>2. ~Collects(b, p, q)
    BY <1>0, <1>1, <1>2, <1>3 DEF Collects
  <2> QED BY <1>0, <1>3, <2>1, <2>2
<1>4. CASE ~(B + k < p)
  <2>1. CASE Approaches(b, p)
    <3>1. x < p /\ FragmentEnd(buffer_, b)
      BY <1>0, <1>4, <2>1 DEF Approaches
    <3>2. B < q /\ p <= B + k /\ x < q
      BY <1>1, <1>2, <1>4, <3>1
    <3> QED BY <1>0, <1>1, <3>1, <3>2
  <2>2. CASE Collects(b, p, q)
    <3>1. x < q /\ FragmentEnd(buffer_, b)
      BY <1>0, <2>2 DEF Collects
    <3>2. B < q /\ p <= B + k
      BY <1>1, <1>2, <1>4, <3>1
    <3> QED BY <1>0, <1>1, <2>2, <3>1, <3>2
  <2> QED BY <2>1, <2>2
<1> QED BY <1>3, <1>4

(* A block before that of the record: whatever is in it, the reader stays  *)
(* in it until it is read to its end.                                      *)
LEMMA FarStep ==
  ASSUME LogInv, Frozen, NEW p \in DOMAIN file, NEW b \in Nat, BufferIn(b),
         BlockStart(b) + kBlockSize < p, buffer_' \in Nat, buffer_ <= buffer_',
         buffer_' <= end_of_buffer_offset_,
         end_of_buffer_offset_' = end_of_buffer_offset_, eof_' = eof_
  PROVE  BufferIn(b)' /\ Approaches(b, p)'
<1>1. file' = file /\ p \in Nat
  BY FrozenFile, FileTypes DEF LogInv
<1>2. PICK B \in Nat, k \in Nat, x \in Nat, e \in Nat :
        B = BlockStart(b) /\ k = kBlockSize /\ x = buffer_ /\ e = end_of_buffer_offset_
  BY HeaderAndBlock, BlockRange, BufferTypes DEF LogInv
<1>3. B <= buffer_' /\ buffer_' < p
  BY <1>1, <1>2 DEF BufferIn
<1>4. BlockStart(b)' = BlockStart(b)
  BY DEF BlockStart
<1> QED BY <1>1, <1>2, <1>3, <1>4 DEF BufferIn, Approaches

LEMMA NearStep ==
  ASSUME LogInv, Frozen, StartComesFirst, NEW p \in DOMAIN file, NEW q \in DOMAIN file,
         Recoverable(p, q), NEW b \in Nat, BufferIn(b), WellFormed(b), FragmentEnd(buffer_, b),
         buffer_ < q, AtPhysicalRecord, buffer_' = NextInBuffer,
         end_of_buffer_offset_' = end_of_buffer_offset_, eof_' = eof_
  PROVE  /\ BufferIn(b)' /\ FragmentEnd(buffer_, b)' /\ buffer_' <= q /\ buffer_' \in Nat
         /\ buffer_ < buffer_'
         /\ buffer_ + 1 < p => buffer_' < p
         /\ file[buffer_'].type = file[buffer_ + 1].type /\ Header[1] = file[buffer_ + 1]
         /\ buffer_ + 1 \in DOMAIN file /\ file[buffer_ + 1].at = 1
<1>0. /\ file' = file /\ H \in Nat /\ H = kHeaderSize
      /\ FileInv /\ ReaderTypeOK /\ BufferRight
  BY FrozenFile, HeaderAndBlock DEF LogInv
<1>1. IsLast(file[q]) /\ file[p].at = 1
  BY RecoverableFacts
<1>2. pc = "read" /\ BufferSize >= H
  BY <1>0 DEF AtPhysicalRecord, AtHeader
<1>3. PICK x \in Nat, B \in Nat, e \in Nat :
        x = buffer_ /\ B = BlockStart(b) /\ e = end_of_buffer_offset_
  BY BlockRange, BufferTypes DEF LogInv
<1>4. /\ x + 1 \in DOMAIN file /\ file[x + 1].at = 1 /\ Header[1] = file[x + 1]
      /\ x + H + file[x + 1].len <= q
      /\ \A i \in 1 .. H + file[x + 1].len :
           file[x + i] = Byte(file[x + 1].type, file[x + 1].rec, file[x + 1].from,
                              file[x + 1].len, i)
  BY <1>0, <1>1, <1>2, <1>3, RecordAhead
<1>5. buffer_' = x + H + file[x + 1].len
  BY <1>0, <1>3, <1>4 DEF NextInBuffer
<1>6. B <= x
  BY <1>3 DEF BufferIn
<1>7. /\ FragmentEnd(x + H + file[x + 1].len, b)
      /\ file[x + H + file[x + 1].len].type = file[x + 1].type
      /\ file[p].at = 1 /\ x + 1 < p => x + H + file[x + 1].len < p
  BY <1>0, <1>3, <1>4, <1>6, FragmentPassed
<1>8. buffer_' \in Nat /\ buffer_ < buffer_'
  BY <1>0, PhysicalRecordIntact
<1>9. BlockStart(b)' = BlockStart(b)
  BY DEF BlockStart
<1>10. FragmentEnd(buffer_, b)'
  BY <1>0, <1>5, <1>7, <1>9 DEF FragmentEnd, IsLast, LastByteOf
<1>11. B <= buffer_'
  BY <1>3, <1>6, <1>8
<1>12. BufferIn(b)'
  BY <1>0, <1>3, <1>9, <1>11 DEF BufferIn
<1> QED BY <1>1, <1>3, <1>4, <1>5, <1>7, <1>8, <1>10, <1>12

LEMMA RefillTrack ==
  ASSUME LogInv, Frozen, StartComesFirst, NEW p \in DOMAIN file, NEW q \in DOMAIN file,
         Recoverable(p, q), NEW b \in Nat, BufferIn(b), Approaches(b, p) \/ Collects(b, p, q),
         RefillBuffer
  PROVE  OnTrack(p, q)'
<1> DEFINE got == IF FileSize > end_of_buffer_offset_
                    THEN Smaller(kBlockSize, FileSize - end_of_buffer_offset_) ELSE 0
<1>1. /\ pc = "read" /\ BufferSize < H /\ ~eof_
      /\ buffer_' = end_of_buffer_offset_
      /\ end_of_buffer_offset_' = end_of_buffer_offset_ + got
      /\ eof_' = (got < kBlockSize)
      /\ UNCHANGED <<pc, in_fragmented_record, scratch>>
  BY DEF RefillBuffer, H
<1>2. /\ file' = file /\ Len(file) \in Nat /\ FileInv /\ ReaderTypeOK /\ BufferRight
      /\ H \in Nat /\ H >= 1
  BY FrozenFile, FileTypes, HeaderAndBlock DEF LogInv
<1>3. PICK B \in Nat, k \in Nat, x \in Nat, e \in Nat, n \in Nat :
        /\ B = BlockStart(b) /\ k = kBlockSize /\ x = buffer_ /\ e = end_of_buffer_offset_
        /\ n = Len(file) /\ x <= e /\ BufferSize = e - x
  BY <1>2, HeaderAndBlock, BlockRange, BufferTypes
<1>4. got \in Nat /\ got <= k /\ (got < k => n <= e + got)
  <2>1. got = IF n > e THEN (IF k < n - e THEN k ELSE n - e) ELSE 0
    BY <1>3 DEF FileSize, Smaller
  <2> HIDE DEF got
  <2> QED BY <2>1
<1> HIDE DEF got
<1>5. B <= x /\ (e = B \/ e = B + k)
  BY <1>1, <1>3 DEF BufferIn
<1>6. PICK b2 \in Nat : BlockStart(b2) = e
  <2>1. BlockStart(b + 1) = BlockStart(b) + kBlockSize /\ b + 1 \in Nat
    BY HeaderAndBlock DEF BlockStart
  <2> QED BY <1>3, <1>5, <2>1
<1>7. BlockStart(b2)' = e
  BY <1>6 DEF BlockStart
<1>8. BufferIn(b2)'
  <2>1. e <= buffer_' /\ end_of_buffer_offset_' <= e + k
    BY <1>1, <1>3, <1>4
  <2>2. eof_' => Len(file') <= end_of_buffer_offset_'
    BY <1>1, <1>2, <1>3, <1>4
  <2>3. ~eof_' => end_of_buffer_offset_' = e + k
    <3>1. ~eof_' => ~(got < k)
      BY <1>1, <1>3
    <3> QED BY <1>1, <1>3, <1>4, <3>1
  <2> QED BY <1>3, <1>7, <2>1, <2>2, <2>3 DEF BufferIn
<1>9. FragmentEnd(buffer_, b2)'
  BY <1>1, <1>3, <1>7 DEF FragmentEnd
<1>10. /\ p <= q /\ p \in Nat /\ q \in Nat /\ IsLast(file[q]) /\ file[p].at = 1
  BY RecoverableFacts
<1>11. CASE B + k < p
  <2>1. buffer_' < p
    BY <1>1, <1>3, <1>5, <1>10, <1>11
  <2>2. Approaches(b2, p)'
    BY <1>9, <2>1 DEF Approaches
  <2> QED BY <1>1, <1>8, <2>2 DEF OnTrack
<1>12. CASE ~(B + k < p)
  <2>1. /\ WellFormed(b) /\ FragmentEnd(buffer_, b) /\ buffer_ < q
        /\ p <= B + k /\ (buffer_ < p \/ Collects(b, p, q))
    BY <1>3, <1>12, SeekingCases
  <2>2. e < q /\ (e = B \/ ~(x + H <= B + k))
    BY <1>1, <1>2, <1>3, <1>10, <2>1, RecordAhead
  <2>3. CASE buffer_ < p
    <3>1. e < p
      <4>1. CASE e = B
        BY <1>3, <1>5, <1>10, <2>3, <4>1
      <4>2. CASE ~(x + H <= B + k)
        <5>1. B < p
          BY <1>3, <1>5, <1>10, <2>3
        <5>2. p - 1 + H + file[p].len <= B + k
          BY <1>2, <1>3, <1>10, <2>1, <5>1, WholeRun
        <5>3. PICK l \in Nat : l = file[p].len
          <6>1. file[p] \in AnyByte
            BY <1>2, FileTypes
          <6> QED BY <6>1 DEF AnyByte
        <5>4. x + H <= B + k
          BY SMTT(30), <1>2, <1>3, <1>10, <2>3, <5>2, <5>3
        <5> QED BY <4>2, <5>4
      <4> QED BY <2>2, <4>1, <4>2
    <3>2. Approaches(b2, p)'
      BY <1>1, <1>3, <1>9, <3>1 DEF Approaches
    <3> QED BY <1>1, <1>8, <3>2 DEF OnTrack
  <2>4. CASE Collects(b, p, q)
    <3>1. p <= e
      BY <1>3, <1>10, <2>4 DEF Collects
    <3>2. Collects(b2, p, q)'
      BY <1>1, <1>2, <1>3, <1>9, <2>2, <2>4, <3>1 DEF Collects
    <3> QED BY <1>1, <1>8, <3>2 DEF OnTrack
  <2> QED BY <2>1, <2>3, <2>4
<1> QED BY <1>11, <1>12

(* ReadPhysicalRecord() other than the refill: it gives up the block, or   *)
(* the file, only where the record sought is not.                          *)
LEMMA ReadPhysicalRecordTrack ==
  ASSUME LogInv, Frozen, StartComesFirst, NEW p \in DOMAIN file, NEW q \in DOMAIN file,
         Recoverable(p, q), NEW b \in Nat, BufferIn(b), Approaches(b, p) \/ Collects(b, p, q),
         ReadPhysicalRecord
  PROVE  OnTrack(p, q)'
<1>0. /\ FileInv /\ ReaderTypeOK /\ BufferRight /\ H \in Nat /\ H = kHeaderSize /\ file' = file
      /\ buffer_ \in Nat /\ end_of_buffer_offset_ \in Nat /\ buffer_ <= end_of_buffer_offset_
      /\ BufferSize \in Nat
  BY FrozenFile, BufferTypes, HeaderAndBlock DEF LogInv
<1>1. /\ p <= q /\ p \in Nat /\ q \in Nat /\ IsLast(file[q]) /\ file[p].at = 1
      /\ initial_offset_ <= p - 1 /\ initial_offset_ \in Nat
  BY RecoverableFacts, BufferTypes DEF LogInv
<1>2. CASE RefillBuffer
  BY <1>2, RefillTrack
<1>3. CASE ReadFails
  BY <1>3 DEF ReadFails, OnTrack
<1>4. SUFFICES ASSUME ~RefillBuffer, ~ReadFails PROVE OnTrack(p, q)'
  BY <1>2, <1>3
<1>5. pc = "read"
  BY <1>4 DEF ReadPhysicalRecord, TruncatedHeader, UnreadableHeader, BadRecordLength, ZeroRecord,
              ChecksumMismatch, SkipRecord, AtPhysicalRecord, AtHeader
<1>6. CASE BlockStart(b) + kBlockSize < p /\ Approaches(b, p) /\ ~eof_
  <2>1. ASSUME NEW buf \in Nat, NEW report, DropBadRecord(buf, report), buffer_ <= buf,
               buf <= end_of_buffer_offset_
        PROVE  OnTrack(p, q)'
    <3>1. pc' = pc /\ buffer_' = buf /\ end_of_buffer_offset_' = end_of_buffer_offset_ /\ eof_' = eof_
      BY <2>1 DEF DropBadRecord
    <3>2. BufferIn(b)' /\ Approaches(b, p)'
      BY <1>6, <2>1, <3>1, FarStep
    <3> QED BY <1>5, <3>1, <3>2 DEF OnTrack
  <2>2. end_of_buffer_offset_ <= end_of_buffer_offset_
    BY <1>0
  <2>3. CASE TruncatedHeader
    BY <1>6, <2>3 DEF TruncatedHeader
  <2>4. CASE UnreadableHeader \/ BadRecordLength \/ ZeroRecord \/ ChecksumMismatch
    BY <1>0, <1>6, <2>1, <2>2, <2>4 DEF UnreadableHeader, BadRecordLength, ZeroRecord, ChecksumMismatch
  <2>5. CASE SkipRecord
    <3>1. AtPhysicalRecord /\ DropBadRecord(NextInBuffer, FALSE)
      BY <2>5 DEF SkipRecord
    <3>2. NextInBuffer \in Nat /\ buffer_ < NextInBuffer /\ NextInBuffer <= end_of_buffer_offset_
      BY <1>0, <3>1, PhysicalRecordIntact
    <3>3. buffer_ <= NextInBuffer
      BY <1>0, <3>2
    <3> QED BY <2>1, <3>1, <3>2, <3>3
  <2> QED BY <1>4, <2>3, <2>4, <2>5 DEF ReadPhysicalRecord
<1>7. CASE /\ WellFormed(b) /\ FragmentEnd(buffer_, b) /\ buffer_ < q
           /\ p <= BlockStart(b) + kBlockSize
           /\ buffer_ < p \/ Collects(b, p, q)
  <2>1. /\ BufferSize >= H => AtPhysicalRecord
        /\ BufferSize < H => ~eof_
    BY <1>0, <1>1, <1>5, <1>7, RecordAhead
  <2>2. ~TruncatedHeader
    BY <1>0, <2>1 DEF TruncatedHeader
  <2>3. ~UnreadableHeader /\ ~BadRecordLength /\ ~ChecksumMismatch
    BY <1>0, <2>1 DEF UnreadableHeader, BadRecordLength, ChecksumMismatch, AtPhysicalRecord, AtHeader
  <2>4. ~ZeroRecord
    <3> SUFFICES ASSUME AtHeader, ZeroHeader PROVE FALSE
      BY DEF ZeroRecord
    <3>1. file[buffer_ + 1].at = 1 /\ Header[1] = file[buffer_ + 1]
      BY <1>0, <1>1, <1>5, <1>7, RecordAhead DEF AtHeader
    <3>2. Header[1] = ZeroByte
      <4>1. 1 \in 1 .. kHeaderSize
        BY HeaderAndBlock
      <4> QED BY <4>1 DEF ZeroHeader
    <3> QED BY <3>1, <3>2 DEF ZeroByte, Byte
  <2>5. SkipRecord
    BY <1>4, <2>2, <2>3, <2>4 DEF ReadPhysicalRecord
  <2>6. /\ AtPhysicalRecord /\ buffer_ < initial_offset_
        /\ buffer_' = NextInBuffer /\ end_of_buffer_offset_' = end_of_buffer_offset_
        /\ eof_' = eof_ /\ pc' = pc
    BY <2>5 DEF SkipRecord, DropBadRecord
  <2>7. buffer_ + 1 < p
    BY <1>0, <1>1, <2>6
  <2>8. BufferIn(b)' /\ FragmentEnd(buffer_, b)' /\ buffer_' < p
    BY <1>7, <2>6, <2>7, NearStep
  <2>9. Approaches(b, p)'
    BY <2>8 DEF Approaches
  <2> QED BY <1>5, <2>6, <2>8, <2>9 DEF OnTrack
<1> QED BY <1>6, <1>7, SeekingCases

(* Between the start and the end of a record there are only its own        *)
(* fragments.                                                              *)
LEMMA InsideRecord ==
  ASSUME LogInv, RecordsInOrder, StartComesFirst, NEW p \in DOMAIN file, NEW q \in DOMAIN file,
         Recoverable(p, q), NEW s \in DOMAIN file, file[s].at = 1, p < s, s <= q
  PROVE  IsContinuation(file[s])
<1>0. /\ p \in Nat /\ q \in Nat /\ s \in Nat
      /\ file[p] \in AnyByte /\ file[q] \in AnyByte /\ file[s] \in AnyByte
  BY FileTypes DEF LogInv
<1>1. IsStart(file[p]) /\ IsLast(file[q]) /\ file[q].rec = file[p].rec /\ file[p].at = 1
  BY RecoverableFacts
<1>2. file[p].rec <= file[s].rec
  BY <1>1 DEF RecordsInOrder
<1>3. file[s].rec <= file[q].rec
  <2>1. CASE s = q
    BY <1>0, <2>1 DEF AnyByte
  <2>2. CASE s < q
    BY <1>1, <2>2 DEF RecordsInOrder, IsLast
  <2> QED BY <1>0, <2>1, <2>2
<1>4. ~(file[p].rec < file[s].rec)
  BY <1>0, <1>1, <1>2, <1>3 DEF AnyByte
<1>5. ~IsStart(file[s])
  BY <1>1, <1>4 DEF LogInv, FileInv, StartsInOrder
<1>6. FragmentByte(file[s])
  <2>1. file[s] \notin NoRecord
    BY DEF NoRecord, ZeroByte, BadByte, Byte
  <2> QED BY <2>1 DEF LogInv, FileInv, BytesRight
<1> QED BY <1>5, <1>6 DEF IsStart, IsContinuation, FragmentByte

(* What an action of ReadRecord() on a good physical record of type t does *)
(* for the record sought.                                                  *)
LEMMA ConsumeTrack ==
  ASSUME LogInv, Frozen, RecordsInOrder, StartComesFirst,
         NEW p \in DOMAIN file, NEW q \in DOMAIN file, Recoverable(p, q),
         NEW b \in Nat, BufferIn(b), Approaches(b, p) \/ Collects(b, p, q),
         NEW t \in {kFullType, kFirstType, kMiddleType, kLastType}, Type(t), ConsumeRecord,
         pc' \in {"call", "read"},
         t = kFullType \/ (t = kLastType /\ in_fragmented_record /\ ~resyncing_) =>
           /\ pc' = "call"
           /\ Found(p)' \/ returned' =
                Append(returned, IF t = kFullType THEN <<Payload>> ELSE Append(scratch, Payload)),
         t = kFirstType =>
           pc' = "read" /\ in_fragmented_record' /\ scratch' = <<Payload>>,
         t = kMiddleType /\ in_fragmented_record /\ ~resyncing_ =>
           pc' = "read" /\ in_fragmented_record' /\ scratch' = Append(scratch, Payload)
  PROVE  OnTrack(p, q)'
<1> USE DEF kFullType, kFirstType, kMiddleType, kLastType
<1>0. /\ pc = "read" /\ buffer_' = NextInBuffer /\ buffer_' \in Nat /\ buffer_ \in Nat
      /\ buffer_ < buffer_' /\ buffer_' <= end_of_buffer_offset_
      /\ end_of_buffer_offset_' = end_of_buffer_offset_ /\ eof_' = eof_
      /\ buffer_ + 1 \in DOMAIN file /\ file[buffer_ + 1].at = 1
      /\ file[buffer_ + 1].type = t /\ Payload \in Fragments
      /\ Payload.rec = file[buffer_ + 1].rec
  BY Consumed
<1>1. /\ p <= q /\ p \in Nat /\ q \in Nat /\ IsStart(file[p]) /\ IsLast(file[q])
      /\ file[q].type \in {kFullType, kLastType}
  BY RecoverableFacts
<1>2. AtPhysicalRecord /\ file' = file /\ returned \in Seq(Seq(Fragments))
  BY FrozenFile DEF Type, LogInv, ReturnedRight
<1>3. CASE BlockStart(b) + kBlockSize < p
  <2>1. buffer_ <= buffer_'
    BY <1>0
  <2>2. BufferIn(b)' /\ Approaches(b, p)'
    BY <1>0, <1>3, <2>1, FarStep
  <2> QED BY <2>2 DEF OnTrack
<1>4. CASE /\ WellFormed(b) /\ FragmentEnd(buffer_, b) /\ buffer_ < q
           /\ p <= BlockStart(b) + kBlockSize
           /\ buffer_ < p \/ Collects(b, p, q)
  <2>1. /\ BufferIn(b)' /\ FragmentEnd(buffer_, b)' /\ buffer_' <= q
        /\ buffer_ + 1 < p => buffer_' < p
        /\ file[buffer_'].type = t
    BY <1>0, <1>2, <1>4, NearStep
  <2>2. CASE buffer_ + 1 < p
    <3>1. Approaches(b, p)'
      BY <2>1, <2>2 DEF Approaches
    <3> QED BY <2>1, <3>1 DEF OnTrack
  <2>3. ASSUME NEW fs \in Seq(Fragments), fs # <<>>, fs[1].rec = file[p].rec,
               returned' = Append(returned, fs)
        PROVE  Found(p)'
    <3>1. PICK n \in Nat : n = Len(returned)
      BY <1>2
    <3>2. n + 1 \in DOMAIN returned' /\ returned'[n + 1] = fs
      BY <1>2, <2>3, <3>1
    <3> QED BY <1>2, <2>3, <3>2 DEF Found
  <2>4. CASE buffer_ + 1 = p
    <3>1. t \in {kFullType, kFirstType} /\ Payload.rec = file[p].rec
      BY <1>0, <1>1, <2>4 DEF IsStart
    <3>2. <<Payload>> \in Seq(Fragments) /\ <<Payload>> # <<>> /\ <<Payload>>[1] = Payload
      BY <1>0
    <3>3. CASE t = kFullType
      <4>1. Found(p)'
        BY <2>3, <3>1, <3>2, <3>3
      <4> QED BY <4>1 DEF OnTrack
    <3>4. CASE t = kFirstType
      <4>1. buffer_' # q
        BY <1>1, <2>1, <3>4
      <4>2. buffer_' < q /\ p <= buffer_'
        BY <1>0, <1>1, <2>1, <2>4, <4>1
      <4>3. pc' = "read" /\ in_fragmented_record' /\ scratch'[1].rec = file[p].rec
        BY <3>1, <3>2, <3>4
      <4>4. Collects(b, p, q)'
        BY <1>2, <2>1, <4>2, <4>3 DEF Collects
      <4> QED BY <2>1, <4>3, <4>4 DEF OnTrack
    <3> QED BY <3>1, <3>3, <3>4
  <2>5. CASE Collects(b, p, q) /\ p <= buffer_
    <3>1. in_fragmented_record /\ scratch[1].rec = file[p].rec
      BY <2>5 DEF Collects
    <3>2. ~resyncing_ /\ scratch \in Seq(Fragments) /\ scratch # <<>>
      BY <1>0, <3>1 DEF LogInv, Collecting, Chained
    <3>3. t \in {kMiddleType, kLastType}
      <4>1. PICK s \in DOMAIN file : s = buffer_ + 1
        BY <1>0
      <4>2. p < s /\ s <= q
        BY <1>0, <1>1, <1>4, <2>5, <4>1
      <4>3. IsContinuation(file[s])
        BY <1>0, <4>1, <4>2, InsideRecord
      <4> QED BY <1>0, <4>1, <4>3 DEF IsContinuation
    <3>4. PICK fs : fs = Append(scratch, Payload)
      OBVIOUS
    <3>5. fs \in Seq(Fragments) /\ fs # <<>> /\ fs[1].rec = file[p].rec
      <4>1. PICK n \in Nat : n = Len(scratch) /\ n >= 1
        BY <3>2
      <4>2. fs \in Seq(Fragments) /\ Len(fs) = n + 1 /\ fs[1] = scratch[1]
        BY <1>0, <3>2, <3>4, <4>1
      <4> QED BY <3>1, <4>1, <4>2
    <3>6. CASE t = kLastType
      <4>1. t # kFullType
        BY <3>6
      <4>2. Found(p)' \/ returned' = Append(returned, fs)
        BY <3>1, <3>2, <3>4, <3>6, <4>1
      <4>3. Found(p)'
        BY <2>3, <3>5, <4>2
      <4> QED BY <4>3 DEF OnTrack
    <3>7. CASE t = kMiddleType
      <4>1. buffer_' # q
        BY <1>1, <2>1, <3>7
      <4>2. buffer_' < q /\ p <= buffer_'
        BY <1>0, <1>1, <2>1, <2>5, <4>1
      <4>3. pc' = "read" /\ in_fragmented_record' /\ scratch'[1].rec = file[p].rec
        BY <3>1, <3>2, <3>4, <3>5, <3>7
      <4>4. Collects(b, p, q)'
        BY <1>2, <2>1, <4>2, <4>3 DEF Collects
      <4> QED BY <2>1, <4>3, <4>4 DEF OnTrack
    <3> QED BY <3>3, <3>6, <3>7
  <2> QED
    <3>1. buffer_ + 1 < p \/ buffer_ + 1 = p \/ p <= buffer_
      BY <1>0, <1>1
    <3>2. p <= buffer_ => Collects(b, p, q)
      BY <1>0, <1>1, <1>4
    <3> QED BY <2>2, <2>4, <2>5, <3>1, <3>2
<1> QED BY <1>3, <1>4, SeekingCases

(* Every round of the loop of ReadRecord() keeps the reader on its way.    *)
LEMMA ReadRecordLoopTrack ==
  ASSUME LogInv, Frozen, RecordsInOrder, StartComesFirst,
         NEW p \in DOMAIN file, NEW q \in DOMAIN file, Recoverable(p, q),
         NEW b \in Nat, BufferIn(b), Approaches(b, p) \/ Collects(b, p, q),
         ResyncSkip \/ FullRecord \/ FirstRecord \/ MissingStart \/ MiddleRecord \/ LastRecord
  PROVE  OnTrack(p, q)'
<1> USE DEF kFullType, kFirstType, kMiddleType, kLastType
<1> DEFINE Types == {kFullType, kFirstType, kMiddleType, kLastType}
<1>1. ASSUME NEW t \in Types, Type(t) PROVE pc = "read"
  BY <1>1 DEF Type, AtPhysicalRecord, AtHeader
<1>2. CASE FullRecord
  <2>1. PICK t \in Types : t = kFullType
    OBVIOUS
  <2>2. Type(t) /\ ConsumeRecord
    BY <1>2, <2>1 DEF FullRecord
  <2>3. pc' = "call" /\ returned' = Append(returned, <<Payload>>)
    BY <1>2 DEF FullRecord, Return
  <2>4. t = kFullType /\ t # kFirstType /\ t # kMiddleType
    BY <2>1
  <2>5. returned' = Append(returned, IF t = kFullType THEN <<Payload>> ELSE Append(scratch, Payload))
    BY <2>3, <2>4
  <2> QED BY <2>2, <2>3, <2>4, <2>5, ConsumeTrack
<1>3. CASE FirstRecord
  <2>1. PICK t \in Types : t = kFirstType
    OBVIOUS
  <2>2. Type(t) /\ ConsumeRecord
    BY <1>3, <2>1 DEF FirstRecord
  <2>3. pc' = "read" /\ in_fragmented_record' /\ scratch' = <<Payload>>
    BY <1>1, <1>3, <2>2 DEF FirstRecord
  <2>4. t # kFullType /\ t # kMiddleType /\ t # kLastType
    BY <2>1
  <2> QED BY <2>2, <2>3, <2>4, ConsumeTrack
<1>4. CASE MissingStart \/ ResyncSkip
  <2>1. PICK t \in Types : t \in {kMiddleType, kLastType} /\ Type(t)
    BY <1>4 DEF MissingStart, ResyncSkip
  <2>2. ConsumeRecord /\ (~in_fragmented_record \/ resyncing_) /\ pc' = pc
    BY <1>4 DEF MissingStart, ResyncSkip
  <2>3. pc' = "read"
    BY <1>1, <2>1, <2>2
  <2>4. t # kFullType /\ t # kFirstType
    BY <2>1
  <2> QED BY <2>1, <2>2, <2>3, <2>4, ConsumeTrack
<1>5. CASE MiddleRecord
  <2>1. PICK t \in Types : t = kMiddleType
    OBVIOUS
  <2>2. Type(t) /\ ConsumeRecord /\ in_fragmented_record
    BY <1>5, <2>1 DEF MiddleRecord
  <2>3. pc' = "read" /\ in_fragmented_record' /\ scratch' = Append(scratch, Payload)
    BY <1>1, <1>5, <2>2 DEF MiddleRecord
  <2>4. t # kFullType /\ t # kFirstType /\ t # kLastType
    BY <2>1
  <2> QED BY <2>2, <2>3, <2>4, ConsumeTrack
<1>6. CASE LastRecord
  <2>1. PICK t \in Types : t = kLastType
    OBVIOUS
  <2>2. Type(t) /\ ConsumeRecord
    BY <1>6, <2>1 DEF LastRecord
  <2>3. pc' = "call" /\ returned' = Append(returned, Append(scratch, Payload))
    BY <1>6 DEF LastRecord, Return
  <2>4. t # kFullType /\ t # kFirstType /\ t # kMiddleType
    BY <2>1
  <2>5. returned' = Append(returned, IF t = kFullType THEN <<Payload>> ELSE Append(scratch, Payload))
    BY <2>3, <2>4
  <2> QED BY <2>2, <2>3, <2>4, <2>5, ConsumeTrack
<1> QED BY <1>2, <1>3, <1>4, <1>5, <1>6

(* SkipToInitialBlock() does not skip the block of a record that starts at *)
(* or behind initial_offset_: a block is skipped only from its trailer on. *)
LEMMA SkipStopsBefore ==
  ASSUME LogInv, StartComesFirst, NEW p \in DOMAIN file, NEW q \in DOMAIN file, Recoverable(p, q)
  PROVE  \E b \in Nat : InitialBlockStart = BlockStart(b) /\ BlockStart(b) < p
<1>0. /\ p <= q /\ p \in Nat /\ q \in Nat /\ IsLast(file[q]) /\ file[p].at = 1
      /\ initial_offset_ <= p - 1 /\ initial_offset_ \in Nat /\ file[p] \in AnyByte /\ p >= 1
  BY RecoverableFacts, BufferTypes, FileTypes DEF LogInv
<1>1. PICK o \in Nat : o = initial_offset_
  BY <1>0
<1>2. BlockOf(o) \in Nat
  BY BlockRange
<1>3. PICK c \in Nat : c = BlockOf(o)
  BY <1>2
<1>4. /\ BlockStart(c) \in Nat /\ BlockStart(c) <= o /\ o < BlockStart(c) + kBlockSize
      /\ InBlock(o) = o - BlockStart(c)
  BY <1>3, BlockRange
<1>5. PICK B \in Nat, k \in Nat, h \in Nat, l \in Nat :
        B = BlockStart(c) /\ k = kBlockSize /\ h = H /\ l = file[p].len
  BY <1>0, <1>4, HeaderAndBlock DEF AnyByte
<1>6. CASE o - B > k - (h - 1)
  <2>1. InitialBlockStart = (c + 1) * k
    BY <1>1, <1>3, <1>4, <1>5, <1>6, HeaderAndBlock DEF InitialBlockStart
  <2>2. PICK b \in Nat : b = c + 1
    OBVIOUS
  <2>3. b * k = k * b /\ k * b = (k * c) + k
    BY <2>2
  <2>4. InitialBlockStart = BlockStart(b) /\ BlockStart(b) = B + k
    BY <1>5, <2>1, <2>2, <2>3 DEF BlockStart
  <2>5. B + k < p
    <3> SUFFICES ASSUME p <= B + k PROVE FALSE
      BY <1>0
    <3>1. B < p /\ B < q
      BY <1>0, <1>1, <1>4, <1>5
    <3>2. WellFormed(c)
      BY <1>5, <3>1, RecoverableFacts
    <3>3. p - 1 + H + file[p].len <= B + kBlockSize
      BY <1>0, <1>5, <3>1, <3>2, WholeRun DEF LogInv
    <3>4. p - 1 + h + l <= B + k
      BY <1>5, <3>3
    <3> QED BY <1>0, <1>1, <1>6, <3>4
  <2> QED BY <2>4, <2>5
<1>7. CASE ~(o - B > k - (h - 1))
  <2>1. InitialBlockStart = (c + 0) * k
    BY <1>1, <1>3, <1>4, <1>5, <1>7, HeaderAndBlock DEF InitialBlockStart
  <2>2. (c + 0) * k = k * c
    OBVIOUS
  <2>3. InitialBlockStart = BlockStart(c) /\ B < p
    BY <1>0, <1>1, <1>4, <1>5, <2>1, <2>2 DEF BlockStart
  <2> QED BY <1>5, <2>3
<1> QED BY <1>6, <1>7

LEMMA ReadRecordTrack ==
  ASSUME LogInv, Frozen, StartComesFirst, FirstCall, NEW p \in DOMAIN file, NEW q \in DOMAIN file,
         Recoverable(p, q), NEW b \in Nat, BufferIn(b), Approaches(b, p) \/ Collects(b, p, q),
         ReadRecord
  PROVE  OnTrack(p, q)'
<1>1. pc = "call" /\ pc' = "read" /\ eof_' = eof_ /\ file' = file
  BY FrozenFile DEF ReadRecord, LogInv
<1>2. \A c : BlockStart(c)' = BlockStart(c)
  BY DEF BlockStart
<1>3. CASE ~Skips
  <2>1. end_of_buffer_offset_' = end_of_buffer_offset_ /\ buffer_' = buffer_
    BY <1>3 DEF ReadRecord
  <2>2. Approaches(b, p)
    BY <1>1 DEF Collects
  <2>3. BufferIn(b)' /\ Approaches(b, p)'
    BY <1>1, <1>2, <2>1, <2>2 DEF BufferIn, Approaches, FragmentEnd
  <2> QED BY <1>1, <2>3 DEF OnTrack
<1>4. CASE Skips
  <2>1. end_of_buffer_offset_' = InitialBlockStart /\ buffer_' = InitialBlockStart
    BY <1>4 DEF ReadRecord
  <2>2. ~eof_
    BY <1>1, <1>4, SkipsOnlyFirst DEF FirstCall
  <2>3. PICK c \in Nat : InitialBlockStart = BlockStart(c) /\ BlockStart(c) < p
    BY SkipStopsBefore
  <2>4. PICK B \in Nat, k \in Nat : B = BlockStart(c) /\ k = kBlockSize
    BY BlockRange, HeaderAndBlock
  <2>5. B <= B /\ B <= B + k
    OBVIOUS
  <2>6. BufferIn(c)' /\ Approaches(c, p)'
    BY <1>1, <1>2, <2>1, <2>2, <2>3, <2>4, <2>5 DEF BufferIn, Approaches, FragmentEnd
  <2> QED BY <1>1, <2>6 DEF OnTrack
<1> QED BY <1>3, <1>4

(* A reader that has not read yet approaches every record.                 *)
LEMMA FreshTrack ==
  LogInv /\ ~eof_ /\ pc # "eof" /\ buffer_ = 0 /\ end_of_buffer_offset_ = 0 => Track
<1> SUFFICES ASSUME LogInv, ~eof_, pc # "eof", buffer_ = 0, end_of_buffer_offset_ = 0,
                    NEW p \in DOMAIN file, NEW q \in DOMAIN file
             PROVE  OnTrack(p, q)
  BY DEF Track
<1>1. PICK b \in Nat : b = 0
  OBVIOUS
<1>2. BlockStart(b) = 0 /\ kBlockSize \in Nat /\ p \in Nat /\ p >= 1
  BY <1>1, HeaderAndBlock, FileTypes DEF BlockStart, LogInv
<1>3. BufferIn(b) /\ Approaches(b, p)
  BY <1>2 DEF BufferIn, Approaches, FragmentEnd
<1> QED BY <1>3 DEF OnTrack

LEMMA FoundStays ==
  ASSUME LogInv, Frozen, ReaderNext, NEW p \in DOMAIN file
  PROVE  /\ returned' = returned \/ \E fs : returned' = Append(returned, fs)
         /\ Found(p) => Found(p)'
<1>1. returned' = returned \/ \E fs : returned' = Append(returned, fs)
  <2>1. CASE ReadRecord \/ SkipFails
    BY <2>1 DEF ReadRecord, SkipFails
  <2>2. CASE ReadPhysicalRecord
    BY <2>2 DEF ReadPhysicalRecord, RefillBuffer, ReadFails, TruncatedHeader, UnreadableHeader,
                BadRecordLength, ZeroRecord, ChecksumMismatch, SkipRecord, ReturnEof, DropBadRecord
  <2>3. CASE ResyncSkip \/ FirstRecord \/ MissingStart \/ MiddleRecord
    BY <2>3 DEF ResyncSkip, FirstRecord, MissingStart, MiddleRecord
  <2>4. CASE FullRecord \/ LastRecord
    BY <2>4 DEF FullRecord, LastRecord, Return
  <2> QED BY <2>1, <2>2, <2>3, <2>4 DEF ReaderNext
<1>2. file' = file /\ returned \in Seq(Seq(Fragments))
  BY FrozenFile DEF LogInv, ReturnedRight
<1>3. ASSUME Found(p) PROVE Found(p)'
  <2>1. PICK i \in DOMAIN returned : returned[i][1].rec = file[p].rec
    BY <1>3 DEF Found
  <2>2. i \in DOMAIN returned' /\ returned'[i] = returned[i]
    <3>1. CASE returned' = returned
      BY <3>1
    <3>2. ASSUME NEW fs, returned' = Append(returned, fs)
          PROVE  i \in DOMAIN returned' /\ returned'[i] = returned[i]
      <4>1. PICK S : S = Seq(Fragments) \cup {fs}
        OBVIOUS
      <4>2. returned \in Seq(S) /\ fs \in S
        BY <1>2, <4>1
      <4> HIDE <1>2
      <4>3. PICK n \in Nat : n = Len(returned) /\ DOMAIN returned = 1 .. n /\ i \in 1 .. n
        BY <4>2
      <4> QED BY <3>2, <4>2, <4>3
    <3> QED BY <1>1, <3>1, <3>2
  <2> QED BY <1>2, <2>1, <2>2 DEF Found
<1> QED BY <1>1, <1>3

LEMMA RecoverableStays ==
  ASSUME file' = file, initial_offset_' = initial_offset_, NEW p, NEW q
  PROVE  Recoverable(p, q)' <=> Recoverable(p, q)
<1>1. \A b : WellFormed(b)' <=> WellFormed(b)
  BY DEF WellFormed, LastByteOf, BlockOf, InBlock
<1>2. \A x : BlockOf(x)' = BlockOf(x)
  BY DEF BlockOf
<1>3. \A x, r : (StartsAt(x, r)' <=> StartsAt(x, r)) /\ (EndsAt(x, r)' <=> EndsAt(x, r))
  BY DEF StartsAt, EndsAt, LastByteOf
<1> QED BY <1>1, <1>2, <1>3 DEF Recoverable

LEMMA ReadingTrack ==
  ASSUME DamageInv, Reading, AlarmInv'
  PROVE  DamageInv'
<1>1. Frozen /\ ReaderNext /\ LogInv /\ RecordsInOrder /\ StartComesFirst
  BY DEF Reading, Frozen, DamageInv, AlarmInv
<1>2. file' = file
  BY <1>1, FrozenFile DEF LogInv
<1>3. /\ pc \in {"call", "read"} /\ pc' # "off" /\ initial_offset_' = initial_offset_
      /\ read_error => read_error'
  BY <1>1, ReaderRuns
<1>4. RecordsInOrder' /\ StartComesFirst'
  BY <1>1, <1>2 DEF RecordsInOrder, StartComesFirst, IsStart
<1>5. FirstCall'
  <2> SUFFICES ASSUME pc' = "call" PROVE returned' # <<>>
    BY DEF FirstCall
  <2>1. CASE ReadRecord \/ SkipFails
    BY <2>1 DEF ReadRecord, SkipFails
  <2>2. CASE ReadPhysicalRecord
    BY <2>2 DEF ReadPhysicalRecord, RefillBuffer, ReadFails, TruncatedHeader, UnreadableHeader,
                BadRecordLength, ZeroRecord, ChecksumMismatch, SkipRecord, ReturnEof, DropBadRecord,
                AtPhysicalRecord, AtHeader
  <2>3. CASE ResyncSkip \/ FirstRecord \/ MissingStart \/ MiddleRecord
    BY <2>3 DEF ResyncSkip, FirstRecord, MissingStart, MiddleRecord, Type, AtPhysicalRecord, AtHeader
  <2>4. CASE FullRecord \/ LastRecord
    <3>1. PICK fs : returned' = Append(returned, fs)
      BY <2>4 DEF FullRecord, LastRecord, Return
    <3>2. returned \in Seq(Seq(Fragments))
      BY <1>1 DEF LogInv, ReturnedRight
    <3> QED BY <3>1, <3>2
  <2> QED BY <1>1, <2>1, <2>2, <2>3, <2>4 DEF ReaderNext
<1>6. ASSUME NEW p \in DOMAIN file, NEW q \in DOMAIN file, Recoverable(p, q)'
      PROVE  OnTrack(p, q)'
  <2>1. Recoverable(p, q)
    BY <1>2, <1>3, <1>6, RecoverableStays
  <2>2. OnTrack(p, q)
    BY <1>3, <2>1 DEF DamageInv, Track
  <2>3. CASE Found(p) \/ read_error
    BY <1>1, <1>3, <2>3, FoundStays DEF OnTrack
  <2>4. CASE pc # "eof" /\ \E b \in Nat : BufferIn(b) /\ (Approaches(b, p) \/ Collects(b, p, q))
    <3>1. PICK b \in Nat : BufferIn(b) /\ (Approaches(b, p) \/ Collects(b, p, q))
      BY <2>4
    <3>2. CASE ReadRecord
      BY <1>1, <2>1, <3>1, <3>2, ReadRecordTrack DEF DamageInv
    <3>3. CASE SkipFails
      BY <3>3 DEF SkipFails, OnTrack
    <3>4. CASE ReadPhysicalRecord
      BY <1>1, <2>1, <3>1, <3>4, ReadPhysicalRecordTrack
    <3>5. CASE ResyncSkip \/ FullRecord \/ FirstRecord \/ MissingStart \/ MiddleRecord \/ LastRecord
      BY <1>1, <2>1, <3>1, <3>5, ReadRecordLoopTrack
    <3> QED BY <1>1, <3>2, <3>3, <3>4, <3>5 DEF ReaderNext
  <2> QED BY <2>2, <2>3, <2>4 DEF OnTrack
<1>7. Track'
  BY <1>2, <1>6 DEF Track
<1> QED BY <1>4, <1>5, <1>7 DEF DamageInv

LEMMA DamageStep ==
  ASSUME DamageInv, [Next]_vars
  PROVE  DamageInv'
<1>0. AlarmInv /\ AlarmInv' /\ LogInv' /\ FileInv
  BY AlarmStep DEF DamageInv, AlarmInv, LogInv
<1>1. CASE Writing
  <2>1. pc' = "off" /\ WriterNext
    BY <1>1 DEF Writing, readerVars
  <2>2. RecordsInOrder' /\ StartComesFirst'
    BY <1>0, <2>1, WriterOrder DEF DamageInv
  <2> QED BY <1>0, <2>1, <2>2 DEF DamageInv, FirstCall, Track
<1>2. CASE StartReading
  <2>1. Frozen /\ \E offset \in Offset : Open(offset)
    BY <1>2 DEF StartReading, Frozen
  <2>2. pc' = "call" /\ buffer_' = 0 /\ end_of_buffer_offset_' = 0 /\ ~eof_'
    BY <1>0, <2>1 DEF Open, AlarmInv, ReaderOff
  <2>3. Track'
    <3>1. (LogInv /\ ~eof_ /\ pc # "eof" /\ buffer_ = 0 /\ end_of_buffer_offset_ = 0 => Track)'
      BY FreshTrack, PTL
    <3> QED BY <1>0, <2>2, <3>1
  <2>4. RecordsInOrder' /\ StartComesFirst'
    <3>1. file' = file
      BY <1>0, <2>1, FrozenFile
    <3> QED BY <3>1 DEF DamageInv, RecordsInOrder, StartComesFirst, IsStart
  <2> QED BY <1>0, <2>2, <2>3, <2>4 DEF DamageInv, FirstCall
<1>3. CASE Reading
  BY <1>0, <1>3, ReadingTrack
<1>4. CASE UNCHANGED vars
  <2>1. file' = file /\ UNCHANGED readerVars
    BY <1>4 DEF vars
  <2>2. RecordsInOrder' /\ StartComesFirst' /\ FirstCall'
    BY <2>1 DEF DamageInv, RecordsInOrder, StartComesFirst, IsStart, FirstCall, readerVars
  <2>3. \A p, q : Recoverable(p, q)' <=> Recoverable(p, q)
    BY <2>1, RecoverableStays DEF readerVars
  <2>4. \A b : BlockStart(b)' = BlockStart(b)
    BY DEF BlockStart
  <2>5. \A b, p, q : /\ BufferIn(b)' <=> BufferIn(b)
                     /\ Approaches(b, p)' <=> Approaches(b, p)
                     /\ Collects(b, p, q)' <=> Collects(b, p, q)
    BY <2>1, <2>4 DEF BufferIn, Approaches, Collects, FragmentEnd, IsLast, LastByteOf, readerVars
  <2>6. Track'
    BY <2>1, <2>3, <2>5 DEF DamageInv, Track, OnTrack, Found, readerVars
  <2> QED BY <1>0, <2>2, <2>6 DEF DamageInv
<1> QED BY <1>1, <1>2, <1>3, <1>4 DEF Next, Terminated

(* Whatever was torn, misaligned or damaged, a record whose AddRecord()    *)
(* returned OK and all of whose blocks are well-formed is returned by the  *)
(* reader before ReadRecord() returns false: damage costs at most the      *)
(* records of its own blocks (ReadPhysicalRecord() of log_reader.cpp gives *)
(* up the rest of a block, never more), and SkipToInitialBlock() passes    *)
(* over nothing that starts at or behind initial_offset_.                  *)
THEOREM DamageIsConfined == Spec => []DamageConfined
<1>1. Init => DamageInv
  <2> SUFFICES ASSUME Init PROVE DamageInv
    OBVIOUS
  <2>1. pc = "off" /\ file = <<>>
    BY DEF Init, ReaderInit, WriterInit
  <2>2. DOMAIN file = {}
    BY <2>1
  <2>3. RecordsInOrder /\ StartComesFirst
    BY <2>2 DEF RecordsInOrder, StartComesFirst
  <2> QED BY <2>1, <2>3, InitialAlarm DEF DamageInv, FirstCall, Track
<1>2. DamageInv /\ [Next]_vars => DamageInv'
  BY DamageStep
<1>3. DamageInv => DamageConfined
  <2> SUFFICES ASSUME DamageInv, pc = "eof", ~read_error, NEW r \in acked,
                      NEW p \in DOMAIN file, NEW q \in DOMAIN file,
                      StartsAt(p, r), EndsAt(q, r), p - 1 >= initial_offset_,
                      \A b \in BlockOf(p - 1) .. BlockOf(q - 1) : WellFormed(b)
               PROVE  \E i \in DOMAIN returned : returned[i][1].rec = r
    BY DEF DamageConfined
  <2>1. file[p].rec = r
    BY DEF StartsAt
  <2>2. Recoverable(p, q)
    BY <2>1 DEF Recoverable
  <2>3. Found(p)
    BY <2>2 DEF DamageInv, Track, OnTrack
  <2> QED BY <2>1, <2>3 DEF Found
<1> QED BY <1>1, <1>2, <1>3, PTL DEF Spec
=============================================================================
