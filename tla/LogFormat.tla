------------------------------ MODULE LogFormat -----------------------------
(***************************************************************************)
(* db/log_format.h: a log file is a sequence of blocks of kBlockSize bytes *)
(* filled with physical records, each a header of kHeaderSize bytes and a  *)
(* payload that stays inside the block.                                    *)
(*                                                                         *)
(* A byte knows which physical record it belongs to.  This stands for the  *)
(* checksum, length and type of the header: the bytes found where a header *)
(* is expected are an intact record exactly if they are the bytes of one   *)
(* physical record in order (the crc is taken to tell them apart).         *)
(***************************************************************************)
EXTENDS Integers, Sequences

CONSTANTS kBlockSize,    \* 32768 in the code
          kHeaderSize    \* 7 in the code

ASSUME LogFormatAssumption ==
  /\ kHeaderSize \in Nat \ {0}
  /\ kBlockSize \in Nat
  /\ kBlockSize > kHeaderSize

VARIABLE file    \* the bytes that have reached the operating system

kZeroType == 0
kFullType == 1
kFirstType == 2
kMiddleType == 3
kLastType == 4

(* Byte i of a physical record of type t that holds n bytes of record r,   *)
(* the first of them r's byte number o.                                    *)
Byte(t, r, o, n, i) == [type |-> t, rec |-> r, from |-> o, len |-> n, at |-> i]
PhysicalRecord(t, r, o, n) ==
  [i \in 1 .. kHeaderSize + n |-> Byte(t, r, o, n, i)]

ZeroByte == Byte(kZeroType, 0, 0, 0, 0)    \* block trailers
BadByte == Byte(kZeroType, 0, 0, 0, -1)    \* a byte the disk has damaged

(* Offsets count from 0: the byte at offset p is file[p + 1].              *)
BlockOf(p) == p \div kBlockSize
InBlock(p) == p % kBlockSize
=============================================================================
