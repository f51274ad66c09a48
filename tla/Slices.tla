-------------------------------- MODULE Slices --------------------------------
(***************************************************************************)
(* Byte slices as the accessors of packet.rs and pes.rs see them.  A byte  *)
(* is known by the field it was written for and its place in that field;   *)
(* a byte of flags holds the flags that are set, a length byte a length.   *)
(* `ok' tells whether the marker, prefix or check bits in it are right.    *)
(*                                                                         *)
(* Offsets are those of the code, which count from 0.                      *)
(***************************************************************************)
EXTENDS Integers, Sequences

NewByte(field, n, set, length) ==
  [of |-> field, nr |-> n, flags |-> set, len |-> length, ok |-> TRUE]

Byte(field, n) == NewByte(field, n, {}, 0)

Field(field, size) == [n \in 1..size |-> Byte(field, n)]

FlagsByte(field, set) == <<NewByte(field, 1, set, 0)>>

LengthByte(field, length) == <<NewByte(field, 1, {}, length)>>

(* A field that the flag of its name announces.                            *)
OptionalField(set, field, size) ==
  IF field \in set THEN Field(field, size) ELSE << >>

-------------------------------------------------------------------------------
(* Result<&[u8], _>; the "panic" is the one of an index out of bounds.     *)

Ok(bytes) == [status |-> "ok", bytes |-> bytes]
Err(why) == [status |-> why, bytes |-> << >>]

FieldNotPresent == Err("FieldNotPresent")
NotEnoughData == Err("NotEnoughData")
MarkerBitNotSet == Err("MarkerBitNotSet")

(* &buf[from..to]                                                          *)
Index(buf, from, to) ==
  IF from <= to /\ to <= Len(buf) THEN Ok(SubSeq(buf, from + 1, to))
                                  ELSE Err("panic")

(* The `?' operator, and Result::and_then.                                 *)
Then(result, Use(_)) ==
  IF result.status = "ok" THEN Use(result.bytes) ELSE result

(* A field of which the bytes numbered `where' hold marker bits.           *)
Marked(bytes, where) ==
  IF \A n \in where : bytes[n].ok THEN Ok(bytes) ELSE MarkerBitNotSet

(* Timestamp::from_bytes() checks a marker in the first, third and fifth.  *)
TIMESTAMP_SIZE == 5
TimestampFromBytes(bytes) == Marked(bytes, {1, 3, 5})
===============================================================================
