--------------------------- MODULE BlockIterator ---------------------------
(***************************************************************************)
(* BlockIterator of src/src/rofl/block.rs, over one decompressed chunk.    *)
(*                                                                         *)
(* A call of next() runs next_block(), which reads the marker, the time,   *)
(* the length, the packet id and the param one after the other and then    *)
(* slices the payload.  Each read is a step here, because each can find    *)
(* too few bytes left and abandon the block with the cursor and acc_time   *)
(* already moved; prev_packet_id and prev_param are set only at the end.   *)
(* Every caller stops at the first error, so nothing follows one.          *)
(*                                                                         *)
(* The code works in 8-bit bytes, 16-bit packet ids and 32-bit words.  The *)
(* number of values of a byte is the constant Base here (256 in the code), *)
(* a packet id is two bytes and a word is four, whatever Base is: the four *)
(* marker bits stay the four highest bits of a byte, a signed byte keeps   *)
(* half of its values negative and a word wraps at Base^4.  Base = 16      *)
(* keeps every number inside TLC's 32-bit integers.                        *)
(*                                                                         *)
(* Times are whole milliseconds: the word of an absolute f32 timestamp     *)
(* stands for the time it denotes, in that unit.                           *)
(***************************************************************************)
EXTENDS Integers, Sequences

CONSTANT Base

ASSUME BaseAssumption == Base \in Nat \ {0} /\ Base % 16 = 0

Byte    == 0 .. Base - 1
WordMod == Base * Base * Base * Base
Word    == 0 .. WordMod - 1
Id      == 0 .. Base * Base - 1

-----------------------------------------------------------------------------
(* The marker byte: 0x80, 0x40, 0x20 and 0x10 when Base = 256.             *)

MARKER_TS_RELATIVE     == Base \div 2
MARKER_REUSE_PACKET_ID == Base \div 4
MARKER_PARAM_RELATIVE  == Base \div 8
MARKER_LEN_U8          == Base \div 16

Has(marker, bit) == (marker \div bit) % 2 = 1

-----------------------------------------------------------------------------
(* Little-endian reads at a 0-based cursor; the caller has made sure that  *)
(* the bytes exist.                                                        *)

U8(buf, c)  == buf[c + 1]
U16(buf, c) == buf[c + 1] + Base * buf[c + 2]
U32(buf, c) == U16(buf, c) + Base * Base * U16(buf, c + 2)

\* `as i8`: the upper half of the byte values is negative.
Mutant_AsI8_unsigned(b) == b

AsI8(b) == IF b < Base \div 2 THEN b ELSE b - Base

\* wrapping_add_signed: the sum wraps around the word.
Mutant_WrappingAddSigned_unwrapped(p, d) == p + d

WrappingAddSigned(p, d) == (p + d) % WordMod

-----------------------------------------------------------------------------
(* Bytes a block's fields take, by its marker.                             *)

TsWidth(marker)    == IF Has(marker, MARKER_TS_RELATIVE)     THEN 1 ELSE 4
LenWidth(marker)   == IF Has(marker, MARKER_LEN_U8)          THEN 1 ELSE 4
IdWidth(marker)    == IF Has(marker, MARKER_REUSE_PACKET_ID) THEN 0 ELSE 2
ParamWidth(marker) == IF Has(marker, MARKER_PARAM_RELATIVE)  THEN 1 ELSE 4

-----------------------------------------------------------------------------
(* The iterator                                                            *)

CONSTANT Buffers   \* the chunk bodies a run may be given

ASSUME BuffersAssumption == \A b \in Buffers : b \in Seq(Byte)

VARIABLES
  buffer,          \* the decompressed body
  cursor,          \* 0-based offset of the next byte to read
  acc_time,
  prev_packet_id,
  prev_param,
  field,           \* the read next_block does next; "marker" between calls
  block,           \* the fields of the current block read so far
  yielded,         \* the blocks returned as Some(Ok(..)), in order
  outcome          \* "running", "none" (end of chunk) or "error"

carried == <<acc_time, prev_packet_id, prev_param>>
vars == <<buffer, cursor, carried, field, block, yielded, outcome>>

NoBlock == [offset |-> 0, marker |-> 0, timestamp |-> 0, length |-> 0,
            packet_id |-> 0, param |-> 0, payload |-> <<>>]

-----------------------------------------------------------------------------
(* new() *)
IteratorInit ==
  /\ cursor = 0
  /\ acc_time = 0 /\ prev_packet_id = 0 /\ prev_param = 0
  /\ field = "marker"
  /\ block = NoBlock
  /\ yielded = <<>>
  /\ outcome = "running"

Init == buffer \in Buffers /\ IteratorInit

\* Bytes the pending read takes.
Width ==
  CASE field = "marker"    -> 1
    [] field = "timestamp" -> TsWidth(block.marker)
    [] field = "length"    -> LenWidth(block.marker)
    [] field = "packet_id" -> IdWidth(block.marker)
    [] field = "param"     -> ParamWidth(block.marker)
    [] field = "payload"   -> block.length

Mutant_Need_strict(n) == cursor + n < Len(buffer)

\* need(): a read past the end of the buffer is an error.
Need(n) == cursor + n <= Len(buffer)

\* The pending read succeeds and f is read next.
Read(f, next) ==
  /\ outcome = "running" /\ field = f
  /\ Need(Width)
  /\ cursor' = cursor + Width
  /\ field' = next
  /\ UNCHANGED <<buffer, outcome>>

\* What next() asks before it reads a block.
AtEnd == field = "marker" /\ cursor >= Len(buffer)

ReadMarker ==
  /\ ~ AtEnd /\ Read("marker", "timestamp")
  /\ block' = [NoBlock EXCEPT !.offset = cursor, !.marker = U8(buffer, cursor)]
  /\ UNCHANGED <<carried, yielded>>

ReadTimestamp ==
  /\ Read("timestamp", "length")
  /\ acc_time' = IF Has(block.marker, MARKER_TS_RELATIVE)
                 THEN acc_time + U8(buffer, cursor)
                 ELSE U32(buffer, cursor)
  /\ block' = [block EXCEPT !.timestamp = acc_time']
  /\ UNCHANGED <<prev_packet_id, prev_param, yielded>>

ReadLength ==
  /\ Read("length", "packet_id")
  /\ block' = [block EXCEPT !.length = IF Has(block.marker, MARKER_LEN_U8)
                                       THEN U8(buffer, cursor)
                                       ELSE U32(buffer, cursor)]
  /\ UNCHANGED <<carried, yielded>>

ReadPacketId ==
  /\ Read("packet_id", "param")
  /\ block' = [block EXCEPT !.packet_id = IF Has(block.marker, MARKER_REUSE_PACKET_ID)
                                          THEN prev_packet_id
                                          ELSE U16(buffer, cursor)]
  /\ UNCHANGED <<carried, yielded>>

ReadParam ==
  /\ Read("param", "payload")
  /\ block' = [block EXCEPT !.param =
                 IF Has(block.marker, MARKER_PARAM_RELATIVE)
                 THEN WrappingAddSigned(prev_param, AsI8(U8(buffer, cursor)))
                 ELSE U32(buffer, cursor)]
  /\ UNCHANGED <<carried, yielded>>

\* The cursor is left at the start of the payload it has just sliced.
Mutant_TakePayload_cursor_stays ==
  /\ outcome = "running" /\ field = "payload"
  /\ Need(Width)
  /\ LET b == [block EXCEPT !.payload = SubSeq(buffer, cursor + 1, cursor + block.length)]
     IN  /\ block' = NoBlock
         /\ yielded' = Append(yielded, b)
  /\ prev_packet_id' = block.packet_id
  /\ prev_param' = block.param
  /\ field' = "marker"
  /\ UNCHANGED <<buffer, cursor, acc_time, outcome>>

\* Only a complete block is returned and remembered.
TakePayload ==
  /\ Read("payload", "marker")
  /\ LET b == [block EXCEPT !.payload = SubSeq(buffer, cursor + 1, cursor + block.length)]
     IN  /\ block' = NoBlock
         /\ yielded' = Append(yielded, b)
  /\ prev_packet_id' = block.packet_id
  /\ prev_param' = block.param
  /\ UNCHANGED acc_time

\* Without the test the slice would panic: the iterator answers nothing at all.
Mutant_FramingError_payload_unchecked ==
  /\ outcome = "running" /\ ~ AtEnd /\ field # "payload"
  /\ ~ Need(Width)
  /\ outcome' = "error"
  /\ UNCHANGED <<buffer, cursor, carried, field, block, yielded>>

\* Some(Err(BlockFraming)): the block in progress is abandoned.
FramingError ==
  /\ outcome = "running" /\ ~ AtEnd
  /\ ~ Need(Width)
  /\ outcome' = "error"
  /\ UNCHANGED <<buffer, cursor, carried, field, block, yielded>>

\* None: the cursor has reached the end between two blocks.
EndOfChunk ==
  /\ outcome = "running" /\ AtEnd
  /\ outcome' = "none"
  /\ UNCHANGED <<buffer, cursor, carried, field, block, yielded>>

Next == \/ ReadMarker \/ ReadTimestamp \/ ReadLength \/ ReadPacketId
        \/ ReadParam \/ TakePayload \/ FramingError \/ EndOfChunk

Spec == Init /\ [][Next]_vars

-----------------------------------------------------------------------------
Fields == {"marker", "timestamp", "length", "packet_id", "param", "payload"}

BlockType == [offset : Nat, marker : Byte, timestamp : Nat, length : Word,
              packet_id : Id, param : Word, payload : Seq(Byte)]

TypeOK ==
  /\ buffer \in Seq(Byte)
  /\ cursor \in Nat
  /\ acc_time \in Nat /\ prev_packet_id \in Id /\ prev_param \in Word
  /\ field \in Fields
  /\ block \in BlockType
  /\ yielded \in Seq(BlockType)
  /\ outcome \in {"running", "none", "error"}

HeaderWidth(marker) ==
  1 + TsWidth(marker) + LenWidth(marker) + IdWidth(marker) + ParamWidth(marker)

\* Where a block's bytes end, from its own fields.
End(b) == b.offset + HeaderWidth(b.marker) + b.length

\* Where the bytes of the first n returned blocks end.
Reached(n) == IF n = 0 THEN 0 ELSE End(yielded[n])

\* The returned blocks tile the buffer from its first byte, with neither a
\* gap nor an overlap, and each payload is the slice its header announced.
\* (BlockIterator hands slices of one buffer to consumers that trust them;
\* block.rs:128-142.)
Tiling ==
  \A i \in 1 .. Len(yielded) :
    LET b == yielded[i] IN
    /\ b.offset = Reached(i - 1)
    /\ End(b) <= Len(buffer)
    /\ b.payload = SubSeq(buffer, End(b) - b.length + 1, End(b))

\* A chunk is reported as finished only when its blocks cover all of it, and
\* as damaged only when the bytes left over cannot hold the block they begin:
\* the returned blocks, one partial header and nothing else (block.rs:158-163).
EndIsExact ==
  /\ outcome = "none"  => Reached(Len(yielded)) = Len(buffer)
  /\ outcome = "error" => /\ block.offset = Reached(Len(yielded))
                          /\ block.offset < Len(buffer)
                          /\ cursor + Width > Len(buffer)
=============================================================================
