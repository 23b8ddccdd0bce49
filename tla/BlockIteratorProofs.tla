------------------------ MODULE BlockIteratorProofs ------------------------
(***************************************************************************)
(* BlockIterator never leaves its buffer and its blocks tile it, for every *)
(* body of bytes, well-formed or not, and every size of byte; and whatever *)
(* a recorder wrote in this framing, the iterator reads back as it was     *)
(* meant.                                                                  *)
(***************************************************************************)
EXTENDS BlockStream, SequenceTheorems, TLAPS

(* Two bytes make a packet id, and a byte read as i8 is a number.           *)
LEMMA ByteFacts ==
  ASSUME NEW a \in Byte, NEW b \in Byte
  PROVE  /\ a + Base * b \in Id
         /\ AsI8(a) \in Int
<1>1. Base \in Nat /\ Base > 0
  BY BaseAssumption
<1>2. a + Base * b \in Id
  <2>1. a \in Int /\ b \in Int /\ 0 <= a /\ a <= Base - 1 /\ 0 <= b /\ b <= Base - 1
    BY <1>1 DEF Byte
  <2>2. Base * b <= Base * (Base - 1)
    BY <1>1, <2>1
  <2>3. Base * (Base - 1) = Base * Base - Base
    BY <1>1
  <2>4. 0 <= Base * b /\ Base * b \in Int /\ Base * Base \in Int
    BY <1>1, <2>1
  <2> QED
    BY <1>1, <2>1, <2>2, <2>3, <2>4 DEF Id
<1> QED
  BY <1>1, <1>2 DEF AsI8, Byte

(* The word's modulus is positive, and two ids side by side make a word.    *)
LEMMA WordFacts ==
  /\ WordMod \in Nat /\ WordMod > 0
  /\ \A lo, hi \in Id : lo + Base * Base * hi \in Word
<1> DEFINE B2 == Base * Base
<1>1. Base \in Nat /\ Base > 0
  BY BaseAssumption
<1>2. B2 \in Nat /\ B2 > 0
  BY <1>1
<1>3. WordMod = B2 * B2
  BY <1>1 DEF WordMod
<1>4. ASSUME NEW lo \in Id, NEW hi \in Id
      PROVE  lo + B2 * hi \in Word
  <2> HIDE DEF B2
  <2>1. Id = 0 .. B2 - 1
    BY DEF Id, B2
  <2>2. lo \in Int /\ hi \in Int /\ 0 <= lo /\ lo <= B2 - 1 /\ 0 <= hi /\ hi <= B2 - 1
    BY <1>2, <2>1
  <2>3. B2 * hi <= B2 * (B2 - 1) /\ 0 <= B2 * hi /\ B2 * hi \in Int
    BY <1>2, <2>2
  <2>4. B2 * (B2 - 1) = B2 * B2 - B2 /\ B2 * B2 \in Int
    BY <1>2
  <2> QED
    BY <1>2, <1>3, <2>2, <2>3, <2>4 DEF Word
<1>5. WordMod \in Nat /\ WordMod > 0
  <2> HIDE DEF B2
  <2> QED BY <1>2, <1>3
<1> QED
  BY <1>4, <1>5

(* Every read of n bytes that need() allows gives a value of its width.    *)
LEMMA ReadsInRange ==
  ASSUME NEW buf \in Seq(Byte), NEW c \in Nat
  PROVE  /\ c + 1 <= Len(buf) => U8(buf, c) \in Byte
         /\ c + 2 <= Len(buf) => U16(buf, c) \in Id
         /\ c + 4 <= Len(buf) => U32(buf, c) \in Word
<1>1. ASSUME NEW k \in 1 .. 4, c + k <= Len(buf)
      PROVE  buf[c + k] \in Byte
  BY <1>1
<1>2. c + 1 <= Len(buf) => U8(buf, c) \in Byte
  BY <1>1 DEF U8
<1>3. c + 2 <= Len(buf) => U16(buf, c) \in Id
  BY <1>1, ByteFacts DEF U16
<1>4. ASSUME c + 4 <= Len(buf) PROVE U32(buf, c) \in Word
  <2>1. U16(buf, c) \in Id
    BY <1>3, <1>4
  <2>2. buf[c + 3] \in Byte /\ buf[c + 4] \in Byte
    BY <1>1, <1>4
  <2>3. U16(buf, c + 2) = buf[c + 3] + Base * buf[c + 4]
    BY DEF U16
  <2>4. U16(buf, c + 2) \in Id
    BY <2>2, <2>3, ByteFacts
  <2> QED
    BY <2>1, <2>4, WordFacts DEF U32
<1> QED
  BY <1>2, <1>3, <1>4

(* Every field takes a whole number of bytes, whatever the marker.          *)
LEMMA WidthFacts ==
  ASSUME NEW m \in Byte
  PROVE  /\ TsWidth(m) \in {1, 4} /\ LenWidth(m) \in {1, 4}
         /\ IdWidth(m) \in {0, 2} /\ ParamWidth(m) \in {1, 4}
BY DEF TsWidth, LenWidth, IdWidth, ParamWidth, Has

-----------------------------------------------------------------------------
(***************************************************************************)
(* The inductive invariant: between two calls the cursor stands where the  *)
(* last returned block ends, and inside one it has advanced by exactly the *)
(* widths of the fields read.                                              *)
(***************************************************************************)
HeaderRead ==
  CASE field = "marker"    -> 0
    [] field = "timestamp" -> 1
    [] field = "length"    -> 1 + TsWidth(block.marker)
    [] field = "packet_id" -> 1 + TsWidth(block.marker) + LenWidth(block.marker)
    [] field = "param"     -> 1 + TsWidth(block.marker) + LenWidth(block.marker)
                              + IdWidth(block.marker)
    [] field = "payload"   -> HeaderWidth(block.marker)

Position ==
  /\ cursor <= Len(buffer)
  /\ field = "marker" => cursor = Reached(Len(yielded))
  /\ field # "marker" => /\ block.offset = Reached(Len(yielded))
                         /\ block.offset < Len(buffer)
                         /\ cursor = block.offset + HeaderRead

Stopped ==
  /\ outcome = "none"  => field = "marker" /\ cursor >= Len(buffer)
  /\ outcome = "error" => field # "marker" /\ cursor + Width > Len(buffer)

IInv == TypeOK /\ Tiling /\ Position /\ Stopped

(* A new iterator satisfies the invariant: nothing read, nothing returned.  *)
LEMMA InitIInv == Init => IInv
<1> SUFFICES ASSUME Init PROVE IInv
  OBVIOUS
<1>1. Base \in Nat /\ Base > 0 /\ WordMod \in Nat /\ WordMod > 0
  BY BaseAssumption, WordFacts
<1>2. 0 \in Byte /\ 0 \in Word /\ 0 \in Id
  BY <1>1 DEF Byte, Word, Id
<1>3. TypeOK
  BY <1>2, BuffersAssumption DEF Init, IteratorInit, TypeOK, BlockType, NoBlock, Fields
<1>4. Tiling /\ Position /\ Stopped
  BY <1>3 DEF Init, IteratorInit, Tiling, Position, Stopped, Reached, TypeOK
<1> QED
  BY <1>3, <1>4 DEF IInv

(* The widths of the pending read and of what has been read are numbers.   *)
LEMMA Widths ==
  ASSUME TypeOK
  PROVE  /\ Width \in Nat /\ HeaderRead \in Nat
         /\ field # "payload" => Width <= 4
         /\ field = "marker" => Width = 1
<1>1. block.marker \in Byte /\ block.length \in Word /\ field \in Fields
  BY DEF TypeOK, BlockType
<1>2. Word \subseteq Nat
  BY WordFacts DEF Word
<1> QED
  BY <1>1, <1>2, WidthFacts DEF Width, HeaderRead, HeaderWidth, Fields

(* A block is begun where there is a byte of it.                            *)
LEMMA MarkerThere ==
  ASSUME TypeOK, ReadMarker
  PROVE  field = "marker" /\ cursor \in Nat /\ Len(buffer) \in Nat /\ cursor < Len(buffer)
<1>1. field = "marker" /\ ~ cursor >= Len(buffer)
  BY DEF ReadMarker, Read, AtEnd
<1>2. cursor \in Nat /\ Len(buffer) \in Nat
  BY DEF TypeOK
<1> QED
  BY <1>1, <1>2

(* A completed read that does not return a block keeps the blocks returned *)
(* so far where they are.                                                  *)
LEMMA ReadKeepsTiling ==
  ASSUME Tiling, UNCHANGED <<buffer, yielded>>
  PROVE  /\ Tiling'
         /\ Reached(Len(yielded))' = Reached(Len(yielded))
BY DEF Tiling, Reached, End, HeaderWidth, TsWidth, LenWidth, IdWidth, ParamWidth

(* The sets the fields are drawn from are sets of numbers.                  *)
LEMMA Sizes ==
  /\ Byte \subseteq Nat /\ Word \subseteq Nat /\ Id \subseteq Nat
  /\ Byte \subseteq Word
  /\ 0 \in Byte /\ 0 \in Word /\ 0 \in Id
<1>1. Base \in Nat /\ Base > 0 /\ WordMod \in Nat /\ WordMod > 0
  BY BaseAssumption, WordFacts
<1>2. Base <= Base * Base /\ Base * Base \in Nat
  BY <1>1
<1>3. Base * Base <= (Base * Base) * (Base * Base)
  BY <1>1, <1>2
<1>4. WordMod = (Base * Base) * (Base * Base)
  BY <1>1 DEF WordMod
<1> QED
  BY <1>1, <1>2, <1>3, <1>4 DEF Byte, Word, Id

(* No read takes a field out of its range: one step per read of next_block. *)
LEMMA TypeStep == TypeOK /\ [Next]_vars => TypeOK'
<1> SUFFICES ASSUME TypeOK, [Next]_vars PROVE TypeOK'
  OBVIOUS
<1> USE DEF TypeOK, Fields
<1>1. block \in BlockType /\ buffer \in Seq(Byte) /\ cursor \in Nat /\ Len(buffer) \in Nat
  OBVIOUS
<1>2. Width \in Nat
  BY Widths
<1>3. NoBlock \in BlockType
  BY Sizes DEF NoBlock, BlockType
<1>4. CASE ReadMarker
  <2>1. U8(buffer, cursor) \in Byte
    BY <1>1, <1>4, MarkerThere, ReadsInRange
  <2>2. block' \in BlockType
    BY <1>1, <1>3, <1>4, <2>1 DEF ReadMarker, BlockType, NoBlock
  <2> QED
    BY <1>2, <1>4, <2>2 DEF ReadMarker, Read, carried
<1>5. CASE ReadTimestamp
  <2>1. acc_time' \in Nat
    <3>1. CASE Has(block.marker, MARKER_TS_RELATIVE)
      <4>1. cursor + 1 <= Len(buffer)
        BY <1>5, <3>1 DEF ReadTimestamp, Read, Need, Width, TsWidth
      <4> QED
        BY <1>1, <1>5, <3>1, <4>1, ReadsInRange, Sizes DEF ReadTimestamp
    <3>2. CASE ~ Has(block.marker, MARKER_TS_RELATIVE)
      <4>1. cursor + 4 <= Len(buffer)
        BY <1>5, <3>2 DEF ReadTimestamp, Read, Need, Width, TsWidth
      <4> QED
        BY <1>1, <1>5, <3>2, <4>1, ReadsInRange, Sizes DEF ReadTimestamp
    <3> QED
      BY <3>1, <3>2
  <2>2. block' \in BlockType
    BY <1>1, <1>5, <2>1 DEF ReadTimestamp, BlockType
  <2> QED
    BY <1>2, <1>5, <2>1, <2>2 DEF ReadTimestamp, Read
<1>6. CASE ReadLength
  <2> DEFINE v == IF Has(block.marker, MARKER_LEN_U8)
                  THEN U8(buffer, cursor) ELSE U32(buffer, cursor)
  <2>1. v \in Word
    <3>1. CASE Has(block.marker, MARKER_LEN_U8)
      <4>1. cursor + 1 <= Len(buffer)
        BY <1>6, <3>1 DEF ReadLength, Read, Need, Width, LenWidth
      <4> QED
        BY <1>1, <3>1, <4>1, ReadsInRange, Sizes
    <3>2. CASE ~ Has(block.marker, MARKER_LEN_U8)
      <4>1. cursor + 4 <= Len(buffer)
        BY <1>6, <3>2 DEF ReadLength, Read, Need, Width, LenWidth
      <4> QED
        BY <1>1, <3>2, <4>1, ReadsInRange
    <3> QED
      BY <3>1, <3>2
  <2>2. block' = [block EXCEPT !.length = v]
    BY <1>6 DEF ReadLength
  <2>3. block' \in BlockType
    <3> HIDE DEF v
    <3> QED BY <1>1, <2>1, <2>2 DEF BlockType
  <2> QED
    BY <1>2, <1>6, <2>3 DEF ReadLength, Read, carried
<1>7. CASE ReadPacketId
  <2> DEFINE v == IF Has(block.marker, MARKER_REUSE_PACKET_ID)
                  THEN prev_packet_id ELSE U16(buffer, cursor)
  <2>1. v \in Id
    <3>1. CASE ~ Has(block.marker, MARKER_REUSE_PACKET_ID)
      <4>1. cursor + 2 <= Len(buffer)
        BY <1>7, <3>1 DEF ReadPacketId, Read, Need, Width, IdWidth
      <4> QED
        BY <1>1, <3>1, <4>1, ReadsInRange
    <3> QED
      BY <3>1
  <2>2. block' = [block EXCEPT !.packet_id = v]
    BY <1>7 DEF ReadPacketId
  <2>3. block' \in BlockType
    <3> HIDE DEF v
    <3> QED BY <1>1, <2>1, <2>2 DEF BlockType
  <2> QED
    BY <1>2, <1>7, <2>3 DEF ReadPacketId, Read, carried
<1>8. CASE ReadParam
  <2> DEFINE v == IF Has(block.marker, MARKER_PARAM_RELATIVE)
                  THEN WrappingAddSigned(prev_param, AsI8(U8(buffer, cursor)))
                  ELSE U32(buffer, cursor)
  <2>1. v \in Word
    <3>1. CASE Has(block.marker, MARKER_PARAM_RELATIVE)
      <4>1. cursor + 1 <= Len(buffer)
        BY <1>8, <3>1 DEF ReadParam, Read, Need, Width, ParamWidth
      <4>2. AsI8(U8(buffer, cursor)) \in Int
        BY <1>1, <4>1, ReadsInRange, ByteFacts
      <4>3. WrappingAddSigned(prev_param, AsI8(U8(buffer, cursor))) \in Word
        BY <4>2, WordFacts DEF WrappingAddSigned, Word
      <4> QED
        BY <3>1, <4>3
    <3>2. CASE ~ Has(block.marker, MARKER_PARAM_RELATIVE)
      <4>1. cursor + 4 <= Len(buffer)
        BY <1>8, <3>2 DEF ReadParam, Read, Need, Width, ParamWidth
      <4> QED
        BY <1>1, <3>2, <4>1, ReadsInRange
    <3> QED
      BY <3>1, <3>2
  <2>2. block' = [block EXCEPT !.param = v]
    BY <1>8 DEF ReadParam
  <2>3. block' \in BlockType
    <3> HIDE DEF v
    <3> QED BY <1>1, <2>1, <2>2 DEF BlockType
  <2> QED
    BY <1>2, <1>8, <2>3 DEF ReadParam, Read, carried
<1>9. CASE TakePayload
  <2> DEFINE p == SubSeq(buffer, cursor + 1, cursor + block.length)
             b == [block EXCEPT !.payload = p]
  <2>1. block.length \in Nat /\ cursor + block.length <= Len(buffer)
    BY <1>1, <1>9, Sizes DEF TakePayload, Read, Need, Width, BlockType
  <2>2. p \in Seq(Byte)
    BY <1>1, <2>1
  <2>3. b \in BlockType
    <3> HIDE DEF p
    <3> QED BY <1>1, <2>2 DEF BlockType
  <2>4. yielded' = Append(yielded, b) /\ block' = NoBlock
    BY <1>9 DEF TakePayload
  <2>5. yielded' \in Seq(BlockType)
    <3> HIDE DEF b
    <3> QED BY <2>3, <2>4
  <2>6. prev_packet_id' \in Id /\ prev_param' \in Word
    BY <1>1, <1>9 DEF TakePayload, BlockType
  <2> QED
    BY <1>2, <1>3, <1>9, <2>4, <2>5, <2>6 DEF TakePayload, Read
<1>10. CASE FramingError
  BY <1>10 DEF FramingError, carried
<1>11. CASE EndOfChunk
  BY <1>11 DEF EndOfChunk, carried
<1>12. CASE UNCHANGED vars
  BY <1>12 DEF vars, carried
<1> QED
  BY <1>4, <1>5, <1>6, <1>7, <1>8, <1>9, <1>10, <1>11, <1>12 DEF Next

-----------------------------------------------------------------------------
(* The reads inside a header move the cursor by what they add to           *)
(* HeaderRead, and leave the returned blocks alone.                        *)
LEMMA HeaderStep ==
  ASSUME IInv, TypeOK',
         ReadTimestamp \/ ReadLength \/ ReadPacketId \/ ReadParam
  PROVE  IInv'
<1> USE DEF IInv
<1>1. Tiling' /\ Reached(Len(yielded))' = Reached(Len(yielded))
  BY ReadKeepsTiling DEF ReadTimestamp, ReadLength, ReadPacketId, ReadParam, Read
<1>2. block.marker \in Byte /\ block \in BlockType /\ cursor \in Nat /\ Len(buffer) \in Nat
  BY DEF TypeOK, BlockType
<1>3. /\ TsWidth(block.marker) \in Nat /\ LenWidth(block.marker) \in Nat
      /\ IdWidth(block.marker) \in Nat /\ ParamWidth(block.marker) \in Nat
  BY <1>2, WidthFacts
<1>4. /\ block'.marker = block.marker /\ block'.offset = block.offset
      /\ buffer' = buffer /\ outcome' = "running"
      /\ field # "marker" /\ field' # "marker"
      /\ cursor' = cursor + Width /\ cursor' <= Len(buffer)
  BY <1>2 DEF ReadTimestamp, ReadLength, ReadPacketId, ReadParam, Read, Need, BlockType
<1>5. HeaderRead' = HeaderRead + Width
  BY <1>3, <1>4 DEF ReadTimestamp, ReadLength, ReadPacketId, ReadParam, Read,
                    HeaderRead, HeaderWidth, Width
<1>6. Position'
  <2>1. HeaderRead \in Nat /\ Width \in Nat /\ block.offset \in Nat
    BY <1>2, Widths DEF BlockType
  <2> QED
    BY <1>1, <1>2, <1>4, <1>5, <2>1 DEF Position
<1>7. Stopped'
  BY <1>4 DEF Stopped
<1> QED
  BY <1>1, <1>6, <1>7

(* A block's offset is where the last returned block ended.                 *)
LEMMA MarkerStep ==
  ASSUME IInv, TypeOK', ReadMarker
  PROVE  IInv'
<1> USE DEF IInv
<1>1. Tiling' /\ Reached(Len(yielded))' = Reached(Len(yielded))
  BY ReadKeepsTiling DEF ReadMarker, Read
<1>2. /\ field = "marker" /\ field' = "timestamp" /\ outcome' = "running"
      /\ cursor < Len(buffer) /\ buffer' = buffer
      /\ cursor' = cursor + 1 /\ block'.offset = cursor
  BY Widths, MarkerThere DEF ReadMarker, Read, NoBlock
<1>3. HeaderRead' = 1
  BY <1>2 DEF HeaderRead
<1>4. Position' /\ Stopped'
  BY <1>1, <1>2, <1>3 DEF Position, Stopped, TypeOK
<1> QED
  BY <1>1, <1>4

(* A returned block begins where the last one ended and ends at the cursor.*)
LEMMA PayloadStep ==
  ASSUME IInv, TypeOK', TakePayload
  PROVE  IInv'
<1> USE DEF IInv
<1> DEFINE b == [block EXCEPT !.payload = SubSeq(buffer, cursor + 1, cursor + block.length)]
           n == Len(yielded)
<1>1. /\ field = "payload" /\ field' = "marker" /\ outcome' = "running"
      /\ buffer' = buffer /\ yielded' = Append(yielded, b)
      /\ cursor' = cursor + block.length /\ cursor' <= Len(buffer)
  BY DEF TakePayload, Read, Need, Width
<1>2. /\ block \in BlockType /\ cursor \in Nat /\ n \in Nat /\ Len(buffer) \in Nat
      /\ yielded \in Seq(BlockType) /\ block.length \in Nat /\ block.offset \in Nat
  <2>1. TypeOK
    OBVIOUS
  <2>2. block \in BlockType /\ cursor \in Nat /\ buffer \in Seq(Byte) /\ yielded \in Seq(BlockType)
    BY <2>1 DEF TypeOK
  <2>3. block.length \in Word /\ block.offset \in Nat
    BY <2>2 DEF BlockType
  <2>4. n \in Nat /\ Len(buffer) \in Nat
    BY <2>2
  <2>5. block.length \in Nat
    BY <2>3, Sizes
  <2> QED
    BY <2>2, <2>3, <2>4, <2>5
<1>3. /\ b.offset = block.offset /\ b.marker = block.marker /\ b.length = block.length
      /\ b.payload = SubSeq(buffer, cursor + 1, cursor + block.length)
  BY <1>2 DEF BlockType
<1> HIDE DEF b
<1>4. cursor = block.offset + HeaderWidth(block.marker) /\ HeaderWidth(block.marker) \in Nat
  <2>1. HeaderRead = HeaderWidth(block.marker) /\ HeaderRead \in Nat
    BY <1>1, Widths DEF HeaderRead
  <2> QED
    BY <1>1, <2>1 DEF Position
<1>5. End(b) = cursor' /\ b.offset = Reached(n)
  BY <1>1, <1>2, <1>3, <1>4 DEF End, Position
<1>6. /\ Len(yielded') = n + 1 /\ yielded'[n + 1] = b
      /\ \A i \in 1 .. n : yielded'[i] = yielded[i]
  BY <1>1, <1>2
<1>7. \A k \in 0 .. n : Reached(k)' = Reached(k)
  BY <1>2, <1>6 DEF Reached, End, HeaderWidth, TsWidth, LenWidth, IdWidth, ParamWidth
<1>8. Reached(Len(yielded))' = cursor'
  <2>1. Reached(Len(yielded))' = End(b)
    BY <1>2, <1>6 DEF Reached, End, HeaderWidth, TsWidth, LenWidth, IdWidth, ParamWidth
  <2> QED
    BY <1>5, <2>1
<1>9. Tiling'
  <2> SUFFICES ASSUME NEW i \in 1 .. n + 1
               PROVE  LET x == yielded'[i] IN
                      /\ x.offset = Reached(i - 1)'
                      /\ End(x) <= Len(buffer)
                      /\ x.payload = SubSeq(buffer, End(x) - x.length + 1, End(x))
    BY <1>1, <1>6 DEF Tiling, End, HeaderWidth, TsWidth, LenWidth, IdWidth, ParamWidth
  <2>1. CASE i \in 1 .. n
    BY <1>2, <1>6, <1>7, <2>1 DEF Tiling
  <2>2. CASE i = n + 1
    <3>1. End(b) - b.length + 1 = cursor + 1 /\ End(b) = cursor + block.length
      BY <1>1, <1>2, <1>3, <1>5
    <3>2. yielded'[i] = b /\ Reached(i - 1)' = Reached(n) /\ n \in 0 .. n
      BY <1>2, <1>6, <1>7, <2>2
    <3>3. End(b) <= Len(buffer)
      BY <1>1, <1>5
    <3>4. b.payload = SubSeq(buffer, End(b) - b.length + 1, End(b))
      BY <1>3, <3>1
    <3> QED
      BY <1>5, <3>2, <3>3, <3>4
  <2> QED
    BY <1>2, <2>1, <2>2
<1>10. Position'
  BY <1>1, <1>8 DEF Position
<1>11. Stopped'
  BY <1>1 DEF Stopped
<1> QED
  BY <1>9, <1>10, <1>11

(* Every step of next_block keeps the invariant.                            *)
LEMMA StepIInv == IInv /\ [Next]_vars => IInv'
<1> SUFFICES ASSUME IInv, [Next]_vars PROVE IInv'
  OBVIOUS
<1>1. TypeOK'
  BY TypeStep DEF IInv
<1>2. CASE ReadMarker
  BY <1>1, <1>2, MarkerStep
<1>3. CASE ReadTimestamp \/ ReadLength \/ ReadPacketId \/ ReadParam
  BY <1>1, <1>3, HeaderStep
<1>4. CASE TakePayload
  BY <1>1, <1>4, PayloadStep
<1>5. CASE FramingError \/ EndOfChunk \/ UNCHANGED vars
  <2>1. UNCHANGED <<buffer, yielded, cursor, field, block>>
    BY <1>5 DEF FramingError, EndOfChunk, vars
  <2>2. Tiling' /\ Reached(Len(yielded))' = Reached(Len(yielded))
    BY <2>1, ReadKeepsTiling DEF IInv
  <2>3. HeaderRead' = HeaderRead /\ Width' = Width
    BY <2>1 DEF HeaderRead, Width, HeaderWidth, TsWidth, LenWidth, IdWidth, ParamWidth
  <2>4. Position'
    BY <2>1, <2>2, <2>3 DEF IInv, Position
  <2>5. Stopped'
    <3>1. cursor \in Nat /\ Len(buffer) \in Nat /\ Width \in Nat
      BY Widths DEF IInv, TypeOK
    <3>2. CASE FramingError
      <4>1. field # "marker"
        BY <3>1, <3>2 DEF FramingError, AtEnd, Need, Width
      <4> QED
        BY <2>1, <2>3, <3>1, <3>2, <4>1 DEF FramingError, Stopped, Need
    <3>3. CASE EndOfChunk
      BY <2>1, <3>3 DEF EndOfChunk, AtEnd, Stopped
    <3>4. CASE UNCHANGED vars
      BY <2>1, <2>3, <3>4 DEF vars, Stopped, IInv
    <3> QED
      BY <1>5, <3>2, <3>3, <3>4
  <2> QED
    BY <1>1, <2>2, <2>4, <2>5 DEF IInv
<1> QED
  BY <1>2, <1>3, <1>4, <1>5 DEF Next

(* The invariant holds in every state an iterator can reach.                *)
LEMMA Invariance == Spec => []IInv
BY InitIInv, StepIInv, PTL DEF Spec

-----------------------------------------------------------------------------
(* Ids, params and marker bytes stay in their widths, whatever the bytes   *)
(* of the chunk are: the delta arithmetic never leaves the word.           *)
THEOREM TypeCorrect == Spec => []TypeOK
<1>1. IInv => TypeOK
  BY DEF IInv
<1> QED
  BY <1>1, Invariance, PTL

(* The payloads handed out never reach outside the chunk, never overlap    *)
(* and leave no byte between two blocks unaccounted for.                   *)
THEOREM BlocksTile == Spec => []Tiling
<1>1. IInv => Tiling
  BY DEF IInv
<1> QED
  BY <1>1, Invariance, PTL

(* A chunk is reported finished only when its blocks cover all of it, and  *)
(* damaged only when what is left cannot hold the block it begins.         *)
THEOREM EndsExactly == Spec => []EndIsExact
<1>1. IInv => EndIsExact
  <2> SUFFICES ASSUME IInv PROVE EndIsExact
    OBVIOUS
  <2>1. cursor \in Nat /\ Len(buffer) \in Nat
    BY DEF IInv, TypeOK
  <2> QED
    BY <2>1 DEF IInv, Position, Stopped, EndIsExact
<1> QED
  BY <1>1, Invariance, PTL

-----------------------------------------------------------------------------
(* What the recorder writes, the reads recover.                            *)

\* A division that leaves a remainder is the only one.
LEMMA DivisionFacts ==
  ASSUME NEW k \in Nat \ {0}, NEW n \in Nat, NEW r \in 0 .. k - 1
  PROVE  (k * n + r) \div k = n /\ (k * n + r) % k = r
<1> DEFINE x == k * n + r
           q == x \div k
           s == x % k
<1>1. k * n \in Nat /\ x \in Nat /\ r \in Nat
  OBVIOUS
<1> HIDE DEF x
<1>2. q \in Int /\ s \in 0 .. k - 1 /\ x = k * q + s
  BY <1>1
<1>3. x = k * n + r
  BY DEF x
<1> HIDE DEF q, s
<1>4. k * q \in Int
  BY <1>2
<1>5. ~ n < q
  <2> SUFFICES ASSUME n + 1 <= q PROVE FALSE
    BY <1>2
  <2>1. k * (n + 1) <= k * q /\ k * (n + 1) = k * n + k
    BY <1>2
  <2> QED
    BY <1>1, <1>2, <1>3, <1>4, <2>1
<1>6. ~ q < n
  <2> SUFFICES ASSUME q + 1 <= n PROVE FALSE
    BY <1>2
  <2>1. k * (q + 1) <= k * n /\ k * (q + 1) = k * q + k
    BY <1>2
  <2> QED
    BY <1>1, <1>2, <1>3, <1>4, <2>1
<1>7. q = n
  BY <1>2, <1>5, <1>6
<1>8. s = r
  BY <1>1, <1>2, <1>3, <1>7
<1> QED
  BY <1>7, <1>8 DEF x, q, s

\* The remainder of a number up to twice the divisor.
LEMMA Wraps ==
  ASSUME NEW k \in Nat \ {0}, NEW x \in 0 .. k - 1
  PROVE  x % k = x /\ (x + k) % k = x /\ (x - k) % k = x
<1>1. (k * 0 + x) % k = x /\ (k * 1 + x) % k = x
  BY DivisionFacts
<1>2. k * 0 + x = x /\ k * 1 + x = x + k
  OBVIOUS
<1>3. (x - k) % k = x
  <2> DEFINE y == x - k
             q == y \div k
             s == y % k
  <2>1. y \in Int /\ q \in Int /\ s \in 0 .. k - 1 /\ y = k * q + s
    OBVIOUS
  <2>2. y = x - k
    OBVIOUS
  <2> HIDE DEF y, q, s
  <2>3. k * q \in Int /\ k * q = x - k - s
    BY <2>1, <2>2
  <2>4. q = -1
    <3>1. ~ q >= 0
      <4> SUFFICES ASSUME q >= 0 PROVE FALSE
        OBVIOUS
      <4>1. k * q >= 0
        BY <2>1
      <4> QED
        BY <2>1, <2>3, <4>1
    <3>2. ~ q <= -2
      <4> SUFFICES ASSUME q <= -2 PROVE FALSE
        OBVIOUS
      <4>1. k * q <= k * (-2) /\ k * (-2) = -2 * k
        BY <2>1
      <4> QED
        BY <2>1, <2>3, <4>1
    <3> QED
      BY <2>1, <3>1, <3>2
  <2>5. s = x
    BY <2>1, <2>3, <2>4
  <2> QED
    BY <2>5 DEF s, y
<1> QED
  BY <1>1, <1>2, <1>3

\* The marker says which compressions were used.
LEMMA MarkerTells ==
  ASSUME NEW used \in SUBSET {MARKER_TS_RELATIVE, MARKER_REUSE_PACKET_ID, MARKER_PARAM_RELATIVE, MARKER_LEN_U8}
  PROVE  /\ MarkerOf(used) \in Byte
         /\ \A bit \in {MARKER_TS_RELATIVE, MARKER_REUSE_PACKET_ID, MARKER_PARAM_RELATIVE, MARKER_LEN_U8} :
              Has(MarkerOf(used), bit) <=> bit \in used
<1> PICK q : q = Base \div 16
  OBVIOUS
<1>1. q \in Nat \ {0} /\ Base = 16 * q
  BY BaseAssumption
<1>2. /\ MARKER_TS_RELATIVE = 8 * q /\ MARKER_REUSE_PACKET_ID = 4 * q
      /\ MARKER_PARAM_RELATIVE = 2 * q /\ MARKER_LEN_U8 = q
  BY <1>1 DEF MARKER_TS_RELATIVE, MARKER_REUSE_PACKET_ID, MARKER_PARAM_RELATIVE, MARKER_LEN_U8
<1> DEFINE a == IF 8 * q \in used THEN 1 ELSE 0
           b == IF 4 * q \in used THEN 1 ELSE 0
           c == IF 2 * q \in used THEN 1 ELSE 0
           d == IF q \in used THEN 1 ELSE 0
           m == MarkerOf(used)
<1>3. m = 8 * q * a + 4 * q * b + 2 * q * c + q * d
  BY <1>1, <1>2 DEF MarkerOf
<1>4. a \in {0, 1} /\ b \in {0, 1} /\ c \in {0, 1} /\ d \in {0, 1}
  OBVIOUS
<1>5. /\ 8 * q \in used <=> a = 1
      /\ 4 * q \in used <=> b = 1
      /\ 2 * q \in used <=> c = 1
      /\ q \in used <=> d = 1
  OBVIOUS
<1> HIDE DEF a, b, c, d, m
<1>6. m \in 0 .. 16 * q - 1
  BY <1>1, <1>3, <1>4
<1>7. m \div (8 * q) = a
  <2>1. 8 * q \in Nat \ {0} /\ 4 * q * b + 2 * q * c + q * d \in 0 .. 8 * q - 1 /\ a \in Nat
    BY <1>1, <1>4
  <2>2. m = (8 * q) * a + (4 * q * b + 2 * q * c + q * d)
    BY <1>1, <1>3, <1>4
  <2> HIDE DEF a, b, c, d, m
  <2> QED
    BY <2>1, <2>2, DivisionFacts
<1>8. m \div (4 * q) = 2 * a + b
  <2>1. 4 * q \in Nat \ {0} /\ 2 * q * c + q * d \in 0 .. 4 * q - 1 /\ 2 * a + b \in Nat
    BY <1>1, <1>4
  <2>2. m = (4 * q) * (2 * a + b) + (2 * q * c + q * d)
    BY <1>1, <1>3, <1>4
  <2> QED
    BY <2>1, <2>2, DivisionFacts
<1>9. m \div (2 * q) = 4 * a + 2 * b + c
  <2>1. 2 * q \in Nat \ {0} /\ q * d \in 0 .. 2 * q - 1 /\ 4 * a + 2 * b + c \in Nat
    BY <1>1, <1>4
  <2>2. m = (2 * q) * (4 * a + 2 * b + c) + q * d
    BY <1>1, <1>3, <1>4
  <2> QED
    BY <2>1, <2>2, DivisionFacts
<1>10. m \div q = 8 * a + 4 * b + 2 * c + d
  <2>1. q \in Nat \ {0} /\ 0 \in 0 .. q - 1 /\ 8 * a + 4 * b + 2 * c + d \in Nat
    BY <1>1, <1>4
  <2>2. m = q * (8 * a + 4 * b + 2 * c + d) + 0
    BY <1>1, <1>3, <1>4
  <2> QED
    BY <2>1, <2>2, DivisionFacts
<1>11. /\ a % 2 = 1 <=> a = 1
       /\ (2 * a + b) % 2 = 1 <=> b = 1
       /\ (4 * a + 2 * b + c) % 2 = 1 <=> c = 1
       /\ (8 * a + 4 * b + 2 * c + d) % 2 = 1 <=> d = 1
  BY <1>4
<1>12. /\ Has(m, 8 * q) <=> 8 * q \in used
       /\ Has(m, 4 * q) <=> 4 * q \in used
       /\ Has(m, 2 * q) <=> 2 * q \in used
       /\ Has(m, q) <=> q \in used
  BY <1>5, <1>7, <1>8, <1>9, <1>10, <1>11 DEF Has
<1>13. m \in Byte
  BY <1>1, <1>6 DEF Byte
<1> QED
  BY <1>2, <1>12, <1>13 DEF m

\* Two bytes hold an id.
LEMMA BytesOfId ==
  ASSUME NEW v \in Id
  PROVE  LE2(v) \in Seq(Byte) /\ Len(LE2(v)) = 2 /\ U16(LE2(v), 0) = v
<1> DEFINE lo == v % Base
           hi == v \div Base
<1>1. Base \in Nat \ {0} /\ v \in Nat /\ v < Base * Base /\ Base * Base \in Nat
  BY BaseAssumption DEF Id
<1>2. lo \in 0 .. Base - 1 /\ hi \in Nat /\ v = Base * hi + lo
  BY <1>1
<1> HIDE DEF lo, hi
<1>3. hi < Base
  <2> SUFFICES ASSUME hi >= Base PROVE FALSE
    BY <1>1, <1>2
  <2>1. Base * hi >= Base * Base /\ Base * hi \in Nat
    BY <1>1, <1>2
  <2> QED
    BY <1>1, <1>2, <2>1
<1>4. LE2(v) = <<lo, hi>> /\ lo \in Byte /\ hi \in Byte
  BY <1>1, <1>2, <1>3 DEF LE2, Byte, lo, hi
<1>5. U16(<<lo, hi>>, 0) = lo + Base * hi
  BY DEF U16
<1>6. <<lo, hi>> \in Seq(Byte) /\ Len(<<lo, hi>>) = 2
  BY <1>4
<1>7. lo + Base * hi = v
  BY <1>1, <1>2
<1> QED
  BY <1>4, <1>5, <1>6, <1>7

\* Four bytes hold a word.
LEMMA BytesOfWord ==
  ASSUME NEW v \in Word
  PROVE  LE4(v) \in Seq(Byte) /\ Len(LE4(v)) = 4 /\ U32(LE4(v), 0) = v
<1> PICK B : B = Base
  OBVIOUS
<1> DEFINE lo == v % B
           w == v \div B
           mi == w % B
           x == w \div B
           up == x % B
           hi == x \div B
<1>1. B \in Nat \ {0} /\ v \in Nat
  BY BaseAssumption, Sizes
<1>2. lo \in 0 .. B - 1 /\ w \in Nat /\ v = B * w + lo
  BY <1>1
<1>3. mi \in 0 .. B - 1 /\ x \in Nat /\ w = B * x + mi
  BY <1>1, <1>2
<1>4. up \in 0 .. B - 1 /\ hi \in Nat /\ x = B * hi + up
  BY <1>1, <1>3
<1> HIDE DEF lo, w, mi, x, up, hi
<1>5. B * B \in Nat \ {0} /\ B * B * B \in Nat \ {0}
  <2>1. B * B \in Nat \ {0}
    BY <1>1
  <2> QED
    BY <1>1, <2>1
<1>6. v \div (B * B) = x
  <2>1. B * mi <= B * (B - 1) /\ B * mi \in Nat /\ B * (B - 1) = B * B - B
    BY <1>1, <1>3
  <2>2. B * mi + lo \in 0 .. B * B - 1
    BY <1>1, <1>2, <1>5, <2>1
  <2>3. v = (B * B) * x + (B * mi + lo)
    BY <1>1, <1>2, <1>3
  <2> QED
    BY <1>3, <1>5, <2>2, <2>3, DivisionFacts
<1>7. v \div (B * B * B) = hi
  <2>1. w = (B * B) * hi + (B * up + mi)
    BY <1>1, <1>3, <1>4
  <2>2. B * up <= B * (B - 1) /\ B * up \in Nat /\ B * (B - 1) = B * B - B
    BY <1>1, <1>4
  <2> PICK r : r = B * up + mi
    OBVIOUS
  <2>3. r \in 0 .. B * B - 1
    BY <1>1, <1>3, <1>5, <2>2
  <2>4. v = B * ((B * B) * hi + r) + lo
    BY <1>2, <2>1
  <2> PICK C : C = B * B
    OBVIOUS
  <2>5. C \in Nat \ {0} /\ r \in 0 .. C - 1
    BY <1>5, <2>3
  <2>6. B * r <= B * (C - 1) /\ B * r \in Nat /\ B * (C - 1) = B * C - B /\ B * C \in Nat \ {0}
    BY <1>1, <2>5
  <2>7. B * r + lo \in 0 .. B * C - 1
    BY <1>1, <1>2, <2>5, <2>6
  <2>8. v = (B * C) * hi + (B * r + lo)
    <3> PICK e : e = C * hi
      OBVIOUS
    <3>1. e \in Nat /\ r \in Nat /\ B * (e + r) = B * e + B * r
      BY <1>1, <1>4, <2>5
    <3>2. B * e = (B * C) * hi
      BY <1>1, <1>4, <2>5
    <3>3. v = B * (e + r) + lo
      BY <2>4
    <3> QED
      BY <1>1, <1>2, <2>6, <3>1, <3>2, <3>3
  <2>9. v \div (B * C) = hi
    BY <1>4, <2>6, <2>7, <2>8, DivisionFacts
  <2>10. B * B * B = B * C
    BY <1>1
  <2> QED
    BY <2>9, <2>10
<1>8. hi < B
  <2> SUFFICES ASSUME hi >= B PROVE FALSE
    BY <1>1, <1>4
  <2>1. B * hi >= B * B /\ B * hi \in Nat
    BY <1>1, <1>4
  <2>2. x >= B * B
    BY <1>4, <1>5, <2>1
  <2>3. B * x >= B * (B * B) /\ B * x \in Nat
    BY <1>1, <1>3, <1>5, <2>2
  <2>4. w >= B * (B * B)
    BY <1>1, <1>3, <1>5, <2>3
  <2>5. B * w >= B * (B * (B * B)) /\ B * w \in Nat
    <3> PICK D : D = B * (B * B)
      OBVIOUS
    <3>1. D \in Nat /\ w >= D
      BY <1>1, <1>5, <2>4
    <3> QED
      BY <1>1, <1>2, <3>1
  <2>6. v >= B * (B * (B * B))
    <3>1. B * (B * (B * B)) \in Nat
      BY <1>1, <1>5
    <3> QED
      BY <1>2, <2>5, <3>1
  <2>7. WordMod = B * (B * (B * B)) /\ v < WordMod /\ WordMod \in Nat
    BY <1>1, WordFacts DEF WordMod, Word
  <2> QED
    BY <1>1, <2>6, <2>7
<1>9. LE4(v) = <<lo, mi, up, hi>>
  BY <1>6, <1>7 DEF LE4, lo, mi, up, hi, w, x
<1>10. {lo, mi, up, hi} \subseteq Byte
  BY <1>1, <1>2, <1>3, <1>4, <1>8 DEF Byte
<1>11. U32(LE4(v), 0) = (lo + B * mi) + B * B * (up + B * hi)
  BY <1>9 DEF U32, U16
<1>12. (lo + B * mi) + B * B * (up + B * hi) = v
  <2>1. B * B * (up + B * hi) = B * (B * x)
    BY <1>1, <1>4, <1>5
  <2>2. B * w = B * (B * x) + B * mi
    BY <1>1, <1>3
  <2> QED
    BY <1>1, <1>2, <1>3, <2>1, <2>2
<1> QED
  BY <1>9, <1>10, <1>11, <1>12

\* A step of param comes back from its byte, and leads to the param.
LEMMA StepsComeBack ==
  ASSUME NEW p, NEW m, p.param \in Word, m.param \in Word,
         ParamStep(p, m) \in -(Base \div 2) .. (Base \div 2) - 1
  PROVE  /\ ParamStep(p, m) % Base \in Byte
         /\ WrappingAddSigned(p.param, AsI8(ParamStep(p, m) % Base)) = m.param
<1> PICK d : d = ParamStep(p, m)
  OBVIOUS
<1> PICK W : W = WordMod
  OBVIOUS
<1> PICK x, y : x = p.param /\ y = m.param
  OBVIOUS
<1>1. W \in Nat \ {0} /\ x \in 0 .. W - 1 /\ y \in 0 .. W - 1
  BY WordFacts DEF Word
<1>2. Base \in Nat \ {0} /\ Base = 2 * (Base \div 2) /\ Base \div 2 \in Nat
  BY BaseAssumption
<1>3. d \in -(Base \div 2) .. (Base \div 2) - 1
  OBVIOUS
<1>4. d % Base = IF d >= 0 THEN d ELSE d + Base
  <2>1. CASE d >= 0
    <3>1. d \in 0 .. Base - 1
      BY <1>2, <1>3, <2>1
    <3> QED
      BY <1>2, <2>1, <3>1, Wraps
  <2>2. CASE d < 0
    <3>1. d + Base \in 0 .. Base - 1 /\ (d + Base) - Base = d
      BY <1>2, <1>3, <2>2
    <3>2. ((d + Base) - Base) % Base = d + Base
      BY <1>2, <3>1, Wraps
    <3> QED
      BY <1>3, <2>2, <3>1, <3>2
  <2> QED
    BY <1>3, <2>1, <2>2
<1>5. d % Base \in Byte /\ AsI8(d % Base) = d
  BY <1>2, <1>3, <1>4 DEF Byte, AsI8
<1>6. d = (y - x) % W \/ d = ((y - x) % W) - W
  BY DEF ParamStep
<1>7. (y - x) % W = IF y >= x THEN y - x ELSE y - x + W
  <2>1. CASE y >= x
    <3>1. y - x \in 0 .. W - 1
      BY <1>1, <2>1
    <3> QED
      BY <1>1, <2>1, <3>1, Wraps
  <2>2. CASE y < x
    <3>1. y - x + W \in 0 .. W - 1 /\ (y - x + W) - W = y - x
      BY <1>1, <2>2
    <3>2. ((y - x + W) - W) % W = y - x + W
      BY <1>1, <3>1, Wraps
    <3> QED
      BY <1>1, <2>2, <3>1, <3>2
  <2> QED
    BY <1>1, <2>1, <2>2
<1>8. x + d \in {y, y + W, y - W}
  BY <1>1, <1>6, <1>7
<1>9. (x + d) % W = y
  BY <1>1, <1>8, Wraps
<1> QED
  BY <1>5, <1>9 DEF WrappingAddSigned

-----------------------------------------------------------------------------
\* A block as a recorder means it.
MessageType == [timestamp : Word, packet_id : Id, param : Word, payload : Seq(Byte)]

\* One byte is a sequence of one.
LEMMA OneByte ==
  ASSUME NEW x \in Byte
  PROVE  <<x>> \in Seq(Byte) /\ Len(<<x>>) = 1 /\ <<x>>[1] = x
OBVIOUS

\* The bytes of t lie in e after the first c.
Lies(e, c, t) == \A j \in 1 .. Len(t) : e[c + j] = t[j]

\* What is added to a sequence lies at its end, and what lay in it stays there.
LEMMA Joins ==
  ASSUME NEW S, NEW s \in Seq(S), NEW t \in Seq(S)
  PROVE  /\ s \o t \in Seq(S) /\ Len(s \o t) = Len(s) + Len(t)
         /\ Lies(s \o t, Len(s), t)
         /\ \A x \in Seq(S), c \in Nat :
              c + Len(x) <= Len(s) /\ Lies(s, c, x) => Lies(s \o t, c, x)
BY DEF Lies

\* Where the parts of a block lie.
LEMMA PartsLie ==
  ASSUME NEW S, NEW A \in Seq(S), NEW T \in Seq(S), NEW L \in Seq(S), NEW I \in Seq(S), NEW P \in Seq(S),
         NEW Y \in Seq(S)
  PROVE  /\ A \o T \o L \o I \o P \o Y \in Seq(S)
         /\ Len(A \o T \o L \o I \o P \o Y) = Len(A) + Len(T) + Len(L) + Len(I) + Len(P) + Len(Y)
         /\ Lies(A \o T \o L \o I \o P \o Y, 0, A)
         /\ Lies(A \o T \o L \o I \o P \o Y, Len(A), T)
         /\ Lies(A \o T \o L \o I \o P \o Y, Len(A) + Len(T), L)
         /\ Lies(A \o T \o L \o I \o P \o Y, Len(A) + Len(T) + Len(L), I)
         /\ Lies(A \o T \o L \o I \o P \o Y, Len(A) + Len(T) + Len(L) + Len(I), P)
         /\ Lies(A \o T \o L \o I \o P \o Y, Len(A) + Len(T) + Len(L) + Len(I) + Len(P), Y)
<1>20. PICK c1, c2, c3, c4, c5 :
         /\ c1 = Len(A) /\ c2 = Len(A) + Len(T) /\ c3 = Len(A) + Len(T) + Len(L)
         /\ c4 = Len(A) + Len(T) + Len(L) + Len(I) /\ c5 = Len(A) + Len(T) + Len(L) + Len(I) + Len(P)
  OBVIOUS
<1>1. /\ Len(A) \in Nat /\ Len(T) \in Nat /\ Len(L) \in Nat /\ Len(I) \in Nat /\ Len(P) \in Nat /\ Len(Y) \in Nat
  OBVIOUS
<1>2. /\ c1 \in Nat /\ c2 \in Nat /\ c3 \in Nat /\ c4 \in Nat /\ c5 \in Nat /\ 0 \in Nat
      /\ 0 + Len(A) <= c1 /\ c1 + Len(T) <= c2 /\ c2 + Len(L) <= c3 /\ c3 + Len(I) <= c4 /\ c4 + Len(P) <= c5
      /\ c1 <= c2 /\ c2 <= c3 /\ c3 <= c4 /\ c4 <= c5
      /\ c1 = Len(A) /\ c2 = c1 + Len(T) /\ c3 = c2 + Len(L) /\ c4 = c3 + Len(I) /\ c5 = c4 + Len(P)
  BY <1>1, <1>20
<1>3. Lies(A, 0, A)
  BY DEF Lies
<1>21. PICK e2 : e2 = A \o T
  OBVIOUS
<1>4. e2 \in Seq(S) /\ Len(e2) = c2 /\ Lies(e2, 0, A) /\ Lies(e2, c1, T)
  <2>1. e2 \in Seq(S) /\ Len(e2) = c2 /\ Lies(e2, c1, T)
    BY <1>2, <1>3, <1>21, Joins
  <2>2. \A x \in Seq(S), o \in Nat : o + Len(x) <= c1 /\ Lies(A, o, x) => Lies(e2, o, x)
    BY <1>2, <1>3, <1>21, Joins
  <2>3. 0 + Len(A) <= c1
    BY <1>1, <1>2
  <2> QED
    BY <1>2, <1>3, <2>1, <2>2, <2>3
<1>22. PICK e3 : e3 = e2 \o L
  OBVIOUS
<1>5. e3 \in Seq(S) /\ Len(e3) = c3 /\ Lies(e3, 0, A) /\ Lies(e3, c1, T) /\ Lies(e3, c2, L)
  <2>1. e3 \in Seq(S) /\ Len(e3) = c3 /\ Lies(e3, c2, L)
    BY <1>2, <1>4, <1>22, Joins
  <2>2. \A x \in Seq(S), o \in Nat : o + Len(x) <= c2 /\ Lies(e2, o, x) => Lies(e3, o, x)
    BY <1>2, <1>4, <1>22, Joins
  <2>3. 0 + Len(A) <= c2 /\ c1 + Len(T) <= c2
    BY <1>1, <1>2
  <2> QED
    BY <1>2, <1>4, <2>1, <2>2, <2>3
<1>23. PICK e4 : e4 = e3 \o I
  OBVIOUS
<1>6. e4 \in Seq(S) /\ Len(e4) = c4 /\ Lies(e4, 0, A) /\ Lies(e4, c1, T) /\ Lies(e4, c2, L) /\ Lies(e4, c3, I)
  <2>1. e4 \in Seq(S) /\ Len(e4) = c4 /\ Lies(e4, c3, I)
    BY <1>2, <1>5, <1>23, Joins
  <2>2. \A x \in Seq(S), o \in Nat : o + Len(x) <= c3 /\ Lies(e3, o, x) => Lies(e4, o, x)
    BY <1>5, <1>23, Joins
  <2>3. 0 + Len(A) <= c3 /\ c1 + Len(T) <= c3 /\ c2 + Len(L) <= c3
    BY <1>1, <1>2
  <2> QED
    BY <1>2, <1>5, <2>1, <2>2, <2>3
<1>24. PICK e5 : e5 = e4 \o P
  OBVIOUS
<1>7. /\ e5 \in Seq(S) /\ Len(e5) = c5
      /\ Lies(e5, 0, A) /\ Lies(e5, c1, T) /\ Lies(e5, c2, L) /\ Lies(e5, c3, I) /\ Lies(e5, c4, P)
  <2>1. e5 \in Seq(S) /\ Len(e5) = c5 /\ Lies(e5, c4, P)
    BY <1>2, <1>6, <1>24, Joins
  <2>2. \A x \in Seq(S), o \in Nat : o + Len(x) <= c4 /\ Lies(e4, o, x) => Lies(e5, o, x)
    BY <1>6, <1>24, Joins
  <2>3. 0 + Len(A) <= c4 /\ c1 + Len(T) <= c4 /\ c2 + Len(L) <= c4 /\ c3 + Len(I) <= c4
    BY <1>1, <1>2
  <2> QED
    BY <1>2, <1>6, <2>1, <2>2, <2>3
<1>8. A \o T \o L \o I \o P \o Y = e5 \o Y
  BY <1>21, <1>22, <1>23, <1>24
<1>25. PICK e : e = e5 \o Y
  OBVIOUS
<1>9. /\ e \in Seq(S) /\ Len(e) = c5 + Len(Y)
      /\ Lies(e, 0, A) /\ Lies(e, c1, T) /\ Lies(e, c2, L) /\ Lies(e, c3, I) /\ Lies(e, c4, P)
      /\ Lies(e, c5, Y)
  <2>1. e \in Seq(S) /\ Len(e) = c5 + Len(Y) /\ Lies(e, c5, Y)
    BY <1>2, <1>7, <1>25, Joins
  <2>2. \A x \in Seq(S), o \in Nat : o + Len(x) <= c5 /\ Lies(e5, o, x) => Lies(e, o, x)
    BY <1>7, <1>25, Joins
  <2>3. 0 + Len(A) <= c5 /\ c1 + Len(T) <= c5 /\ c2 + Len(L) <= c5 /\ c3 + Len(I) <= c5
    BY <1>1, <1>2
  <2> QED
    BY <1>2, <1>7, <2>1, <2>2, <2>3
<1>10. A \o T \o L \o I \o P \o Y = e
  BY <1>8, <1>25
<1> QED
  BY <1>9, <1>10, <1>20

\* A number read where a part lies is the part's.
LEMMA ReadsThePart ==
  ASSUME NEW e, NEW T, NEW c \in Nat, Lies(e, c, T)
  PROVE  /\ Len(T) = 1 => U8(e, c) = T[1]
         /\ Len(T) = 2 => U16(e, c) = U16(T, 0)
         /\ Len(T) = 4 => U32(e, c) = U32(T, 0)
<1>1. ASSUME Len(T) = 2
      PROVE  U16(e, c) = U16(T, 0)
  <2>1. e[c + 1] = T[1] /\ e[c + 2] = T[2]
    BY <1>1 DEF Lies
  <2> QED
    BY <2>1 DEF U16
<1>2. ASSUME Len(T) = 4
      PROVE  U32(e, c) = U32(T, 0)
  <2>1. e[c + 1] = T[1] /\ e[c + 2] = T[2] /\ e[c + 3] = T[3] /\ e[c + 4] = T[4]
    BY <1>2 DEF Lies
  <2>2. c + 2 + 1 = c + 3 /\ c + 2 + 2 = c + 4
    OBVIOUS
  <2>3. U16(e, c) = T[1] + Base * T[2] /\ U16(e, c + 2) = T[3] + Base * T[4]
    BY <2>1, <2>2 DEF U16
  <2>4. U16(T, 0) = T[1] + Base * T[2] /\ U16(T, 0 + 2) = T[3] + Base * T[4]
    BY DEF U16
  <2> QED
    BY <2>3, <2>4 DEF U32
<1>3. ASSUME Len(T) = 1
      PROVE  U8(e, c) = T[1]
  BY <1>3 DEF Lies, U8
<1> QED
  BY <1>1, <1>2, <1>3

\* A recorded block says all there is to know of it, after the one before.
LEMMA PieceTells ==
  ASSUME NEW p \in MessageType, NEW m \in MessageType, Len(m.payload) \in Word,
         NEW used \in SUBSET Compressions(p, m)
  PROVE  LET e == Encode(p, m, used)
             k == MarkerOf(used)
             c2 == 1 + TsWidth(k)
             c3 == c2 + LenWidth(k)
             c4 == c3 + IdWidth(k)
         IN  /\ k \in Byte /\ e \in Seq(Byte) /\ Len(e) = HeaderWidth(k) + Len(m.payload) /\ e[1] = k
             /\ (IF Has(k, MARKER_TS_RELATIVE) THEN p.timestamp + U8(e, 1) ELSE U32(e, 1)) = m.timestamp
             /\ (IF Has(k, MARKER_LEN_U8) THEN U8(e, c2) ELSE U32(e, c2)) = Len(m.payload)
             /\ (IF Has(k, MARKER_REUSE_PACKET_ID) THEN p.packet_id ELSE U16(e, c3)) = m.packet_id
             /\ (IF Has(k, MARKER_PARAM_RELATIVE) THEN WrappingAddSigned(p.param, AsI8(U8(e, c4)))
                 ELSE U32(e, c4)) = m.param
             /\ Lies(e, HeaderWidth(k), m.payload)
<1>20. PICK k : k = MarkerOf(used)
  OBVIOUS
<1>21. PICK T : T = IF MARKER_TS_RELATIVE \in used THEN << m.timestamp - p.timestamp >> ELSE LE4(m.timestamp)
  OBVIOUS
<1>22. PICK L : L = IF MARKER_LEN_U8 \in used THEN << Len(m.payload) >> ELSE LE4(Len(m.payload))
  OBVIOUS
<1>23. PICK I : I = IF MARKER_REUSE_PACKET_ID \in used THEN << >> ELSE LE2(m.packet_id)
  OBVIOUS
<1>24. PICK P : P = IF MARKER_PARAM_RELATIVE \in used THEN << ParamStep(p, m) % Base >> ELSE LE4(m.param)
  OBVIOUS
<1>25. PICK e : e = <<k>> \o T \o L \o I \o P \o m.payload
  OBVIOUS
<1>1. /\ p.timestamp \in Nat /\ m.timestamp \in Word /\ m.timestamp \in Nat
      /\ p.packet_id \in Id /\ m.packet_id \in Id /\ p.param \in Word /\ m.param \in Word /\ m.payload \in Seq(Byte)
  BY Sizes DEF MessageType
<1>2. /\ MARKER_TS_RELATIVE \in used => m.timestamp - p.timestamp \in Byte
      /\ MARKER_LEN_U8 \in used => Len(m.payload) \in Byte
      /\ MARKER_REUSE_PACKET_ID \in used => m.packet_id = p.packet_id
      /\ MARKER_PARAM_RELATIVE \in used => ParamStep(p, m) \in -(Base \div 2) .. (Base \div 2) - 1
      /\ used \in SUBSET {MARKER_TS_RELATIVE, MARKER_REUSE_PACKET_ID, MARKER_PARAM_RELATIVE, MARKER_LEN_U8}
  <2> PICK q : q = Base \div 16
    OBVIOUS
  <2>1. q \in Nat \ {0} /\ Base = 16 * q
    BY BaseAssumption
  <2>2. /\ MARKER_TS_RELATIVE = 8 * q /\ MARKER_REUSE_PACKET_ID = 4 * q
        /\ MARKER_PARAM_RELATIVE = 2 * q /\ MARKER_LEN_U8 = q
    BY <2>1 DEF MARKER_TS_RELATIVE, MARKER_REUSE_PACKET_ID, MARKER_PARAM_RELATIVE, MARKER_LEN_U8
  <2>3. /\ MARKER_TS_RELATIVE \notin {MARKER_REUSE_PACKET_ID, MARKER_PARAM_RELATIVE, MARKER_LEN_U8}
        /\ MARKER_REUSE_PACKET_ID \notin {MARKER_PARAM_RELATIVE, MARKER_LEN_U8}
        /\ MARKER_PARAM_RELATIVE # MARKER_LEN_U8
    BY <2>1, <2>2
  <2>4. used \subseteq Compressions(p, m)
    OBVIOUS
  <2> QED
    BY <2>3, <2>4 DEF Compressions
<1>3. /\ k \in Byte
      /\ Has(k, MARKER_TS_RELATIVE) <=> MARKER_TS_RELATIVE \in used
      /\ Has(k, MARKER_LEN_U8) <=> MARKER_LEN_U8 \in used
      /\ Has(k, MARKER_REUSE_PACKET_ID) <=> MARKER_REUSE_PACKET_ID \in used
      /\ Has(k, MARKER_PARAM_RELATIVE) <=> MARKER_PARAM_RELATIVE \in used
  BY <1>2, <1>20, MarkerTells
<1>4. /\ T \in Seq(Byte) /\ Len(T) = TsWidth(k)
      /\ MARKER_TS_RELATIVE \in used => T[1] = m.timestamp - p.timestamp
      /\ MARKER_TS_RELATIVE \notin used => U32(T, 0) = m.timestamp
  <2>1. CASE MARKER_TS_RELATIVE \in used
    BY <1>2, <1>3, <1>21, <2>1, OneByte DEF TsWidth
  <2>2. CASE MARKER_TS_RELATIVE \notin used
    BY <1>1, <1>3, <1>21, <2>2, BytesOfWord DEF TsWidth
  <2> QED
    BY <2>1, <2>2
<1>5. /\ L \in Seq(Byte) /\ Len(L) = LenWidth(k)
      /\ MARKER_LEN_U8 \in used => L[1] = Len(m.payload)
      /\ MARKER_LEN_U8 \notin used => U32(L, 0) = Len(m.payload)
  <2>1. CASE MARKER_LEN_U8 \in used
    BY <1>2, <1>3, <1>22, <2>1, OneByte DEF LenWidth
  <2>2. CASE MARKER_LEN_U8 \notin used
    BY <1>3, <1>22, <2>2, BytesOfWord DEF LenWidth
  <2> QED
    BY <2>1, <2>2
<1>6. /\ I \in Seq(Byte) /\ Len(I) = IdWidth(k)
      /\ MARKER_REUSE_PACKET_ID \notin used => U16(I, 0) = m.packet_id
  <2>1. CASE MARKER_REUSE_PACKET_ID \in used
    BY <1>3, <1>23, <2>1 DEF IdWidth
  <2>2. CASE MARKER_REUSE_PACKET_ID \notin used
    BY <1>1, <1>3, <1>23, <2>2, BytesOfId DEF IdWidth
  <2> QED
    BY <2>1, <2>2
<1>7. /\ P \in Seq(Byte) /\ Len(P) = ParamWidth(k)
      /\ MARKER_PARAM_RELATIVE \in used => WrappingAddSigned(p.param, AsI8(P[1])) = m.param
      /\ MARKER_PARAM_RELATIVE \notin used => U32(P, 0) = m.param
  <2>1. CASE MARKER_PARAM_RELATIVE \in used
    <3>1. /\ ParamStep(p, m) % Base \in Byte
          /\ WrappingAddSigned(p.param, AsI8(ParamStep(p, m) % Base)) = m.param
      BY <1>1, <1>2, <2>1, StepsComeBack
    <3> QED
      BY <1>3, <1>24, <2>1, <3>1, OneByte DEF ParamWidth
  <2>2. CASE MARKER_PARAM_RELATIVE \notin used
    BY <1>1, <1>3, <1>24, <2>2, BytesOfWord DEF ParamWidth
  <2> QED
    BY <2>1, <2>2
<1>26. PICK A : A = <<k>>
  OBVIOUS
<1>8. A \in Seq(Byte) /\ Len(A) = 1 /\ A[1] = k
  BY <1>3, <1>26, OneByte
<1>27. PICK c2, c3, c4 : c2 = 1 + TsWidth(k) /\ c3 = c2 + LenWidth(k) /\ c4 = c3 + IdWidth(k)
  OBVIOUS
<1>9. /\ c2 \in Nat /\ c3 \in Nat /\ c4 \in Nat /\ 1 \in Nat /\ HeaderWidth(k) = c4 + ParamWidth(k)
      /\ TsWidth(k) \in {1, 4} /\ LenWidth(k) \in {1, 4} /\ IdWidth(k) \in {0, 2} /\ ParamWidth(k) \in {1, 4}
  BY <1>3, <1>27, WidthFacts DEF HeaderWidth
<1>28. PICK Y : Y = m.payload
  OBVIOUS
<1>29. PICK c5 : c5 = c4 + ParamWidth(k)
  OBVIOUS
<1>10. /\ e \in Seq(Byte) /\ Len(e) = c5 + Len(Y)
       /\ Lies(e, 0, A) /\ Lies(e, 1, T) /\ Lies(e, c2, L) /\ Lies(e, c3, I) /\ Lies(e, c4, P)
       /\ Lies(e, c5, Y)
  <2>1. e = A \o T \o L \o I \o P \o Y /\ Y \in Seq(Byte)
    BY <1>1, <1>25, <1>26, <1>28
  <2>2. /\ A \in Seq(Byte) /\ T \in Seq(Byte) /\ L \in Seq(Byte) /\ I \in Seq(Byte) /\ P \in Seq(Byte)
        /\ 1 = Len(A) /\ c2 = 1 + Len(T) /\ c3 = c2 + Len(L) /\ c4 = c3 + Len(I) /\ c5 = c4 + Len(P)
    BY <1>4, <1>5, <1>6, <1>7, <1>8, <1>27, <1>29
  <2>4. PICK f : f = A \o T \o L \o I \o P \o Y
    OBVIOUS
  <2>3. /\ f \in Seq(Byte)
        /\ Len(f) = Len(A) + Len(T) + Len(L) + Len(I) + Len(P) + Len(Y)
        /\ Lies(f, 0, A)
        /\ Lies(f, Len(A), T)
        /\ Lies(f, Len(A) + Len(T), L)
        /\ Lies(f, Len(A) + Len(T) + Len(L), I)
        /\ Lies(f, Len(A) + Len(T) + Len(L) + Len(I), P)
        /\ Lies(f, Len(A) + Len(T) + Len(L) + Len(I) + Len(P), Y)
    <3>1. A \in Seq(Byte) /\ T \in Seq(Byte) /\ L \in Seq(Byte) /\ I \in Seq(Byte) /\ P \in Seq(Byte) /\ Y \in Seq(Byte)
      BY <2>1, <2>2
    <3> QED
      BY <2>4, <3>1, PartsLie
  <2>5. /\ c2 = Len(A) + Len(T) /\ c3 = Len(A) + Len(T) + Len(L)
        /\ c4 = Len(A) + Len(T) + Len(L) + Len(I) /\ c5 = Len(A) + Len(T) + Len(L) + Len(I) + Len(P)
    BY <2>2
  <2> QED
    BY <2>1, <2>2, <2>3, <2>4, <2>5
<1>30. e[1] = k
  <2>1. U8(e, 0) = A[1] /\ U8(e, 0) = e[0 + 1]
    BY <1>8, <1>10, ReadsThePart DEF U8
  <2> QED
    BY <1>8, <2>1
<1>31. c5 = HeaderWidth(k)
  BY <1>9, <1>29
<1>11. (IF Has(k, MARKER_TS_RELATIVE) THEN p.timestamp + U8(e, 1) ELSE U32(e, 1)) = m.timestamp
  <2>1. CASE MARKER_TS_RELATIVE \in used
    <3>1. Len(T) = 1
      BY <1>3, <1>4, <2>1 DEF TsWidth
    <3>2. U8(e, 1) = T[1]
      BY <1>9, <1>10, <3>1, ReadsThePart
    <3> QED
      BY <1>1, <1>3, <1>4, <2>1, <3>2
  <2>2. CASE MARKER_TS_RELATIVE \notin used
    <3>1. Len(T) = 4
      BY <1>3, <1>4, <2>2 DEF TsWidth
    <3>2. U32(e, 1) = U32(T, 0)
      BY <1>9, <1>10, <3>1, ReadsThePart
    <3> QED
      BY <1>3, <1>4, <2>2, <3>2
  <2> QED
    BY <2>1, <2>2
<1>12. (IF Has(k, MARKER_LEN_U8) THEN U8(e, c2) ELSE U32(e, c2)) = Len(m.payload)
  <2>1. CASE MARKER_LEN_U8 \in used
    <3>1. Len(L) = 1
      BY <1>3, <1>5, <2>1 DEF LenWidth
    <3>2. U8(e, c2) = L[1]
      BY <1>9, <1>10, <3>1, ReadsThePart
    <3> QED
      BY <1>3, <1>5, <2>1, <3>2
  <2>2. CASE MARKER_LEN_U8 \notin used
    <3>1. Len(L) = 4
      BY <1>3, <1>5, <2>2 DEF LenWidth
    <3>2. U32(e, c2) = U32(L, 0)
      BY <1>9, <1>10, <3>1, ReadsThePart
    <3> QED
      BY <1>3, <1>5, <2>2, <3>2
  <2> QED
    BY <2>1, <2>2
<1>13. (IF Has(k, MARKER_REUSE_PACKET_ID) THEN p.packet_id ELSE U16(e, c3)) = m.packet_id
  <2>1. CASE MARKER_REUSE_PACKET_ID \in used
    BY <2>1, <1>2, <1>3
  <2>2. CASE MARKER_REUSE_PACKET_ID \notin used
    <3>1. Len(I) = 2
      BY <1>3, <1>6, <2>2 DEF IdWidth
    <3>2. U16(e, c3) = U16(I, 0)
      BY <1>9, <1>10, <3>1, ReadsThePart
    <3> QED
      BY <1>3, <1>6, <2>2, <3>2
  <2> QED
    BY <2>1, <2>2
<1>14. (IF Has(k, MARKER_PARAM_RELATIVE) THEN WrappingAddSigned(p.param, AsI8(U8(e, c4)))
        ELSE U32(e, c4)) = m.param
  <2>1. CASE MARKER_PARAM_RELATIVE \in used
    <3>1. Len(P) = 1
      BY <1>3, <1>7, <2>1 DEF ParamWidth
    <3>2. U8(e, c4) = P[1]
      BY <1>9, <1>10, <3>1, ReadsThePart
    <3> QED
      BY <1>3, <1>7, <2>1, <3>2
  <2>2. CASE MARKER_PARAM_RELATIVE \notin used
    <3>1. Len(P) = 4
      BY <1>3, <1>7, <2>2 DEF ParamWidth
    <3>2. U32(e, c4) = U32(P, 0)
      BY <1>9, <1>10, <3>1, ReadsThePart
    <3> QED
      BY <1>3, <1>7, <2>2, <3>2
  <2> QED
    BY <2>1, <2>2
<1>15. Encode(p, m, used) = e
  BY <1>20, <1>21, <1>22, <1>23, <1>24, <1>25 DEF Encode
<1> QED
  BY <1>20, <1>27, <1>28, <1>30, <1>31, <1>3, <1>10, <1>11, <1>12, <1>13, <1>14, <1>15

-----------------------------------------------------------------------------
(***************************************************************************)
(* The chunk is a row of pieces, one per recorded block, of which the last *)
(* may lack its end; the reader stands between two of them or inside one,  *)
(* and what it carries is what the recorder had carried there.             *)
(***************************************************************************)

\* The bytes of the i-th recorded block.
Piece(i, u) == Encode(Previous(i), written[i], u[i])

\* The recorder wrote block i with the compressions u[i] from the byte at[i].
Laid(at, u) ==
  /\ written \in Seq(Messages)
  /\ at \in [1 .. Len(written) + 1 -> Nat] /\ at[1] = 0
  /\ \A i \in 1 .. Len(written) :
       /\ u[i] \subseteq Compressions(Previous(i), written[i])
       /\ at[i + 1] = at[i] + Len(Piece(i, u))
       /\ at[i] <= at[Len(written)]
       /\ i = Len(written) => last_size = Len(Piece(i, u))
       /\ \A j \in 1 .. Len(Piece(i, u)) :
            at[i] + j <= Len(buffer) => buffer[at[i] + j] = Piece(i, u)[j]
  /\ missing \in Nat /\ Len(buffer) = at[Len(written) + 1] - missing
  /\ missing > 0 => written # <<>> /\ missing < last_size /\ origin # "recording"

\* The block the reader is at is the one after those it has returned.
Here == Len(yielded) + 1

\* The reader's state is the recorder's at the same place.
InStep(at, u) ==
  /\ Here \in 1 .. Len(written) + 1
  /\ \A i \in 1 .. Len(yielded) : Content(yielded[i]) = written[i]
  /\ Reached(Len(yielded)) = at[Here]
  /\ prev_packet_id = Previous(Here).packet_id /\ prev_param = Previous(Here).param
  /\ field \in {"marker", "timestamp"} => acc_time = Previous(Here).timestamp
  /\ field # "marker" => Here <= Len(written) /\ block.marker = MarkerOf(u[Here])
  /\ field \in {"length", "packet_id", "param", "payload"} =>
       acc_time = written[Here].timestamp /\ block.timestamp = written[Here].timestamp
  /\ field \in {"packet_id", "param", "payload"} => block.length = Len(written[Here].payload)
  /\ field \in {"param", "payload"} => block.packet_id = written[Here].packet_id
  /\ field = "payload" => block.param = written[Here].param

StreamInv ==
  /\ IInv
  /\ origin \in {"recording", "recorded", "found"}
  /\ origin = "recording" => IteratorInit
  /\ origin # "found" => \E at, u : Laid(at, u) /\ InStep(at, u)

(* A read inside a piece of the buffer is a read in the piece.              *)
LEMMA ReadsInside ==
  ASSUME NEW b \in Seq(Byte), NEW e \in Seq(Byte), NEW a \in Nat, NEW o \in Nat,
         \A j \in 1 .. Len(e) : a + j <= Len(b) => b[a + j] = e[j]
  PROVE  /\ o + 1 <= Len(e) /\ a + o + 1 <= Len(b) => U8(b, a + o) = U8(e, o)
         /\ o + 2 <= Len(e) /\ a + o + 2 <= Len(b) => U16(b, a + o) = U16(e, o)
         /\ o + 4 <= Len(e) /\ a + o + 4 <= Len(b) => U32(b, a + o) = U32(e, o)
<1>1. ASSUME NEW k \in 1 .. 4, o + k <= Len(e), a + o + k <= Len(b)
      PROVE  b[a + o + k] = e[o + k]
  <2>1. o + k \in 1 .. Len(e) /\ a + (o + k) = a + o + k
    <3>1. Len(e) \in Nat
      OBVIOUS
    <3>2. k \in Nat /\ k >= 1
      OBVIOUS
    <3> QED
      BY <1>1, <3>1, <3>2
  <2> QED
    BY <1>1, <2>1
<1>2. ASSUME o + 1 <= Len(e), a + o + 1 <= Len(b) PROVE U8(b, a + o) = U8(e, o)
  BY <1>1, <1>2 DEF U8
<1>3. ASSUME o + 2 <= Len(e), a + o + 2 <= Len(b) PROVE U16(b, a + o) = U16(e, o)
  <2>1. b[a + o + 1] = e[o + 1] /\ b[a + o + 2] = e[o + 2]
    BY <1>1, <1>3
  <2> QED
    BY <2>1 DEF U16
<1>4. ASSUME o + 4 <= Len(e), a + o + 4 <= Len(b) PROVE U32(b, a + o) = U32(e, o)
  <2>1. /\ b[a + o + 1] = e[o + 1] /\ b[a + o + 2] = e[o + 2]
        /\ b[a + o + 3] = e[o + 3] /\ b[a + o + 4] = e[o + 4]
    BY <1>1, <1>4
  <2>2. /\ a + o + 2 + 1 = a + o + 3 /\ a + o + 2 + 2 = a + o + 4
        /\ o + 2 + 1 = o + 3 /\ o + 2 + 2 = o + 4
    OBVIOUS
  <2>3. U16(b, a + o) = U16(e, o) /\ U16(b, a + o + 2) = U16(e, o + 2)
    BY <2>1, <2>2 DEF U16
  <2> QED
    BY <2>3 DEF U32
<1> QED
  BY <1>2, <1>3, <1>4

(* The recorded blocks are messages, and a piece begins with its marker.    *)
LEMMA PiecesAreMessages ==
  ASSUME NEW at, NEW u, Laid(at, u), NEW i \in 1 .. Len(written) + 1
  PROVE  /\ Previous(i) \in MessageType
         /\ i <= Len(written) =>
              /\ written[i] \in MessageType /\ Len(written[i].payload) \in Word
              /\ u[i] \in SUBSET Compressions(Previous(i), written[i])
              /\ Piece(i, u) \in Seq(Byte) /\ MarkerOf(u[i]) \in Byte
              /\ Len(Piece(i, u)) = HeaderWidth(MarkerOf(u[i])) + Len(written[i].payload)
              /\ HeaderWidth(MarkerOf(u[i])) \in Nat /\ HeaderWidth(MarkerOf(u[i])) > 0
              /\ Len(written[i].payload) \in Nat
<1>1. written \in Seq(Messages) /\ Len(written) \in Nat
  BY DEF Laid
<1>2. ASSUME NEW h \in 1 .. Len(written)
      PROVE  written[h] \in MessageType /\ Len(written[h].payload) \in Word
  <2>1. written[h] \in Messages
    BY <1>1
  <2> QED
    BY <2>1, MessageAssumption DEF MessageType
<1>3. Nothing \in MessageType
  BY Sizes DEF Nothing, MessageType
<1>4. Previous(i) \in MessageType
  <2>1. CASE i = 1
    BY <1>3, <2>1 DEF Previous
  <2>2. CASE i # 1
    <3>1. i - 1 \in 1 .. Len(written)
      BY <1>1, <2>2
    <3> QED
      BY <1>2, <2>2, <3>1 DEF Previous
  <2> QED
    BY <2>1, <2>2
<1>5. ASSUME i <= Len(written)
      PROVE  /\ written[i] \in MessageType /\ Len(written[i].payload) \in Word
             /\ u[i] \in SUBSET Compressions(Previous(i), written[i])
             /\ Piece(i, u) \in Seq(Byte) /\ MarkerOf(u[i]) \in Byte
             /\ Len(Piece(i, u)) = HeaderWidth(MarkerOf(u[i])) + Len(written[i].payload)
             /\ HeaderWidth(MarkerOf(u[i])) \in Nat /\ HeaderWidth(MarkerOf(u[i])) > 0
             /\ Len(written[i].payload) \in Nat
  <2>1. i \in 1 .. Len(written)
    BY <1>1, <1>5
  <2>2. u[i] \in SUBSET Compressions(Previous(i), written[i])
    BY <2>1 DEF Laid
  <2>3. written[i] \in MessageType /\ Len(written[i].payload) \in Word
    BY <1>2, <2>1
  <2>4. /\ Piece(i, u) \in Seq(Byte) /\ MarkerOf(u[i]) \in Byte
        /\ Len(Piece(i, u)) = HeaderWidth(MarkerOf(u[i])) + Len(written[i].payload)
    BY <1>4, <2>2, <2>3, PieceTells DEF Piece
  <2>5. HeaderWidth(MarkerOf(u[i])) \in Nat /\ HeaderWidth(MarkerOf(u[i])) > 0
    BY <2>4, WidthFacts DEF HeaderWidth
  <2> QED
    BY <2>2, <2>3, <2>4, <2>5, Sizes
<1> QED
  BY <1>4, <1>5

(* Every block but a cut last one ends inside the chunk, and even that one  *)
(* begins there.                                                           *)
LEMMA WhereItEnds ==
  ASSUME NEW at, NEW u, Laid(at, u), NEW i \in 1 .. Len(written), buffer \in Seq(Byte)
  PROVE  /\ at[i] \in Nat /\ at[i + 1] \in Nat /\ at[i] < Len(buffer)
         /\ at[i + 1] = at[i] + Len(Piece(i, u))
         /\ at[i + 1] > Len(buffer) => i = Len(written) /\ missing > 0
<1>20. PICK n : n = Len(written)
  OBVIOUS
<1>1. n \in Nat /\ n \in 1 .. n /\ i \in 1 .. n /\ i \in 1 .. n + 1 /\ i + 1 \in 1 .. n + 1 /\ n + 1 \in 1 .. n + 1 /\ n \in 1 .. n + 1 /\ written # <<>>
  BY <1>20 DEF Laid
<1>2. at[i] \in Nat /\ at[i + 1] \in Nat /\ at[n] \in Nat /\ at[n + 1] \in Nat
  <2>1. at \in [1 .. n + 1 -> Nat]
    BY <1>20 DEF Laid
  <2> QED
    BY <1>1, <2>1
<1>3. at[n] < Len(buffer)
  <2>1. at[n + 1] = at[n] + Len(Piece(n, u)) /\ last_size = Len(Piece(n, u))
    BY <1>1, <1>20 DEF Laid
  <2>2. Len(Piece(n, u)) \in Nat /\ Len(Piece(n, u)) > 0
    <3>1. n \in 1 .. Len(written) + 1 /\ n <= Len(written)
      BY <1>1, <1>20
    <3> QED
      BY <3>1, PiecesAreMessages
  <2>3. missing \in Nat /\ Len(buffer) = at[n + 1] - missing /\ (missing > 0 => missing < last_size)
    BY <1>20 DEF Laid
  <2> QED
    BY <1>2, <2>1, <2>2, <2>3
<1>4. at[i] <= at[n] /\ at[i + 1] = at[i] + Len(Piece(i, u))
  BY <1>1, <1>20 DEF Laid
<1>5. ASSUME at[i + 1] > Len(buffer) PROVE i = n /\ missing > 0
  <2>1. i = n
    <3> SUFFICES ASSUME i # n PROVE FALSE
      OBVIOUS
    <3>1. i + 1 \in 1 .. n
      BY <1>1
    <3>2. at[i + 1] <= at[n]
      BY <3>1, <1>20 DEF Laid
    <3> QED
      BY <1>2, <1>3, <1>5, <3>2
  <2>2. missing \in Nat /\ Len(buffer) = at[n + 1] - missing
    BY <1>20 DEF Laid
  <2> QED
    BY <1>2, <1>5, <2>1, <2>2
<1> QED
  BY <1>2, <1>3, <1>4, <1>5, <1>20

(* While the recorder and the chunk stay as they are, so does its layout.   *)
LEMMA LayoutStays ==
  ASSUME NEW at, NEW u, Laid(at, u), UNCHANGED <<buffer, recorded>>
  PROVE  Laid(at, u)' /\ \A i : Previous(i)' = Previous(i)
<1>1. UNCHANGED <<buffer, written, last_size, missing, origin>>
  BY DEF recorded
<1>2. \A i : Previous(i)' = Previous(i) /\ Piece(i, u)' = Piece(i, u)
  BY <1>1 DEF Previous, Piece
<1> QED
  BY <1>1, <1>2 DEF Laid

(* Inside a block the pending read is of the recorded block's own bytes.    *)
LEMMA ReadsThePiece ==
  ASSUME IInv, NEW at, NEW u, Laid(at, u), InStep(at, u), field # "marker"
  PROVE  /\ Here \in 1 .. Len(written) /\ at[Here] \in Nat /\ at[Here + 1] \in Nat
         /\ block.marker = MarkerOf(u[Here]) /\ Piece(Here, u) \in Seq(Byte)
         /\ HeaderRead \in Nat /\ Width \in Nat
         /\ cursor = at[Here] + HeaderRead /\ HeaderRead + Width <= Len(Piece(Here, u))
         /\ Width = 1 /\ Need(Width) => U8(buffer, cursor) = U8(Piece(Here, u), HeaderRead)
         /\ Width = 2 /\ Need(Width) => U16(buffer, cursor) = U16(Piece(Here, u), HeaderRead)
         /\ Width = 4 /\ Need(Width) => U32(buffer, cursor) = U32(Piece(Here, u), HeaderRead)
<1>20. PICK e, h, a : e = Piece(Here, u) /\ h = Here /\ a = at[Here]
  OBVIOUS
<1>1. /\ TypeOK /\ buffer \in Seq(Byte) /\ block.marker = MarkerOf(u[h]) /\ h <= Len(written)
      /\ h \in 1 .. Len(written) + 1 /\ Len(written) \in Nat
  BY <1>20 DEF IInv, TypeOK, InStep, Laid
<1>2. h \in 1 .. Len(written)
  BY <1>1
<1>3. /\ e \in Seq(Byte) /\ Len(e) = HeaderWidth(block.marker) + Len(written[h].payload)
      /\ block.marker \in Byte /\ Len(written[h].payload) \in Nat
  BY <1>1, <1>2, <1>20, PiecesAreMessages
<1>4. a \in Nat /\ at[h + 1] \in Nat
  BY <1>1, <1>2, <1>20, WhereItEnds
<1>5. HeaderRead \in Nat /\ Width \in Nat
  BY <1>1, Widths
<1>6. cursor = a + HeaderRead
  <2>1. cursor = block.offset + HeaderRead /\ block.offset = Reached(Len(yielded))
    BY DEF IInv, Position
  <2> QED
    BY <2>1, <1>20 DEF InStep
<1>7. HeaderRead + Width <= Len(e)
  <2>1. /\ TsWidth(block.marker) \in Nat /\ LenWidth(block.marker) \in Nat
        /\ IdWidth(block.marker) \in Nat /\ ParamWidth(block.marker) \in Nat
    BY <1>3, WidthFacts
  <2>2. field = "payload" => block.length = Len(written[h].payload)
    BY <1>20 DEF InStep
  <2>3. field \in Fields
    BY <1>1 DEF TypeOK
  <2> QED
    BY <1>3, <2>1, <2>2, <2>3 DEF HeaderRead, Width, HeaderWidth, Fields
<1>8. \A j \in 1 .. Len(e) : a + j <= Len(buffer) => buffer[a + j] = e[j]
  BY <1>2, <1>20 DEF Laid
<1>9. /\ Width = 1 /\ Need(Width) => U8(buffer, cursor) = U8(e, HeaderRead)
      /\ Width = 2 /\ Need(Width) => U16(buffer, cursor) = U16(e, HeaderRead)
      /\ Width = 4 /\ Need(Width) => U32(buffer, cursor) = U32(e, HeaderRead)
  <2> PICK o : o = HeaderRead
    OBVIOUS
  <2>1. /\ o + 1 <= Len(e) /\ a + o + 1 <= Len(buffer) => U8(buffer, a + o) = U8(e, o)
        /\ o + 2 <= Len(e) /\ a + o + 2 <= Len(buffer) => U16(buffer, a + o) = U16(e, o)
        /\ o + 4 <= Len(e) /\ a + o + 4 <= Len(buffer) => U32(buffer, a + o) = U32(e, o)
    BY <1>1, <1>3, <1>4, <1>5, <1>8, ReadsInside
  <2> QED
    BY <1>6, <1>7, <2>1 DEF Need
<1> QED
  BY <1>1, <1>2, <1>3, <1>4, <1>5, <1>6, <1>7, <1>9, <1>20

(* What the recorder put in the fields of a block, read where they lie.     *)
LEMMA FieldsAreTheMessages ==
  ASSUME NEW at, NEW u, Laid(at, u), NEW i \in 1 .. Len(written)
  PROVE  LET e == Piece(i, u)
             k == MarkerOf(u[i])
             p == Previous(i)
             c2 == 1 + TsWidth(k)
             c3 == c2 + LenWidth(k)
             c4 == c3 + IdWidth(k)
         IN  /\ e[1] = k
             /\ (IF Has(k, MARKER_TS_RELATIVE) THEN p.timestamp + U8(e, 1) ELSE U32(e, 1)) = written[i].timestamp
             /\ (IF Has(k, MARKER_LEN_U8) THEN U8(e, c2) ELSE U32(e, c2)) = Len(written[i].payload)
             /\ (IF Has(k, MARKER_REUSE_PACKET_ID) THEN p.packet_id ELSE U16(e, c3)) = written[i].packet_id
             /\ (IF Has(k, MARKER_PARAM_RELATIVE) THEN WrappingAddSigned(p.param, AsI8(U8(e, c4)))
                 ELSE U32(e, c4)) = written[i].param
             /\ Lies(e, HeaderWidth(k), written[i].payload)
<1>1. i \in 1 .. Len(written) + 1 /\ i <= Len(written)
  BY DEF Laid
<1>2. /\ Previous(i) \in MessageType /\ written[i] \in MessageType /\ Len(written[i].payload) \in Word
      /\ u[i] \in SUBSET Compressions(Previous(i), written[i])
  BY <1>1, PiecesAreMessages
<1> QED
  BY <1>2, PieceTells DEF Piece

(* Each header field the reader reads is the recorded block's.              *)
LEMMA HeaderInStep ==
  ASSUME IInv, NEW at, NEW u, Laid(at, u), InStep(at, u), UNCHANGED recorded,
         ReadTimestamp \/ ReadLength \/ ReadPacketId \/ ReadParam
  PROVE  InStep(at, u)'
<1>20. PICK h, e, k, m, p : h = Here /\ e = Piece(h, u) /\ k = MarkerOf(u[h]) /\ m = written[h] /\ p = Previous(h)
  OBVIOUS
<1>1. /\ field # "marker" /\ field' \in {"length", "packet_id", "param", "payload"}
      /\ UNCHANGED <<buffer, yielded, prev_packet_id, prev_param, written>>
      /\ block'.marker = block.marker
  <2>1. block \in BlockType
    BY DEF IInv, TypeOK
  <2>2. /\ field # "marker" /\ field' \in {"length", "packet_id", "param", "payload"}
        /\ UNCHANGED <<buffer, yielded, prev_packet_id, prev_param>>
    BY DEF ReadTimestamp, ReadLength, ReadPacketId, ReadParam, Read, carried
  <2>3. UNCHANGED written
    BY DEF recorded
  <2>4. block'.marker = block.marker
    BY <2>1 DEF ReadTimestamp, ReadLength, ReadPacketId, ReadParam, BlockType
  <2> QED
    BY <2>2, <2>3, <2>4
<1>2. Reached(Len(yielded))' = Reached(Len(yielded))
  BY <1>1, ReadKeepsTiling DEF IInv
<1>3. Need(Width)
  BY DEF ReadTimestamp, ReadLength, ReadPacketId, ReadParam, Read
<1>4. /\ h \in 1 .. Len(written) /\ block.marker = k
      /\ Width = 1 => U8(buffer, cursor) = U8(e, HeaderRead)
      /\ Width = 2 => U16(buffer, cursor) = U16(e, HeaderRead)
      /\ Width = 4 => U32(buffer, cursor) = U32(e, HeaderRead)
  BY <1>1, <1>3, <1>20, ReadsThePiece
<1>5. k \in Byte /\ h \in 1 .. Len(written) + 1
  <2>1. h \in 1 .. Len(written) + 1 /\ h <= Len(written)
    BY <1>4, <1>20 DEF InStep, Laid
  <2> QED
    BY <2>1, <1>20, PiecesAreMessages
<1>6. /\ TsWidth(k) \in {1, 4} /\ LenWidth(k) \in {1, 4} /\ IdWidth(k) \in {0, 2} /\ ParamWidth(k) \in {1, 4}
  BY <1>5, WidthFacts
<1>7. /\ (IF Has(k, MARKER_TS_RELATIVE) THEN p.timestamp + U8(e, 1) ELSE U32(e, 1)) = m.timestamp
      /\ (IF Has(k, MARKER_LEN_U8) THEN U8(e, 1 + TsWidth(k)) ELSE U32(e, 1 + TsWidth(k))) = Len(m.payload)
      /\ (IF Has(k, MARKER_REUSE_PACKET_ID) THEN p.packet_id
          ELSE U16(e, 1 + TsWidth(k) + LenWidth(k))) = m.packet_id
      /\ (IF Has(k, MARKER_PARAM_RELATIVE)
          THEN WrappingAddSigned(p.param, AsI8(U8(e, 1 + TsWidth(k) + LenWidth(k) + IdWidth(k))))
          ELSE U32(e, 1 + TsWidth(k) + LenWidth(k) + IdWidth(k))) = m.param
  BY <1>4, <1>20, FieldsAreTheMessages
<1>8. prev_packet_id = p.packet_id /\ prev_param = p.param /\ block \in BlockType
  BY <1>20 DEF InStep, IInv, TypeOK
<1>9. Here' = h /\ Previous(h)' = p /\ written' = written
  BY <1>1, <1>20 DEF Here, Previous
<1>10. acc_time' = m.timestamp /\ block'.timestamp = m.timestamp
  <2>1. CASE ReadTimestamp
    <3>1. field = "timestamp" /\ Width = TsWidth(k) /\ HeaderRead = 1
      BY <1>4, <2>1 DEF ReadTimestamp, Read, Width, HeaderRead
    <3>2. acc_time = p.timestamp
      BY <3>1, <1>20 DEF InStep
    <3>3. acc_time' = IF Has(k, MARKER_TS_RELATIVE) THEN acc_time + U8(buffer, cursor) ELSE U32(buffer, cursor)
      BY <1>4, <2>1 DEF ReadTimestamp
    <3>4. acc_time' = m.timestamp
      BY <1>4, <1>7, <3>1, <3>2, <3>3 DEF TsWidth
    <3>5. block'.timestamp = acc_time'
      BY <1>8, <2>1 DEF ReadTimestamp, BlockType
    <3> QED
      BY <3>4, <3>5
  <2>2. CASE ReadLength \/ ReadPacketId \/ ReadParam
    <3>1. field \in {"length", "packet_id", "param"} /\ acc_time' = acc_time /\ block'.timestamp = block.timestamp
      BY <1>8, <2>2 DEF ReadLength, ReadPacketId, ReadParam, Read, carried, BlockType
    <3> QED
      BY <3>1, <1>20 DEF InStep
  <2> QED
    BY <2>1, <2>2
<1>11. field' \in {"packet_id", "param", "payload"} => block'.length = Len(m.payload)
  <2>1. CASE ReadLength
    <3>1. field = "length" /\ Width = LenWidth(k) /\ HeaderRead = 1 + TsWidth(k)
      BY <1>4, <2>1 DEF ReadLength, Read, Width, HeaderRead
    <3>2. block'.length = IF Has(k, MARKER_LEN_U8) THEN U8(buffer, cursor) ELSE U32(buffer, cursor)
      BY <1>4, <1>8, <2>1 DEF ReadLength, BlockType
    <3> QED
      BY <1>4, <1>7, <3>1, <3>2 DEF LenWidth
  <2>2. CASE ReadPacketId \/ ReadParam
    <3>1. field \in {"packet_id", "param"} /\ block'.length = block.length
      BY <1>8, <2>2 DEF ReadPacketId, ReadParam, Read, BlockType
    <3> QED
      BY <3>1, <1>20 DEF InStep
  <2>3. CASE ReadTimestamp
    BY <2>3 DEF ReadTimestamp, Read
  <2> QED
    BY <2>1, <2>2, <2>3
<1>12. field' \in {"param", "payload"} => block'.packet_id = m.packet_id
  <2>1. CASE ReadPacketId
    <3>1. field = "packet_id" /\ Width = IdWidth(k) /\ HeaderRead = 1 + TsWidth(k) + LenWidth(k)
      BY <1>4, <2>1 DEF ReadPacketId, Read, Width, HeaderRead
    <3>2. block'.packet_id = IF Has(k, MARKER_REUSE_PACKET_ID) THEN prev_packet_id ELSE U16(buffer, cursor)
      BY <1>4, <1>8, <2>1 DEF ReadPacketId, BlockType
    <3> QED
      BY <1>4, <1>7, <1>8, <3>1, <3>2 DEF IdWidth
  <2>2. CASE ReadParam
    <3>1. field = "param" /\ block'.packet_id = block.packet_id
      BY <1>8, <2>2 DEF ReadParam, Read, BlockType
    <3> QED
      BY <3>1, <1>20 DEF InStep
  <2>3. CASE ReadTimestamp \/ ReadLength
    BY <2>3 DEF ReadTimestamp, ReadLength, Read
  <2> QED
    BY <2>1, <2>2, <2>3
<1>13. field' = "payload" => block'.param = m.param
  <2>1. CASE ReadParam
    <3>1. field = "param" /\ Width = ParamWidth(k) /\ HeaderRead = 1 + TsWidth(k) + LenWidth(k) + IdWidth(k)
      BY <1>4, <2>1 DEF ReadParam, Read, Width, HeaderRead
    <3>2. block'.param = IF Has(k, MARKER_PARAM_RELATIVE)
                         THEN WrappingAddSigned(prev_param, AsI8(U8(buffer, cursor)))
                         ELSE U32(buffer, cursor)
      BY <1>4, <1>8, <2>1 DEF ReadParam, BlockType
    <3> QED
      BY <1>4, <1>7, <1>8, <3>1, <3>2 DEF ParamWidth
  <2>2. CASE ReadTimestamp \/ ReadLength \/ ReadPacketId
    BY <2>2 DEF ReadTimestamp, ReadLength, ReadPacketId, Read
  <2> QED
    BY <2>1, <2>2
<1> QED
  <2>1. /\ Here' = h /\ h \in 1 .. Len(written)' + 1 /\ h <= Len(written)' /\ Len(yielded)' = Len(yielded)
        /\ Reached(Len(yielded))' = at[h] /\ written'[h] = m /\ (u[Here])' = u[h]
    BY <1>1, <1>2, <1>4, <1>5, <1>9, <1>20 DEF InStep, Laid
  <2>2. \A i \in 1 .. Len(yielded)' : Content(yielded'[i]) = written'[i]
    BY <1>1 DEF InStep
  <2>3. block'.marker = MarkerOf(u[h]) /\ prev_packet_id' = p.packet_id /\ prev_param' = p.param
    BY <1>1, <1>4, <1>8, <1>20
  <2> QED
    BY <1>1, <1>9, <1>10, <1>11, <1>12, <1>13, <2>1, <2>2, <2>3 DEF InStep

(* A new block begins where the recorder began one.                         *)
LEMMA MarkerInStep ==
  ASSUME IInv, NEW at, NEW u, Laid(at, u), InStep(at, u), UNCHANGED recorded, ReadMarker
  PROVE  InStep(at, u)'
<1>20. PICK h, n : h = Here /\ n = Len(written)
  OBVIOUS
<1>1. /\ field = "marker" /\ field' = "timestamp" /\ cursor < Len(buffer) /\ cursor = Reached(Len(yielded))
      /\ UNCHANGED <<buffer, yielded, acc_time, prev_packet_id, prev_param, written>>
      /\ block'.marker = U8(buffer, cursor)
  BY MarkerThere DEF ReadMarker, Read, carried, recorded, NoBlock, IInv, Position
<1>2. Reached(Len(yielded))' = Reached(Len(yielded))
  BY <1>1, ReadKeepsTiling DEF IInv
<1>3. /\ cursor = at[h] /\ h \in 1 .. n + 1 /\ n \in Nat /\ cursor \in Nat /\ buffer \in Seq(Byte)
      /\ Len(buffer) \in Nat
  BY <1>1, <1>20 DEF InStep, Laid, IInv, TypeOK
<1>4. h \in 1 .. n
  <2> SUFFICES ASSUME h = n + 1 PROVE FALSE
    BY <1>3
  <2>1. missing \in Nat /\ Len(buffer) = at[n + 1] - missing
    BY <1>20 DEF Laid
  <2> QED
    BY <1>1, <1>3, <2>1
<1>5. at[h] \in Nat /\ at[h] < Len(buffer)
  BY <1>3, <1>4, <1>20, WhereItEnds
<1>6. Piece(h, u) \in Seq(Byte) /\ Len(Piece(h, u)) \in Nat /\ Len(Piece(h, u)) > 0
  <2>1. h \in 1 .. Len(written) + 1 /\ h <= Len(written)
    BY <1>3, <1>4, <1>20
  <2> QED
    BY <2>1, PiecesAreMessages
<1>7. Piece(h, u)[1] = MarkerOf(u[h])
  BY <1>4, <1>20, FieldsAreTheMessages
<1>8. U8(buffer, cursor) = MarkerOf(u[h])
  <2>1. 1 \in 1 .. Len(Piece(h, u)) /\ at[h] + 1 <= Len(buffer)
    BY <1>3, <1>5, <1>6
  <2>2. buffer[at[h] + 1] = Piece(h, u)[1]
    BY <1>4, <1>20, <2>1 DEF Laid
  <2> QED
    BY <1>3, <1>7, <2>2 DEF U8
<1>9. Here' = h /\ Previous(h)' = Previous(h)
  BY <1>1, <1>20 DEF Here, Previous
<1> QED
  <2>1. /\ h \in 1 .. Len(written)' + 1 /\ h <= Len(written)' /\ Reached(Len(yielded))' = at[h]
    BY <1>1, <1>2, <1>3, <1>4, <1>20
  <2>2. \A i \in 1 .. Len(yielded)' : Content(yielded'[i]) = written'[i]
    BY <1>1 DEF InStep
  <2>3. prev_packet_id' = Previous(h).packet_id /\ prev_param' = Previous(h).param /\ acc_time' = Previous(h).timestamp
    BY <1>1, <1>20 DEF InStep
  <2>4. block'.marker = MarkerOf(u[h])
    BY <1>1, <1>8
  <2> QED
    BY <1>1, <1>9, <2>1, <2>2, <2>3, <2>4 DEF InStep

(* A slice that holds the bytes of a sequence is that sequence.             *)
LEMMA SliceIs ==
  ASSUME NEW b \in Seq(Byte), NEW c \in Nat, NEW y \in Seq(Byte), c + Len(y) <= Len(b),
         \A j \in 1 .. Len(y) : b[c + j] = y[j]
  PROVE  SubSeq(b, c + 1, c + Len(y)) = y
<1>20. PICK s, d, n : s = SubSeq(b, d, n) /\ d = c + 1 /\ n = c + Len(y)
  OBVIOUS
<1>21. d \in Int /\ n \in Int /\ Len(y) \in Nat /\ Len(b) \in Nat
  BY <1>20
<1>22. \A i \in d .. n : b[i] \in Byte
  <2> SUFFICES ASSUME NEW i \in d .. n PROVE b[i] \in Byte
    OBVIOUS
  <2>1. i \in 1 .. Len(b)
    BY <1>20, <1>21
  <2> QED
    BY <2>1
<1>1. /\ s \in Seq(Byte) /\ Len(s) = IF d <= n THEN n - d + 1 ELSE 0
      /\ \A i \in 1 .. n - d + 1 : s[i] = b[d + i - 1]
  BY <1>20, <1>21, <1>22, SubSeqProperties
<1>2. Len(s) = Len(y)
  BY <1>1, <1>20, <1>21
<1>3. ASSUME NEW j \in 1 .. Len(y) PROVE s[j] = y[j]
  <2>1. j \in 1 .. n - d + 1 /\ d + j - 1 = c + j
    BY <1>20, <1>21
  <2> QED
    BY <1>1, <2>1
<1> QED
  BY <1>1, <1>2, <1>3, <1>20, SeqEqual

(* A returned block is the recorded one, and the next begins behind it.     *)
LEMMA PayloadInStep ==
  ASSUME IInv, IInv', NEW at, NEW u, Laid(at, u), InStep(at, u), UNCHANGED recorded, TakePayload
  PROVE  InStep(at, u)'
<1> DEFINE b == [block EXCEPT !.payload = SubSeq(buffer, cursor + 1, cursor + block.length)]
<1>20. PICK h, n, e, k, m : h = Here /\ n = Len(written) /\ e = Piece(h, u) /\ k = MarkerOf(u[h]) /\ m = written[h]
  OBVIOUS
<1>1. /\ field = "payload" /\ field' = "marker" /\ Need(Width) /\ cursor' = cursor + Width
      /\ UNCHANGED <<buffer, acc_time, written>> /\ yielded' = Append(yielded, b)
      /\ prev_packet_id' = block.packet_id /\ prev_param' = block.param
  BY DEF TakePayload, Read, recorded
<1>2. /\ block \in BlockType /\ buffer \in Seq(Byte) /\ cursor \in Nat /\ yielded \in Seq(BlockType)
      /\ Len(yielded) \in Nat /\ Len(buffer) \in Nat /\ n \in Nat /\ h = Len(yielded) + 1
  BY <1>20 DEF IInv, TypeOK, Laid, Here
<1>3. /\ h \in 1 .. n /\ at[h] \in Nat /\ at[h + 1] \in Nat /\ block.marker = k /\ e \in Seq(Byte)
      /\ HeaderRead \in Nat /\ cursor = at[h] + HeaderRead
  BY <1>1, <1>20, ReadsThePiece
<1>4. /\ HeaderRead = HeaderWidth(k) /\ Width = Len(m.payload)
      /\ acc_time = m.timestamp /\ block.timestamp = m.timestamp /\ block.length = Len(m.payload)
      /\ block.packet_id = m.packet_id /\ block.param = m.param
  BY <1>1, <1>3, <1>20 DEF InStep, HeaderRead, Width
<1>5. m \in MessageType /\ Len(e) = HeaderWidth(k) + Len(m.payload)
  <2>1. h \in 1 .. Len(written) + 1 /\ h <= Len(written)
    BY <1>2, <1>3, <1>20
  <2> QED
    BY <2>1, <1>20, PiecesAreMessages
<1>6. m.payload \in Seq(Byte) /\ Len(m.payload) \in Nat
  BY <1>5 DEF MessageType
<1>7. SubSeq(buffer, cursor + 1, cursor + Len(m.payload)) = m.payload
  <2>1. cursor + Len(m.payload) <= Len(buffer)
    BY <1>1, <1>4 DEF Need
  <2>2. ASSUME NEW j \in 1 .. Len(m.payload) PROVE buffer[cursor + j] = m.payload[j]
    <3>1. Lies(e, HeaderWidth(k), m.payload)
      BY <1>3, <1>20, FieldsAreTheMessages
    <3>2. e[HeaderRead + j] = m.payload[j]
      BY <1>4, <3>1 DEF Lies
    <3>3. HeaderRead + j \in 1 .. Len(e) /\ at[h] + (HeaderRead + j) = cursor + j /\ cursor + j <= Len(buffer)
      <4>1. HeaderWidth(k) \in Nat /\ j \in Nat /\ j >= 1 /\ j <= Len(m.payload)
        BY <1>3, <1>4, <1>6
      <4>2. at[h] \in Nat /\ cursor = at[h] + HeaderRead /\ HeaderRead = HeaderWidth(k)
        BY <1>3, <1>4
      <4>3. HeaderRead + j \in 1 .. Len(e)
        BY <1>5, <1>6, <4>1, <4>2
      <4>4. at[h] + (HeaderRead + j) = cursor + j
        BY <4>1, <4>2
      <4>5. cursor + j <= Len(buffer)
        BY <1>2, <1>6, <2>1, <4>1
      <4> QED
        BY <4>3, <4>4, <4>5
    <3>4. at[h] + (HeaderRead + j) <= Len(buffer) => buffer[at[h] + (HeaderRead + j)] = e[HeaderRead + j]
      BY <1>3, <1>20, <3>3 DEF Laid
    <3> QED
      BY <3>2, <3>3, <3>4
  <2> QED
    BY <1>2, <1>6, <2>1, <2>2, SliceIs
<1>8. Content(b) = m
  <2>1. b.timestamp = m.timestamp /\ b.packet_id = m.packet_id /\ b.param = m.param /\ b.payload = m.payload
    BY <1>2, <1>4, <1>7 DEF BlockType
  <2>2. m = [timestamp |-> m.timestamp, packet_id |-> m.packet_id, param |-> m.param, payload |-> m.payload]
    BY <1>5 DEF MessageType
  <2> HIDE DEF b
  <2> QED
    BY <2>1, <2>2 DEF Content
<1> HIDE DEF b
<1>9. Len(yielded') = h /\ yielded'[h] = b /\ \A i \in 1 .. Len(yielded) : yielded'[i] = yielded[i]
  BY <1>1, <1>2
<1>10. Reached(Len(yielded))' = at[h + 1]
  <2>1. Reached(Len(yielded))' = cursor'
    BY <1>1 DEF IInv, Position
  <2>2. at[h + 1] = at[h] + Len(e)
    BY <1>2, <1>3, <1>20, WhereItEnds
  <2> QED
    BY <1>1, <1>3, <1>4, <1>5, <1>6, <2>1, <2>2
<1>11. Here' = h + 1 /\ Previous(h + 1)' = m
  BY <1>1, <1>2, <1>3, <1>9, <1>20 DEF Here, Previous
<1>12. \A i \in 1 .. h : Content(yielded'[i]) = written[i]
  <2> SUFFICES ASSUME NEW i \in 1 .. h PROVE Content(yielded'[i]) = written[i]
    OBVIOUS
  <2>1. CASE i = h
    BY <1>8, <1>9, <1>20, <2>1
  <2>2. CASE i # h
    <3>1. i \in 1 .. Len(yielded)
      BY <1>2, <1>3, <2>2
    <3> QED
      BY <1>9, <3>1 DEF InStep
  <2> QED
    BY <2>1, <2>2
<1> QED
  <2>1. h + 1 \in 1 .. Len(written)' + 1
    BY <1>1, <1>2, <1>3, <1>20
  <2>2. prev_packet_id' = m.packet_id /\ prev_param' = m.param /\ acc_time' = m.timestamp
    BY <1>1, <1>4
  <2> QED
    BY <1>1, <1>9, <1>10, <1>11, <1>12, <2>1, <2>2 DEF InStep

(* Every step of the reader keeps in step with the recorder.                *)
LEMMA ReaderInStep ==
  ASSUME IInv, [Next]_vars, NEW at, NEW u, Laid(at, u), InStep(at, u), UNCHANGED recorded
  PROVE  InStep(at, u)'
<1>1. CASE ReadMarker
  BY <1>1, MarkerInStep
<1>2. CASE ReadTimestamp \/ ReadLength \/ ReadPacketId \/ ReadParam
  BY <1>2, HeaderInStep
<1>3. CASE TakePayload
  BY <1>3, PayloadInStep, StepIInv
<1>4. CASE FramingError \/ EndOfChunk \/ UNCHANGED vars
  <2>1. UNCHANGED <<buffer, acc_time, prev_packet_id, prev_param, field, block, yielded, written>>
    BY <1>4 DEF FramingError, EndOfChunk, vars, carried, recorded
  <2>2. Reached(Len(yielded))' = Reached(Len(yielded))
    BY <2>1, ReadKeepsTiling DEF IInv
  <2>3. Here' = Here /\ Previous(Here)' = Previous(Here)
    BY <2>1 DEF Here, Previous
  <2> QED
    BY <2>1, <2>2, <2>3 DEF InStep
<1> QED
  BY <1>1, <1>2, <1>3, <1>4 DEF Next

(* Before anything is read, reader and recorder both stand at the start.    *)
LEMMA StartInStep ==
  ASSUME NEW at, NEW u
  PROVE  /\ IteratorInit /\ Laid(at, u) => InStep(at, u)
         /\ IteratorInit' /\ Laid(at, u)' => InStep(at, u)'
<1>1. ASSUME IteratorInit, Laid(at, u) PROVE InStep(at, u)
  BY <1>1 DEF IteratorInit, Laid, InStep, Here, Previous, Nothing, Reached
<1>2. ASSUME IteratorInit', Laid(at, u)' PROVE InStep(at, u)'
  BY <1>2 DEF IteratorInit, Laid, InStep, Here, Previous, Nothing, Reached
<1> QED
  BY <1>1, <1>2

(* While the recorder writes, the iterator stays new.                       *)
LEMMA NewIteratorStays ==
  ASSUME IInv, IteratorInit, buffer' \in Seq(Byte),
         UNCHANGED <<cursor, carried, field, block, yielded, outcome>>
  PROVE  IInv' /\ IteratorInit'
<1>1. IteratorInit'
  BY DEF IteratorInit, carried
<1>2. TypeOK'
  BY DEF IInv, TypeOK, carried
<1>3. Len(buffer') \in Nat
  OBVIOUS
<1>4. Tiling' /\ Position' /\ Stopped'
  BY <1>1, <1>3 DEF IteratorInit, Tiling, Position, Stopped, Reached
<1> QED
  BY <1>1, <1>2, <1>4 DEF IInv

(* A recorded block is one more piece at the end of the chunk.              *)
LEMMA RecordLays ==
  ASSUME NEW at, NEW u, Laid(at, u), buffer \in Seq(Byte), origin = "recording",
         NEW m \in Messages, NEW used \in SUBSET Compressions(Previous(Len(written) + 1), m),
         Record(m, used)
  PROVE  buffer' \in Seq(Byte) /\ \E at2, u2 : Laid(at2, u2)'
<1>20. PICK n, bytes : n = Len(written) /\ bytes = Encode(Previous(n + 1), m, used)
  OBVIOUS
<1>1. /\ buffer' = buffer \o bytes /\ last_size' = Len(bytes) /\ written' = Append(written, m)
      /\ UNCHANGED <<missing, origin>>
  BY <1>20 DEF Record
<1>2. written \in Seq(Messages) /\ n \in Nat /\ missing = 0 /\ Len(buffer) = at[n + 1]
  <2>1. /\ written \in Seq(Messages) /\ missing \in Nat /\ Len(buffer) = at[n + 1] - missing
        /\ (missing > 0 => origin # "recording") /\ at \in [1 .. n + 1 -> Nat]
    BY <1>20 DEF Laid
  <2>2. n \in Nat
    BY <1>20, <2>1
  <2>3. missing = 0
    BY <2>1
  <2>4. at[n + 1] \in Nat
    BY <2>1, <2>2
  <2> QED
    BY <2>1, <2>2, <2>3, <2>4
<1>3. bytes \in Seq(Byte) /\ Len(bytes) \in Nat
  <2>1. Previous(n + 1) \in MessageType
    BY <1>2, <1>20, PiecesAreMessages
  <2>2. m \in MessageType /\ Len(m.payload) \in Word
    BY MessageAssumption DEF MessageType
  <2>3. used \in SUBSET Compressions(Previous(n + 1), m)
    BY <1>20
  <2> QED
    BY <1>20, <2>1, <2>2, <2>3, PieceTells
<1>21. PICK at2 : at2 = [i \in 1 .. n + 2 |-> IF i = n + 2 THEN at[n + 1] + Len(bytes) ELSE at[i]]
  OBVIOUS
<1>22. PICK u2 : u2 = [i \in 1 .. n + 1 |-> IF i = n + 1 THEN used ELSE u[i]]
  OBVIOUS
<1>4. /\ Len(written') = n + 1 /\ written'[n + 1] = m /\ written' # <<>> /\ written' \in Seq(Messages)
      /\ \A i \in 1 .. n : written'[i] = written[i]
  BY <1>1, <1>2, <1>20
<1>5. at \in [1 .. n + 1 -> Nat] /\ at[1] = 0
  BY <1>20 DEF Laid
<1>6. /\ at2 \in [1 .. n + 2 -> Nat] /\ at2[n + 2] = at[n + 1] + Len(bytes)
      /\ \A i \in 1 .. n + 1 : at2[i] = at[i]
  BY <1>2, <1>3, <1>5, <1>21
<1>7. u2[n + 1] = used /\ \A i \in 1 .. n : u2[i] = u[i]
  BY <1>2, <1>22
<1>8. \A i \in 1 .. n + 1 : Previous(i)' = Previous(i)
  BY <1>2, <1>4 DEF Previous
<1>9. Piece(n + 1, u2)' = bytes /\ \A i \in 1 .. n : Piece(i, u2)' = Piece(i, u)
  BY <1>2, <1>4, <1>7, <1>8, <1>20 DEF Piece
<1>10. /\ buffer' \in Seq(Byte) /\ Len(buffer') = Len(buffer) + Len(bytes)
       /\ \A j \in 1 .. Len(buffer) : buffer'[j] = buffer[j]
       /\ \A j \in 1 .. Len(bytes) : buffer'[Len(buffer) + j] = bytes[j]
  BY <1>1, <1>3
<1>11. ASSUME NEW i \in 1 .. n + 1
       PROVE  /\ u2[i] \subseteq Compressions(Previous(i)', written'[i])
              /\ at2[i + 1] = at2[i] + Len(Piece(i, u2)')
              /\ at2[i] <= at2[n + 1] /\ (i = n + 1 => last_size' = Len(Piece(i, u2)'))
              /\ \A j \in 1 .. Len(Piece(i, u2)') :
                   at2[i] + j <= Len(buffer') => buffer'[at2[i] + j] = (Piece(i, u2)')[j]
  <2>1. CASE i = n + 1
    <3>1. u2[i] \subseteq Compressions(Previous(i)', written'[i])
      BY <1>2, <1>4, <1>7, <1>8, <1>20, <2>1
    <3>2. at2[i] = Len(buffer) /\ Piece(i, u2)' = bytes /\ at2[i + 1] = Len(buffer) + Len(bytes)
      BY <1>2, <1>6, <1>9, <2>1
    <3>3. at2[i + 1] = at2[i] + Len(Piece(i, u2)') /\ at2[i] <= at2[n + 1] /\ last_size' = Len(Piece(i, u2)')
      BY <1>1, <2>1, <3>2
    <3>4. \A j \in 1 .. Len(Piece(i, u2)') : buffer'[at2[i] + j] = (Piece(i, u2)')[j]
      BY <1>10, <3>2
    <3> QED
      BY <3>1, <3>3, <3>4
  <2>2. CASE i \in 1 .. n
    <3>1. i \in 1 .. n + 1 /\ i + 1 \in 1 .. n + 1 /\ n \in 1 .. n /\ n \in 1 .. n + 1 /\ n + 1 \in 1 .. n + 1
      BY <1>2, <2>2
    <3>2. /\ at2[i] = at[i] /\ at2[i + 1] = at[i + 1] /\ at2[n + 1] = at[n + 1]
          /\ u2[i] = u[i] /\ Piece(i, u2)' = Piece(i, u) /\ Previous(i)' = Previous(i) /\ written'[i] = written[i]
      BY <1>4, <1>6, <1>7, <1>8, <1>9, <2>2, <3>1
    <3>3. /\ u[i] \subseteq Compressions(Previous(i), written[i])
          /\ at[i + 1] = at[i] + Len(Piece(i, u)) /\ at[i] <= at[n]
          /\ at[n + 1] = at[n] + Len(Piece(n, u))
          /\ \A j \in 1 .. Len(Piece(i, u)) : at[i] + j <= Len(buffer) => buffer[at[i] + j] = Piece(i, u)[j]
      BY <2>2, <3>1, <1>20 DEF Laid
    <3>4. at[i] \in Nat /\ at[n] \in Nat /\ at[n + 1] \in Nat /\ at[i + 1] \in Nat
      BY <1>5, <3>1
    <3>5. Len(Piece(n, u)) \in Nat /\ Len(Piece(i, u)) \in Nat /\ at[i + 1] <= at[n + 1]
      <4>1. Piece(n, u) \in Seq(Byte) /\ Piece(i, u) \in Seq(Byte)
        <5>1. i \in 1 .. Len(written) + 1 /\ i <= Len(written) /\ n \in 1 .. Len(written) + 1 /\ n <= Len(written)
          BY <1>2, <2>2, <3>1, <1>20
        <5> QED
          BY <5>1, PiecesAreMessages
      <4>2. at[i + 1] <= at[n + 1]
        <5>1. CASE i = n
          BY <3>4, <5>1
        <5>2. CASE i # n
          <6>1. i + 1 \in 1 .. n
            BY <1>2, <2>2, <5>2
          <6>2. at[i + 1] <= at[n]
            BY <6>1, <1>20 DEF Laid
          <6> QED
            BY <3>3, <3>4, <4>1, <6>2
        <5> QED
          BY <5>1, <5>2
      <4> QED
        BY <4>1, <4>2
    <3>6. ASSUME NEW j \in 1 .. Len(Piece(i, u))
          PROVE  buffer'[at[i] + j] = Piece(i, u)[j]
      <4>1. at[i] + j \in 1 .. Len(buffer)
        BY <1>2, <3>3, <3>4, <3>5
      <4> QED
        BY <1>10, <3>3, <4>1
    <3>7. at2[i] <= at2[n + 1]
      BY <3>2, <3>3, <3>4, <3>5
    <3> QED
      BY <1>2, <2>2, <3>2, <3>3, <3>6, <3>7
  <2> QED
    BY <1>2, <2>1, <2>2
<1>12. Laid(at2, u2)'
  <2>1. Len(written') + 1 = n + 2
    BY <1>2, <1>4
  <2>2. at2 \in [1 .. Len(written') + 1 -> Nat] /\ at2[1] = 0
    BY <1>2, <1>5, <1>6, <2>1
  <2>3. Len(buffer') = at2[Len(written') + 1] - missing' /\ missing' = 0
    BY <1>1, <1>2, <1>3, <1>6, <1>10, <2>1
  <2>4. \A i \in 1 .. Len(written') :
              /\ u2[i] \subseteq Compressions(Previous(i)', written'[i])
              /\ at2[i + 1] = at2[i] + Len(Piece(i, u2)')
              /\ at2[i] <= at2[Len(written')] /\ (i = Len(written') => last_size' = Len(Piece(i, u2)'))
              /\ \A j \in 1 .. Len(Piece(i, u2)') :
                   at2[i] + j <= Len(buffer') => buffer'[at2[i] + j] = (Piece(i, u2)')[j]
    BY <1>4, <1>11
  <2> QED
    BY <1>4, <2>2, <2>3, <2>4 DEF Laid
<1> QED
  BY <1>10, <1>12

(* A cut takes away the end of the last piece and nothing else.             *)
LEMMA CloseLays ==
  ASSUME NEW at, NEW u, Laid(at, u), buffer \in Seq(Byte), origin = "recording",
         NEW x \in 0 .. (IF written = <<>> THEN 0 ELSE last_size - 1), Close(x)
  PROVE  buffer' \in Seq(Byte) /\ Laid(at, u)'
<1>20. PICK n : n = Len(written)
  OBVIOUS
<1>1. /\ buffer' = SubSeq(buffer, 1, Len(buffer) - x) /\ missing' = x /\ origin' = "recorded"
      /\ UNCHANGED <<written, last_size>>
  BY DEF Close
<1>2. /\ written \in Seq(Messages) /\ n \in Nat /\ missing = 0 /\ Len(buffer) = at[n + 1]
      /\ at \in [1 .. n + 1 -> Nat] /\ Len(buffer) \in Nat
  <2>1. /\ written \in Seq(Messages) /\ missing \in Nat /\ Len(buffer) = at[n + 1] - missing
        /\ (missing > 0 => origin # "recording") /\ at \in [1 .. n + 1 -> Nat]
    BY <1>20 DEF Laid
  <2>2. n \in Nat /\ missing = 0
    BY <1>20, <2>1
  <2>3. at[n + 1] \in Nat
    BY <2>1, <2>2
  <2> QED
    BY <2>1, <2>2, <2>3
<1>3. x \in Nat /\ x <= Len(buffer) /\ (x > 0 => written # <<>> /\ x < last_size)
  <2>1. CASE written = <<>>
    BY <1>2, <2>1
  <2>2. CASE written # <<>>
    <3>1. n \in 1 .. n /\ n \in 1 .. n + 1
      BY <1>2, <1>20, <2>2
    <3>2. at[n + 1] = at[n] + last_size /\ at[n] \in Nat
      BY <1>2, <1>20, <3>1 DEF Laid
    <3>3. last_size = Len(Piece(n, u)) /\ Piece(n, u) \in Seq(Byte)
      <4>1. n \in 1 .. Len(written) + 1 /\ n <= Len(written)
        BY <1>2, <1>20, <3>1
      <4>2. Piece(n, u) \in Seq(Byte)
        BY <4>1, PiecesAreMessages
      <4> QED
        BY <1>20, <3>1, <4>2 DEF Laid
    <3>4. last_size \in Nat
      BY <3>3
    <3> QED
      BY <1>2, <2>2, <3>2, <3>4
  <2> QED
    BY <2>1, <2>2
<1>4. /\ buffer' \in Seq(Byte) /\ Len(buffer') = Len(buffer) - x
      /\ \A j \in 1 .. Len(buffer') : buffer'[j] = buffer[j]
  <2>1. PICK l : l = Len(buffer) - x
    OBVIOUS
  <2>2. l \in Nat /\ l <= Len(buffer) /\ buffer' = SubSeq(buffer, 1, l)
    BY <1>1, <1>2, <1>3, <2>1
  <2>3. \A j \in 1 .. l : buffer[j] \in Byte
    BY <2>2
  <2>4. 1 \in Int /\ l \in Int
    BY <2>2
  <2>5. /\ buffer' \in Seq(Byte) /\ Len(buffer') = IF 1 <= l THEN l - 1 + 1 ELSE 0
        /\ \A j \in 1 .. l - 1 + 1 : buffer'[j] = buffer[1 + j - 1]
    BY <2>2, <2>3, <2>4, SubSeqProperties
  <2>6. Len(buffer') = l
    BY <2>2, <2>5
  <2> QED
    BY <2>1, <2>2, <2>5, <2>6
<1>5. \A i : Previous(i)' = Previous(i) /\ Piece(i, u)' = Piece(i, u)
  BY <1>1 DEF Previous, Piece
<1>6. ASSUME NEW i \in 1 .. n, NEW j \in 1 .. Len(Piece(i, u)), at[i] + j <= Len(buffer')
      PROVE  buffer'[at[i] + j] = Piece(i, u)[j]
  <2>1. at[i] \in Nat
    BY <1>2
  <2>2. at[i] + j \in 1 .. Len(buffer') /\ at[i] + j <= Len(buffer)
    BY <1>2, <1>3, <1>4, <1>6, <2>1
  <2>3. buffer[at[i] + j] = Piece(i, u)[j]
    BY <2>2, <1>20 DEF Laid
  <2> QED
    BY <1>4, <2>2, <2>3
<1>7. Laid(at, u)'
  <2>1. ASSUME NEW i \in 1 .. Len(written)'
        PROVE  /\ u[i] \subseteq Compressions(Previous(i)', written'[i])
               /\ at[i + 1] = at[i] + Len(Piece(i, u)')
               /\ at[i] <= at[Len(written)']
               /\ i = Len(written)' => last_size' = Len(Piece(i, u)')
               /\ \A j \in 1 .. Len(Piece(i, u)') :
                    at[i] + j <= Len(buffer') => buffer'[at[i] + j] = (Piece(i, u)')[j]
    <3>1. /\ i \in 1 .. n /\ Previous(i)' = Previous(i) /\ Piece(i, u)' = Piece(i, u)
          /\ written' = written /\ last_size' = last_size /\ Len(written)' = n
      BY <1>1, <1>5, <1>20
    <3>2. /\ u[i] \subseteq Compressions(Previous(i), written[i])
          /\ at[i + 1] = at[i] + Len(Piece(i, u)) /\ at[i] <= at[n]
          /\ (i = n => last_size = Len(Piece(i, u)))
      BY <1>20, <3>1 DEF Laid
    <3>3. \A j \in 1 .. Len(Piece(i, u)) :
            at[i] + j <= Len(buffer') => buffer'[at[i] + j] = Piece(i, u)[j]
      BY <1>6, <3>1
    <3> QED
      BY <3>1, <3>2, <3>3
  <2>2. /\ written' \in Seq(Messages) /\ at \in [1 .. Len(written)' + 1 -> Nat] /\ at[1] = 0
        /\ missing' \in Nat /\ Len(buffer') = at[Len(written)' + 1] - missing'
        /\ (missing' > 0 => written' # <<>> /\ missing' < last_size' /\ origin' # "recording")
    <3>1. at[1] = 0
      BY DEF Laid
    <3> QED
      BY <1>1, <1>2, <1>3, <1>4, <1>20, <3>1
  <2> QED
    BY <1>1, <2>1, <2>2 DEF Laid
<1> QED
  BY <1>4, <1>7

(* The recorder starts with no block and the reader with a new iterator.    *)
LEMMA StreamInitInv == StreamInit => StreamInv
<1> SUFFICES ASSUME StreamInit PROVE StreamInv
  OBVIOUS
<1>1. buffer \in Seq(Byte) /\ IteratorInit
  <2>1. buffer = <<>> \/ buffer \in Buffers
    BY DEF StreamInit
  <2>2. buffer \in Seq(Byte)
    <3>1. CASE buffer = <<>>
      BY <3>1
    <3>2. CASE buffer \in Buffers
      BY <3>2, BuffersAssumption
    <3> QED
      BY <2>1, <3>1, <3>2
  <2> QED
    BY <2>2 DEF StreamInit
<1>2. TypeOK
  BY <1>1, Sizes DEF IteratorInit, TypeOK, BlockType, NoBlock, Fields
<1>3. Tiling /\ Position /\ Stopped
  BY <1>1, <1>2 DEF IteratorInit, Tiling, Position, Stopped, Reached
<1>4. ASSUME origin # "found" PROVE \E at, u : Laid(at, u) /\ InStep(at, u)
  <2>1. PICK at : at = [i \in 1 .. 1 |-> 0]
    OBVIOUS
  <2>2. at \in [1 .. 1 -> Nat] /\ at[1] = 0
    BY <2>1
  <2>3. written = <<>> /\ missing = 0 /\ buffer = <<>>
    BY <1>4 DEF StreamInit
  <2>4. Laid(at, <<>>)
    BY <2>2, <2>3 DEF Laid
  <2> QED
    BY <1>1, <2>4, StartInStep
<1>5. origin \in {"recording", "recorded", "found"}
  BY DEF StreamInit
<1> QED
  BY <1>1, <1>2, <1>3, <1>4, <1>5 DEF StreamInv, IInv

(* Recorder and reader keep in step whatever either of them does.           *)
LEMMA StreamStep == StreamInv /\ [StreamNext]_streamVars => StreamInv'
<1> SUFFICES ASSUME StreamInv, [StreamNext]_streamVars PROVE StreamInv'
  OBVIOUS
<1>1. IInv /\ buffer \in Seq(Byte) /\ origin \in {"recording", "recorded", "found"}
  BY DEF StreamInv, IInv, TypeOK
<1>2. CASE Recorder
  <2>1. origin = "recording" /\ IteratorInit /\ \E at, u : Laid(at, u)
    BY <1>2 DEF Recorder, Record, Close, StreamInv
  <2>2. PICK at, u : Laid(at, u)
    BY <2>1
  <2>3. UNCHANGED <<cursor, carried, field, block, yielded, outcome>>
    BY <1>2 DEF Recorder, Record, Close
  <2>4. buffer' \in Seq(Byte) /\ (\E at2, u2 : Laid(at2, u2)') /\ origin' \in {"recording", "recorded"}
    <3>1. ASSUME NEW m \in Messages, NEW used \in SUBSET Compressions(Previous(Len(written) + 1), m),
                 Record(m, used)
          PROVE  buffer' \in Seq(Byte) /\ (\E at2, u2 : Laid(at2, u2)') /\ origin' = "recording"
      <4>1. origin' = "recording"
        BY <3>1, <2>1 DEF Record
      <4> QED
        BY <1>1, <2>1, <2>2, <3>1, <4>1, RecordLays
    <3>2. ASSUME NEW x \in 0 .. (IF written = <<>> THEN 0 ELSE last_size - 1), Close(x)
          PROVE  buffer' \in Seq(Byte) /\ (\E at2, u2 : Laid(at2, u2)') /\ origin' = "recorded"
      <4>1. origin' = "recorded"
        BY <3>2 DEF Close
      <4> QED
        BY <1>1, <2>1, <2>2, <3>2, <4>1, CloseLays
    <3> QED
      BY <1>2, <3>1, <3>2 DEF Recorder
  <2>5. IInv' /\ IteratorInit'
    BY <1>1, <2>1, <2>3, <2>4, NewIteratorStays
  <2>6. \E at2, u2 : Laid(at2, u2)' /\ InStep(at2, u2)'
    BY <2>4, <2>5, StartInStep
  <2> QED
    BY <2>4, <2>5, <2>6 DEF StreamInv
<1>3. CASE Reader \/ UNCHANGED streamVars
  <2>1. [Next]_vars /\ UNCHANGED recorded /\ (origin = "recording" => UNCHANGED vars)
    BY <1>3 DEF Reader, streamVars
  <2>2. IInv'
    BY <1>1, <2>1, StepIInv
  <2>3. origin' = origin /\ UNCHANGED buffer
    <3>1. UNCHANGED recorded /\ [Next]_vars
      BY <2>1
    <3>2. origin' = origin
      BY <3>1 DEF recorded
    <3>3. UNCHANGED buffer
      BY <3>1 DEF Next, vars, ReadMarker, ReadTimestamp, ReadLength, ReadPacketId, ReadParam, TakePayload,
                  FramingError, EndOfChunk, Read
    <3> QED
      BY <3>2, <3>3
  <2>4. ASSUME origin # "found" PROVE \E at, u : Laid(at, u)' /\ InStep(at, u)'
    <3>1. PICK at, u : Laid(at, u) /\ InStep(at, u)
      BY <2>4 DEF StreamInv
    <3>2. Laid(at, u)'
      BY <2>1, <2>3, <3>1, LayoutStays
    <3>3. InStep(at, u)'
      BY <1>1, <2>1, <3>1, ReaderInStep
    <3> QED
      BY <3>2, <3>3
  <2>5. origin = "recording" => IteratorInit'
    <3> SUFFICES ASSUME origin = "recording" PROVE IteratorInit'
      OBVIOUS
    <3>1. IteratorInit /\ UNCHANGED vars
      BY <2>1 DEF StreamInv
    <3> QED
      BY <3>1 DEF vars, carried, IteratorInit
  <2> QED
    BY <1>1, <2>2, <2>3, <2>4, <2>5 DEF StreamInv
<1> QED
  BY <1>2, <1>3 DEF StreamNext

(* The invariant holds in every state of a recorder and its reader.         *)
LEMMA StreamInvariance == StreamSpec => []StreamInv
BY StreamInitInv, StreamStep, PTL DEF StreamSpec

(* What a reader in step with the recorder has returned when it stops.      *)
LEMMA InStepReadsAll == StreamInv => ReadsWhatWasWritten
<1> SUFFICES ASSUME StreamInv, origin = "recorded"
             PROVE  /\ Len(yielded) <= Whole
                    /\ \A i \in 1 .. Len(yielded) : Content(yielded[i]) = written[i]
                    /\ outcome # "running" => Len(yielded) = Whole /\ (outcome = "error" <=> missing > 0)
  BY DEF ReadsWhatWasWritten
<1>1. PICK at, u : Laid(at, u) /\ InStep(at, u)
  BY DEF StreamInv
<1>20. PICK h, n : h = Here /\ n = Len(written)
  OBVIOUS
<1>2. /\ IInv /\ TypeOK /\ buffer \in Seq(Byte) /\ cursor \in Nat /\ Len(yielded) \in Nat /\ Len(buffer) \in Nat
      /\ outcome \in {"running", "none", "error"} /\ cursor <= Len(buffer)
  BY DEF StreamInv, IInv, TypeOK, Position
<1>3. /\ n \in Nat /\ missing \in Nat /\ Len(buffer) = at[n + 1] - missing /\ at \in [1 .. n + 1 -> Nat]
      /\ (missing > 0 => n > 0) /\ h = Len(yielded) + 1 /\ h \in 1 .. n + 1
  BY <1>1, <1>20 DEF Laid, InStep, Here
<1>4. field # "marker" => h \in 1 .. n
  BY <1>1, <1>3, <1>20 DEF InStep
<1>5. field = "marker" => cursor = at[h]
  BY <1>1, <1>2, <1>20 DEF IInv, Position, InStep
<1>6. \A i \in 1 .. n : at[i] \in Nat /\ at[i + 1] \in Nat /\ at[i] < Len(buffer) /\ (at[i + 1] > Len(buffer) => i = n /\ missing > 0)
  BY <1>1, <1>2, <1>20, WhereItEnds
<1>7. h = n + 1 => missing = 0
  <2> SUFFICES ASSUME h = n + 1 PROVE missing = 0
    OBVIOUS
  <2>1. field = "marker" /\ cursor = at[n + 1] /\ at[n + 1] \in Nat
    BY <1>3, <1>4, <1>5
  <2> QED
    BY <1>2, <1>3, <2>1
<1>8. Len(yielded) <= Whole
  BY <1>2, <1>3, <1>7, <1>20 DEF Whole
<1>9. \A i \in 1 .. Len(yielded) : Content(yielded[i]) = written[i]
  BY <1>1 DEF InStep
<1>10. outcome = "none" => Len(yielded) = Whole /\ missing = 0
  <2> SUFFICES ASSUME outcome = "none" PROVE Len(yielded) = Whole /\ missing = 0
    OBVIOUS
  <2>1. field = "marker" /\ cursor >= Len(buffer)
    BY <1>2 DEF IInv, Stopped
  <2>2. h = n + 1
    <3> SUFFICES ASSUME h \in 1 .. n PROVE FALSE
      BY <1>3
    <3> QED
      BY <1>2, <1>5, <1>6, <2>1
  <2> QED
    BY <1>3, <1>7, <1>20, <2>2 DEF Whole
<1>11. outcome = "error" => Len(yielded) = Whole /\ missing > 0
  <2> SUFFICES ASSUME outcome = "error" PROVE Len(yielded) = Whole /\ missing > 0
    OBVIOUS
  <2>1. field # "marker" /\ cursor + Width > Len(buffer)
    BY <1>2 DEF IInv, Stopped
  <2>2. /\ cursor = at[h] + HeaderRead /\ HeaderRead + Width <= Len(Piece(h, u))
        /\ HeaderRead \in Nat /\ Width \in Nat
    BY <1>1, <1>2, <1>20, <2>1, ReadsThePiece
  <2>3. h \in 1 .. n /\ at[h + 1] = at[h] + Len(Piece(h, u)) /\ at[h] \in Nat /\ at[h + 1] \in Nat
    BY <1>1, <1>2, <1>4, <1>20, <2>1, WhereItEnds
  <2>4. at[h + 1] > Len(buffer)
    BY <1>2, <2>1, <2>2, <2>3
  <2>5. h = n /\ missing > 0
    BY <1>6, <2>3, <2>4
  <2> QED
    BY <1>3, <1>20, <2>5 DEF Whole
<1> QED
  BY <1>2, <1>8, <1>9, <1>10, <1>11

-----------------------------------------------------------------------------
(* A chunk being recorded, recorded or found reads as blocks of the right   *)
(* types that tile it, and its end is reported for what it is, exactly as   *)
(* for a body nobody recorded.                                             *)
THEOREM StreamTiles == StreamSpec => [](TypeOK /\ Tiling /\ EndIsExact)
<1>1. StreamInv => TypeOK /\ Tiling /\ EndIsExact
  <2> SUFFICES ASSUME StreamInv PROVE TypeOK /\ Tiling /\ EndIsExact
    OBVIOUS
  <2>1. IInv /\ TypeOK /\ Tiling
    BY DEF StreamInv, IInv
  <2>2. cursor \in Nat /\ Len(buffer) \in Nat
    BY <2>1 DEF TypeOK
  <2>3. EndIsExact
    BY <2>1, <2>2 DEF IInv, Position, Stopped, EndIsExact
  <2> QED
    BY <2>1, <2>3
<1> QED
  BY <1>1, StreamInvariance, PTL

(* Whatever was recorded, in whatever mixture of relative and absolute      *)
(* fields and however long, and wherever in its last block the chunk was    *)
(* cut, the reader returns exactly the whole blocks as they were meant, and *)
(* ends with an error exactly when one was cut.                             *)
THEOREM ReadsBackWhatWasWritten == StreamSpec => []ReadsWhatWasWritten
BY InStepReadsAll, StreamInvariance, PTL
=============================================================================
