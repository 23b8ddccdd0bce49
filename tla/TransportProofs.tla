-------------------------- MODULE TransportProofs --------------------------
(***************************************************************************)
(* Proofs about Transport, for every set of files, of any number of        *)
(* records of any size: its type invariant, that the walk hands out each   *)
(* record once, in order, up to the end of the region, and what a consumer *)
(* has acted on when it ends.                                              *)
(*                                                                         *)
(* The argument is that the cursor always stands where a record ends, and  *)
(* that the number of that record is the number of records handed out;     *)
(* and that what has been acted on is what has been read of the records    *)
(* handed out, none of them damaged if the consumer returns at damage.     *)
(***************************************************************************)
EXTENDS Transport, TLAPS

N == Len(file.chunks)

\* The iterator has answered with a record the consumer has not looked at.
Pending == item.kind = "ok" /\ open = 0 /\ outcome = "running"

\* How many records the iterator has answered with.
Given == IF Pending THEN Len(seen) + 1 ELSE Len(seen)

Shapes ==
  /\ file \in Files
  /\ item \in [kind : {"ask", "none", "err", "ok"}, at : 0 .. N]
  /\ open \in 0 .. N
  /\ seen \in Seq(Nat)
  /\ outcome \in {"running", "ok", "error"}

Place ==
  /\ Given \in 0 .. N
  /\ cursor = FileEnd(Given)
  /\ cursor <= file.end
  /\ \A k \in 1 .. Given : FileEnd(k) <= file.end

Order ==
  /\ \A k \in 1 .. Len(seen) : seen[k] = k
  /\ Pending => item.at = Len(seen) + 1
  /\ open # 0 => item.kind = "ok"
  /\ item.kind = "none" => cursor >= file.end
  /\ outcome = "ok" => item.kind = "none"

IInv == Shapes /\ Place /\ Order

-----------------------------------------------------------------------------
\* What ChunkAssumption says of one file.
LEMMA FileFacts ==
  ASSUME file \in Files
  PROVE  /\ N \in Nat /\ DOMAIN file.chunks = 1 .. N
         /\ LaidOut(file.chunks)
         /\ file.end \in 0 .. FileEnd(N)
         /\ file.end \in Nat
BY ChunkAssumption DEF N, FileEnd

\* A record's bytes: at least its header, however long its body is.
LEMMA RecordFacts ==
  ASSUME file \in Files, NEW i \in 1 .. N
  PROVE  /\ file.chunks[i].offset \in Nat
         /\ file.chunks[i].offset = FileEnd(i - 1)
         /\ BodyLen(file.chunks[i]) \in Nat
         /\ FileEnd(i) = file.chunks[i].offset + HeaderSize + BodyLen(file.chunks[i])
         /\ FileEnd(i) \in Nat
         /\ file.chunks[i].offset < FileEnd(i)
         /\ \A j \in 1 .. i - 1 : FileEnd(j) <= file.chunks[i].offset
<1>1. /\ N \in Nat /\ LaidOut(file.chunks) /\ i \in 1 .. Len(file.chunks)
  BY FileFacts DEF N
<1>2. IsChunk(file.chunks[i]) /\ file.chunks[i].offset = FileEnd(i - 1)
  BY <1>1 DEF LaidOut, FileEnd
<1>3. \A j \in 1 .. i - 1 : FileEnd(j) <= file.chunks[i].offset
  BY <1>1 DEF LaidOut, FileEnd
<1>4. /\ file.chunks[i].offset \in Nat
      /\ BodyLen(file.chunks[i]) \in Nat
      /\ BodyLen(file.chunks[i]) = StoredLen(file.chunks[i])
  BY <1>2 DEF IsChunk, BodyLen, StoredLen
<1>5. FileEnd(i) = file.chunks[i].offset + HeaderSize + StoredLen(file.chunks[i])
  BY <1>1 DEF FileEnd, EndIn
<1>6. HeaderSize \in Nat \ {0}
  BY ChunkAssumption
<1> QED BY <1>2, <1>3, <1>4, <1>5, <1>6

\* Where any number of records ends is an offset.
LEMMA EndsAreOffsets ==
  ASSUME file \in Files, NEW g \in 0 .. N
  PROVE  FileEnd(g) \in Nat
<1>1. CASE g = 0
  BY <1>1 DEF FileEnd, EndIn
<1>2. CASE g # 0
  <2>1. g \in 1 .. N
    BY <1>2, FileFacts
  <2> QED BY <2>1, RecordFacts
<1> QED BY <1>1, <1>2

\* Where a record ends, short of the region's end, the next one starts and no
\* other does.
LEMMA NextRecord ==
  ASSUME file \in Files, NEW g \in 0 .. N, cursor = FileEnd(g), cursor < file.end
  PROVE  /\ g + 1 \in 1 .. N
         /\ StartingAt(cursor) = {g + 1}
<1>1. N \in Nat /\ file.end \in Nat /\ file.end <= FileEnd(N) /\ FileEnd(N) \in Nat
  BY FileFacts, EndsAreOffsets
<1>2. FileEnd(g) \in Nat
  BY EndsAreOffsets
<1>3. g # N
  BY <1>1, <1>2
<1>4. g + 1 \in 1 .. N /\ (g + 1) - 1 = g
  BY <1>1, <1>3
<1>5. file.chunks[g + 1].offset = cursor
  BY <1>4, RecordFacts
<1>6. ASSUME NEW i \in 1 .. N, file.chunks[i].offset = cursor
      PROVE  i = g + 1
  <2>1. CASE i < g + 1
    <3>1. /\ i \in 1 .. g /\ i \in Nat /\ g \in Nat
      BY <2>1, <1>1
    <3>2. cursor < FileEnd(i) /\ FileEnd(i) \in Nat /\ cursor \in Nat
      BY <1>2, <1>6, RecordFacts
    <3>3. FileEnd(i) <= file.chunks[g + 1].offset
      BY <3>1, <1>4, RecordFacts
    <3> QED BY <3>2, <3>3, <1>5
  <2>2. CASE g + 1 < i
    <3>1. g + 1 \in 1 .. i - 1
      BY <2>2, <1>1, <1>4
    <3>2. FileEnd(g + 1) <= cursor
      BY <3>1, <1>6, RecordFacts
    <3>3. cursor < FileEnd(g + 1) /\ FileEnd(g + 1) \in Nat
      BY <1>4, <1>5, RecordFacts
    <3> QED BY <3>2, <3>3, <1>2
  <2> QED BY <2>1, <2>2, <1>1
<1> QED BY <1>4, <1>5, <1>6 DEF StartingAt, N

-----------------------------------------------------------------------------
\* The iterator and the loop start at the first record.
LEMMA InitIInv == Init => IInv
<1> SUFFICES ASSUME Init PROVE IInv
  OBVIOUS
<1> USE DEF Init, IterInit, Ask
<1>1. N \in Nat /\ file.end \in Nat
  BY FileFacts
<1>2. Shapes
  BY <1>1 DEF Shapes
<1>3. Given = 0
  BY DEF Given, Pending
<1>4. Place
  BY <1>1, <1>3 DEF Place, FileEnd, EndIn
<1>5. Order
  BY DEF Order, Pending
<1> QED BY <1>2, <1>4, <1>5 DEF IInv

\* The iterator's answer: nothing, an error, or the record after the last one.
LEMMA WalkStep == IInv /\ Walk => IInv'
<1> SUFFICES ASSUME IInv, Walk PROVE IInv'
  OBVIOUS
<1> USE DEF IInv
<1>1. /\ file' = file /\ open' = open /\ seen' = seen /\ outcome' = outcome
      /\ outcome = "running" /\ open = 0 /\ item = Ask
  BY DEF Walk, IterNext, NextNone, NextErr, NextOk
<1>2. /\ ~ Pending /\ Given = Len(seen) /\ Len(seen) \in 0 .. N
      /\ cursor = FileEnd(Len(seen))
  BY <1>1 DEF Pending, Given, Ask, Place
<1>3. N' = N /\ \A k : FileEnd(k)' = FileEnd(k)
  BY <1>1 DEF N, FileEnd
<1>4. CASE NextNone \/ NextErr
  <2>1. cursor' = cursor /\ item' \in {None, Err} /\ (item' = None => cursor >= file.end)
    BY <1>4 DEF NextNone, NextErr, None, Err
  <2>2. ~ Pending' /\ Given' = Given
    BY <2>1, <1>1, <1>2 DEF Pending, Given, None, Err
  <2>3. Shapes'
    BY <2>1, <1>1, <1>3, FileFacts DEF Shapes, None, Err
  <2>4. Place'
    BY <2>1, <2>2, <1>1, <1>3 DEF Place
  <2>5. Order'
    BY <2>1, <2>2, <1>1 DEF Order, None, Err
  <2> QED BY <2>3, <2>4, <2>5
<1>5. CASE NextOk
  <2> DEFINE g == Len(seen) + 1
  <2>1. cursor < file.end /\ file \in Files
    BY <1>5 DEF NextOk, Shapes
  <2>2. g \in 1 .. N /\ StartingAt(cursor) = {g}
    BY <2>1, <1>2, NextRecord
  <2>3. (CHOOSE i \in StartingAt(cursor) : TRUE) = g /\ StartingAt(cursor) # {}
    BY <2>2
  <2>4. HeaderAt(cursor) = file.chunks[g]
    BY <2>3 DEF HeaderAt
  <2>5. BodyEnd = FileEnd(g)
    <3>1. g - 1 = Len(seen)
      BY <1>2
    <3> HIDE DEF g
    <3> QED BY <2>1, <2>2, <2>4, <3>1, <1>2, RecordFacts DEF BodyEnd
  <2>6. item' = Ok(g) /\ cursor' = FileEnd(g) /\ FileEnd(g) <= file.end
    BY <1>5, <2>3, <2>5 DEF NextOk, Fits
  <2>7. Pending' /\ Given' = g
    BY <2>6, <1>1 DEF Pending, Given, Ok
  <2>8. Shapes'
    BY <2>6, <2>2, <1>1, <1>3 DEF Shapes, Ok
  <2>9. Place'
    <3>1. g \in 0 .. N /\ \A k \in 1 .. g : k \in 1 .. Len(seen) \/ k = g
      BY <2>2, <1>2
    <3>2. \A k \in 1 .. g : FileEnd(k) <= file.end
      BY <3>1, <2>6, <1>2 DEF Place
    <3> QED BY <3>1, <3>2, <2>6, <2>7, <1>1, <1>3 DEF Place
  <2>10. Order'
    BY <2>6, <1>1 DEF Order, Ok
  <2> QED BY <2>8, <2>9, <2>10
<1> QED BY <1>4, <1>5 DEF Walk, IterNext

\* Taking the record the iterator answered with: its index joins `seen`.
LEMMA TakeStep == IInv /\ (Skip \/ Open \/ BadFrame) => IInv'
<1> SUFFICES ASSUME IInv, Skip \/ Open \/ BadFrame PROVE IInv'
  OBVIOUS
<1> USE DEF IInv
<1>1. /\ file' = file /\ cursor' = cursor
      /\ Pending /\ item.at = Len(seen) + 1
      /\ seen' = Append(seen, item.at)
  BY DEF Skip, Open, BadFrame, iterVars, Order, Pending
<1>2. /\ item' \in {item, Ask}
      /\ open' \in {0, item.at}
      /\ outcome' \in {"running", "error"}
      /\ open' # 0 => item' = item
      /\ ~ Pending'
  <2>1. CASE Skip
    BY <2>1 DEF Skip, Pending, Ask
  <2>2. CASE Open
    <3>1. open' = item.at /\ item' = item /\ outcome' = outcome
      BY <2>2 DEF Open, iterVars
    <3>2. item.at # 0
      BY <1>1 DEF Shapes
    <3> QED BY <3>1, <3>2, <1>1 DEF Pending
  <2>3. CASE BadFrame
    BY <2>3 DEF BadFrame, Pending, Ask
  <2> QED BY <2>1, <2>2, <2>3
<1>3. N' = N /\ \A k : FileEnd(k)' = FileEnd(k)
  BY <1>1 DEF N, FileEnd
<1>4. Given = item.at /\ Given' = item.at /\ Len(seen') = Len(seen) + 1
  BY <1>1, <1>2 DEF Given, Shapes
<1>5. Shapes'
  BY <1>1, <1>2, <1>3, FileFacts DEF Shapes, Ask
<1>6. Place'
  BY <1>1, <1>3, <1>4 DEF Place
<1>7. Order'
  <2>1. \A k \in 1 .. Len(seen') : seen'[k] = k
    BY <1>1, <1>4 DEF Shapes, Order
  <2>2. item.kind = "ok"
    BY <1>1 DEF Pending
  <2> QED BY <2>1, <2>2, <1>2 DEF Order, Ask
<1> QED BY <1>5, <1>6, <1>7

\* Every other step leaves the cursor and the records handed out alone.
LEMMA OtherStep ==
  ASSUME IInv, \/ Finish \/ Propagate \/ Drop \/ TakeBlock \/ TornBlock \/ EndOfBlocks
  PROVE  IInv'
<1> USE DEF IInv
<1>1. /\ file' = file /\ cursor' = cursor /\ seen' = seen
      /\ item' \in {item, Ask} /\ open' \in {open, 0}
      /\ outcome' \in {"running", "ok", "error"}
      /\ ~ Pending /\ ~ Pending'
      /\ open' # 0 => item' = item /\ open' = open
      /\ outcome' = "ok" => item' = item /\ item.kind = "none"
  <2>1. CASE Finish
    BY <2>1 DEF Finish, Pending, iterVars
  <2>2. CASE Propagate
    BY <2>2 DEF Propagate, Pending, iterVars
  <2>3. CASE Drop
    BY <2>3 DEF Drop, Pending, Ask, Order
  <2>4. CASE TakeBlock
    BY <2>4 DEF TakeBlock, Pending, iterVars
  <2>5. CASE TornBlock
    BY <2>5 DEF TornBlock, Pending, Ask
  <2>6. CASE EndOfBlocks
    BY <2>6 DEF EndOfBlocks, Pending, Ask
  <2> QED BY <2>1, <2>2, <2>3, <2>4, <2>5, <2>6
<1>2. N' = N /\ \A k : FileEnd(k)' = FileEnd(k)
  BY <1>1 DEF N, FileEnd
<1>3. Given' = Given
  BY <1>1 DEF Given
<1>4. Shapes'
  BY <1>1, <1>2, FileFacts DEF Shapes, Ask
<1>5. Place'
  BY <1>1, <1>2, <1>3 DEF Place
<1>6. Order'
  BY <1>1 DEF Order, Ask
<1> QED BY <1>4, <1>5, <1>6

\* IInv holds in every reachable state.
LEMMA Invariance == Spec => []IInv
<1>1. IInv /\ [Next]_vars => IInv'
  <2> SUFFICES ASSUME IInv, [Next]_vars PROVE IInv'
    OBVIOUS
  <2>1. CASE Walk
    BY <2>1, WalkStep
  <2>2. CASE Skip \/ Open \/ BadFrame
    BY <2>2, TakeStep
  <2>3. CASE \/ Finish \/ Propagate \/ Drop \/ TakeBlock \/ TornBlock \/ EndOfBlocks
    BY <2>3, OtherStep
  <2>4. CASE UNCHANGED vars
    BY <2>4 DEF vars, iterVars, IInv, Shapes, Place, Order, Given, Pending, N, FileEnd
  <2> QED BY <2>1, <2>2, <2>3, <2>4 DEF Next
<1> QED BY <1>1, InitIInv, PTL DEF Spec

-----------------------------------------------------------------------------
(* What is acted on, and what is lost                                      *)

Heeded(i) == Wants(Chunk(i)) /\ Decompresses(Chunk(i))

Blocks(i) == Len(Chunk(i).body.blocks)

\* How many blocks of record i have been acted on.
Read(i) == IF ~ Heeded(i) THEN 0 ELSE IF i = open THEN taken ELSE Blocks(i)

\* What has been acted on is what has been read, in order.
Acted ==
  /\ \A n \in DOMAIN out : \E i \in 1 .. Len(seen) : \E k \in 1 .. Read(i) : out[n] = <<i, k>>
  /\ \A i \in 1 .. Len(seen) : \A k \in 1 .. Read(i) : \E n \in DOMAIN out : out[n] = <<i, k>>
  /\ \A m, n \in DOMAIN out : m < n => Before(out[m], out[n])

Reading == open # 0 => open = Len(seen) /\ Heeded(open) /\ taken \in 0 .. Blocks(open)

\* What a consumer that returns at once has passed over, and why it has returned.
Strictness ==
  /\ item.kind = "err" => cursor < file.end /\ ~ Fits
  /\ consumer = "decode" /\ outcome # "error" =>
       \A i \in 1 .. Len(seen) : Wants(Chunk(i)) => Decompresses(Chunk(i)) /\ (i # open => ~ Chunk(i).body.torn)
  /\ consumer = "decode" /\ outcome = "error" /\ item.kind # "err" =>
       \E i \in 1 .. Len(seen) : Wants(Chunk(i)) /\ (Chunk(i).body.torn \/ ~ Decompresses(Chunk(i)))

LossInv == out \in Seq(Nat \X Nat) /\ Acted /\ Reading /\ Strictness

\* A body holds a number of blocks.
LEMMA BlocksFacts ==
  ASSUME file \in Files, NEW i \in 1 .. N
  PROVE  Blocks(i) \in Nat
<1>1. IsChunk(file.chunks[i])
  BY FileFacts DEF LaidOut, N
<1> QED
  BY <1>1, BodyAssumption DEF IsChunk, Blocks, Chunk

\* Records end one after the other.
LEMMA EndsGrow ==
  ASSUME file \in Files, NEW j \in 0 .. N, NEW i \in 0 .. N, j < i
  PROVE  FileEnd(j) < FileEnd(i)
<1>1. i \in 1 .. N /\ j \in Nat /\ i \in Nat /\ N \in Nat
  BY FileFacts
<1>2. /\ file.chunks[i].offset \in Nat /\ file.chunks[i].offset < FileEnd(i) /\ FileEnd(i) \in Nat
      /\ \A k \in 1 .. i - 1 : FileEnd(k) <= file.chunks[i].offset
  BY <1>1, RecordFacts
<1>3. FileEnd(j) \in Nat
  BY EndsAreOffsets
<1>4. FileEnd(j) <= file.chunks[i].offset
  <2>1. CASE j = 0
    BY <1>2, <2>1 DEF FileEnd, EndIn
  <2>2. CASE j # 0
    <3>1. j \in 1 .. i - 1
      BY <1>1, <2>2
    <3> QED
      BY <1>2, <3>1
  <2> QED
    BY <2>1, <2>2
<1> QED
  BY <1>2, <1>3, <1>4

\* A record that does not fit is the first that the region does not hold.
LEMMA Misfit ==
  ASSUME file \in Files, NEW g \in 0 .. N, cursor = FileEnd(g), cursor < file.end, ~ Fits
  PROVE  ~ Undamaged
<1>1. g + 1 \in 1 .. N /\ StartingAt(cursor) = {g + 1}
  BY NextRecord
<1>2. N \in Nat /\ file.end \in Nat /\ g \in Nat /\ FileEnd(g) \in Nat
  BY FileFacts, EndsAreOffsets
<1>3. HeaderAt(cursor) = file.chunks[g + 1]
  BY <1>1 DEF HeaderAt
<1>4. /\ BodyLen(file.chunks[g + 1]) \in Nat /\ (g + 1) - 1 = g
      /\ file.chunks[g + 1].offset = FileEnd((g + 1) - 1)
      /\ FileEnd(g + 1) = file.chunks[g + 1].offset + HeaderSize + BodyLen(file.chunks[g + 1])
  BY <1>1, <1>2, RecordFacts
<1>5. BodyEnd = FileEnd(g + 1) /\ cursor + HeaderSize <= FileEnd(g + 1) /\ FileEnd(g + 1) \in Nat
  BY <1>2, <1>3, <1>4, ChunkAssumption DEF BodyEnd
<1>6. file.end < FileEnd(g + 1)
  BY <1>2, <1>5, ChunkAssumption DEF Fits, HeaderFits
<1>7. ASSUME NEW j \in 0 .. N, file.end = FileEnd(j)
      PROVE  FALSE
  <2>1. CASE j < g
    BY <1>2, <1>7, <2>1, EndsGrow
  <2>2. CASE j = g
    BY <1>2, <1>7, <2>2
  <2>3. CASE j = g + 1
    BY <1>2, <1>6, <1>7, <2>3
  <2>4. CASE g + 1 < j
    BY <1>1, <1>2, <1>5, <1>6, <1>7, <2>4, EndsGrow
  <2> QED
    BY <1>2, <2>1, <2>2, <2>3, <2>4
<1> QED
  BY <1>7 DEF Undamaged, N

LEMMA InitLossInv == Init => LossInv
BY DEF Init, IterInit, Ask, LossInv, Acted, Reading, Strictness

\* A step that acts on nothing: at most a record is passed over.
LEMMA ActsOnNothing ==
  ASSUME Acted, out' = out, Len(seen) \in Nat, Len(seen') \in {Len(seen), Len(seen) + 1},
         \A i \in 1 .. Len(seen) : Read(i)' = Read(i),
         \A i \in 1 .. Len(seen') : i > Len(seen) => Read(i)' = 0
  PROVE  Acted'
<1>1. ASSUME NEW n \in DOMAIN out
      PROVE  \E i \in 1 .. Len(seen') : \E k \in 1 .. Read(i)' : out[n] = <<i, k>>
  <2>1. PICK i \in 1 .. Len(seen) : \E k \in 1 .. Read(i) : out[n] = <<i, k>>
    BY DEF Acted
  <2>2. i \in 1 .. Len(seen') /\ Read(i)' = Read(i)
    BY <2>1
  <2> QED
    BY <2>1, <2>2
<1>2. ASSUME NEW i \in 1 .. Len(seen'), NEW k \in 1 .. Read(i)'
      PROVE  \E n \in DOMAIN out : out[n] = <<i, k>>
  <2>1. CASE i <= Len(seen)
    <3>1. i \in 1 .. Len(seen) /\ k \in 1 .. Read(i)
      BY <2>1
    <3> QED
      BY <3>1 DEF Acted
  <2>2. CASE i > Len(seen)
    BY <2>2
  <2> QED
    BY <2>1, <2>2
<1>3. \A m, n \in DOMAIN out' : m < n => Before(out'[m], out'[n])
  BY DEF Acted, Before
<1> QED
  BY <1>1, <1>2, <1>3 DEF Acted, Before

\* What does not change but with the file or the consumer.
LEMMA Steady ==
  ASSUME UNCHANGED <<file, consumer>>, NEW i
  PROVE  /\ Chunk(i)' = Chunk(i) /\ Blocks(i)' = Blocks(i) /\ Heeded(i)' = Heeded(i)
         /\ Wants(Chunk(i))' = Wants(Chunk(i))
         /\ Read(i)' = IF ~ Heeded(i) THEN 0 ELSE IF i = open' THEN taken' ELSE Blocks(i)
BY DEF Chunk, Blocks, Heeded, Wants, Decompresses, Read

\* The iterator's answer, and what is done about an error or the end.
LEMMA AnswerLoss ==
  ASSUME IInv, LossInv, Walk \/ Finish \/ Propagate \/ Drop
  PROVE  LossInv'
<1> USE DEF LossInv
<1>1. /\ UNCHANGED <<file, consumer, open, taken, out, seen>> /\ outcome = "running"
      /\ Len(seen) \in Nat
  BY DEF Walk, IterNext, NextNone, NextErr, NextOk, Finish, Propagate, Drop, iterVars, IInv, Shapes
<1>2. Acted'
  BY <1>1, Steady, ActsOnNothing DEF Read
<1>3. Reading'
  BY <1>1, Steady DEF Reading
<1>4. item'.kind = "err" => cursor' < file.end' /\ ~ Fits'
  <2>1. CASE Walk
    <3>1. CASE NextErr
      BY <3>1 DEF NextErr, Fits, HeaderFits, BodyEnd, HeaderAt, StartingAt
    <3>2. CASE NextNone \/ NextOk
      BY <3>2 DEF NextNone, NextOk, None, Ok
    <3> QED
      BY <2>1, <3>1, <3>2 DEF Walk, IterNext
  <2>2. CASE Finish \/ Propagate
    BY <2>2 DEF Finish, Propagate, iterVars, Strictness, Fits, HeaderFits, BodyEnd, HeaderAt, StartingAt
  <2>3. CASE Drop
    BY <2>3 DEF Drop, Ask
  <2> QED
    BY <2>1, <2>2, <2>3
<1>5. outcome' = "error" => item'.kind = "err"
  BY <1>1 DEF Walk, Finish, Propagate, Drop, iterVars
<1>6. Strictness'
  BY <1>1, <1>4, <1>5, Steady DEF Strictness
<1> QED
  BY <1>1, <1>2, <1>3, <1>6

\* A record is taken whose blocks are not read, or not yet.
LEMMA TakeLoss ==
  ASSUME IInv, LossInv, Skip \/ Open \/ BadFrame
  PROVE  LossInv'
<1> USE DEF LossInv
<1> PICK g : g = Len(seen) + 1
  OBVIOUS
<1>1. /\ UNCHANGED <<file, cursor, consumer, out>> /\ outcome = "running" /\ open = 0 /\ item.kind = "ok"
      /\ item.at = g /\ Len(seen) \in Nat /\ seen' = Append(seen, g) /\ Len(seen') = g
      /\ g \in 1 .. N /\ file \in Files
  <2>1. Pending /\ seen \in Seq(Nat) /\ seen' = Append(seen, item.at)
    BY DEF Skip, Open, BadFrame, Pending, IInv, Shapes
  <2> QED
    BY <2>1 DEF Skip, Open, BadFrame, iterVars, IInv, Shapes, Order, Place, Given, Pending
<1>2. Blocks(g) \in Nat
  BY <1>1, BlocksFacts
<1>3. \A i \in 1 .. Len(seen) : i # g /\ i \in Nat /\ i # 0
  BY <1>1
<1>4. /\ open' # 0 => open' = g /\ taken' = 0 /\ Heeded(g) /\ outcome' = "running"
      /\ open' = 0 => ~ Heeded(g)
      /\ item'.kind # "err"
      /\ outcome' \in {"running", "error"}
      /\ outcome' = "running" => (Wants(Chunk(g)) => Decompresses(Chunk(g)) /\ open' = g) \/ consumer # "decode"
      /\ outcome' = "error" => Wants(Chunk(g)) /\ ~ Decompresses(Chunk(g))
  BY <1>1 DEF Skip, Open, BadFrame, Heeded, iterVars, Ask
<1>5. \A i \in 1 .. Len(seen) : Read(i)' = Read(i)
  BY <1>1, <1>3, <1>4, Steady DEF Read
<1>6. Read(g)' = 0
  BY <1>1, <1>4, Steady
<1>7. \A i \in 1 .. Len(seen') : i > Len(seen) => i = g
  BY <1>1
<1>8. Acted'
  BY <1>1, <1>5, <1>6, <1>7, ActsOnNothing
<1>9. Reading'
  BY <1>1, <1>2, <1>4, Steady DEF Reading
<1>10. Strictness'
  <2>1. ASSUME consumer = "decode", outcome' = "running", NEW i \in 1 .. Len(seen'), Wants(Chunk(i))
        PROVE  Decompresses(Chunk(i)) /\ (i # open' => ~ Chunk(i).body.torn)
    <3>1. CASE i = g
      BY <1>4, <2>1, <3>1
    <3>2. CASE i # g
      <4>1. i \in 1 .. Len(seen)
        BY <1>1, <2>1, <3>2
      <4> QED
        BY <1>1, <1>3, <2>1, <4>1 DEF Strictness
    <3> QED
      BY <3>1, <3>2
  <2>2. g \in 1 .. Len(seen')
    BY <1>1
  <2> QED
    BY <1>1, <1>4, <2>1, <2>2, Steady DEF Strictness, Decompresses
<1> QED
  BY <1>1, <1>8, <1>9, <1>10

LEMMA TakeBlockLoss ==
  ASSUME IInv, LossInv, TakeBlock
  PROVE  LossInv'
<1> USE DEF LossInv
<1> PICK o, t, b : o = open /\ t = taken + 1 /\ b = <<o, t>>
  OBVIOUS
<1>1. /\ UNCHANGED <<file, cursor, item, consumer, open, seen, outcome>> /\ outcome = "running" /\ open # 0
      /\ taken < Blocks(o) /\ taken' = t /\ out' = Append(out, b)
  BY DEF TakeBlock, iterVars, Blocks
<1>2. /\ open = Len(seen) /\ Heeded(open) /\ taken \in Nat /\ open \in 1 .. N /\ file \in Files
      /\ open \in Nat /\ Len(seen) \in Nat /\ item.kind # "err"
  BY <1>1 DEF Reading, IInv, Shapes, Order
<1>3. Blocks(o) \in Nat
  BY <1>2, BlocksFacts
<1>4. t \in 1 .. Blocks(o) /\ b \in Nat \X Nat
  BY <1>1, <1>2, <1>3
<1>5. /\ out' \in Seq(Nat \X Nat) /\ DOMAIN out' = DOMAIN out \cup {Len(out) + 1} /\ out'[Len(out) + 1] = b
      /\ \A n \in DOMAIN out : out'[n] = out[n] /\ n \in 1 .. Len(out)
      /\ Len(out) \in Nat
  BY <1>1, <1>4
<1>6. \A i : i = o => Read(i) = taken /\ Read(i)' = t
  BY <1>1, <1>2, Steady DEF Read
<1>7. \A i \in 1 .. Len(seen) : i # o => Read(i)' = Read(i)
  BY <1>1, Steady DEF Read
<1>8. ASSUME NEW n \in DOMAIN out'
      PROVE  \E i \in 1 .. Len(seen) : \E k \in 1 .. Read(i)' : out'[n] = <<i, k>>
  <2>1. CASE n \in DOMAIN out
    <3>1. PICK i \in 1 .. Len(seen) : \E k \in 1 .. Read(i) : out[n] = <<i, k>>
      BY <2>1 DEF Acted
    <3>2. \A k \in 1 .. Read(i) : k \in 1 .. Read(i)'
      BY <1>2, <1>6, <1>7, <3>1
    <3> QED
      BY <1>5, <2>1, <3>1, <3>2
  <2>2. CASE n = Len(out) + 1
    <3>1. o \in 1 .. Len(seen) /\ t \in 1 .. Read(o)'
      BY <1>2, <1>4, <1>6
    <3> QED
      BY <1>5, <2>2, <3>1
  <2> QED
    BY <1>5, <2>1, <2>2
<1>9. ASSUME NEW i \in 1 .. Len(seen), NEW k \in 1 .. Read(i)'
      PROVE  \E n \in DOMAIN out' : out'[n] = <<i, k>>
  <2>1. CASE i = o /\ k = t
    BY <1>5, <2>1
  <2>2. CASE i # o \/ k # t
    <3>1. k \in 1 .. Read(i)
      BY <1>2, <1>6, <1>7, <2>2
    <3> QED
      BY <1>5, <3>1 DEF Acted
  <2> QED
    BY <2>1, <2>2
<1>10. ASSUME NEW m \in DOMAIN out', NEW n \in DOMAIN out', m < n
       PROVE  Before(out'[m], out'[n])
  <2>1. m \in DOMAIN out
    BY <1>5, <1>10
  <2>2. CASE n \in DOMAIN out
    BY <1>5, <1>10, <2>1, <2>2 DEF Acted
  <2>3. CASE n = Len(out) + 1
    <3>1. PICK i \in 1 .. Len(seen) : \E k \in 1 .. Read(i) : out[m] = <<i, k>>
      BY <2>1 DEF Acted
    <3>2. PICK k \in 1 .. Read(i) : out[m] = <<i, k>>
      BY <3>1
    <3>3. i < o \/ (i = o /\ k < t)
      BY <1>2, <1>6, <3>1, <3>2
    <3> QED
      BY <1>5, <2>1, <2>3, <3>2, <3>3 DEF Before
  <2> QED
    BY <1>5, <2>2, <2>3
<1>11. Acted'
  BY <1>1, <1>8, <1>9, <1>10 DEF Acted, Before
<1>12. Reading'
  BY <1>1, <1>2, <1>3, <1>4, Steady DEF Reading
<1>13. Strictness'
  BY <1>1, <1>2, Steady DEF Strictness, Decompresses
<1> QED
  BY <1>5, <1>11, <1>12, <1>13

\* The blocks of a chunk end, or are torn.
LEMMA LastBlockLoss ==
  ASSUME IInv, LossInv, TornBlock \/ EndOfBlocks
  PROVE  LossInv'
<1> USE DEF LossInv
<1>1. /\ UNCHANGED <<file, cursor, consumer, out, seen, taken>> /\ outcome = "running" /\ open # 0
      /\ taken = Blocks(open)
      /\ open' \in {open, 0} /\ item' \in {item, Ask}
      /\ outcome' \in {"running", "error"}
      /\ outcome' = "running" => open' = 0 /\ (Chunk(open).body.torn => consumer = "count")
      /\ outcome' = "error" => Chunk(open).body.torn
  BY DEF TornBlock, EndOfBlocks, Blocks
<1>2. /\ open = Len(seen) /\ Heeded(open) /\ open \in 1 .. Len(seen) /\ item.kind = "ok" /\ Len(seen) \in Nat
      /\ taken \in 0 .. Blocks(open)
  BY <1>1 DEF Reading, IInv, Shapes, Order
<1>3. \A i \in 1 .. Len(seen) : Read(i)' = Read(i)
  BY <1>1, Steady DEF Read
<1>4. Acted'
  BY <1>1, <1>2, <1>3, ActsOnNothing
<1>5. Reading'
  BY <1>1, <1>2, Steady DEF Reading
<1>6. item'.kind # "err"
  BY <1>1, <1>2 DEF Ask
<1>7. Strictness'
  BY <1>1, <1>2, <1>6, Steady DEF Strictness, Decompresses, Heeded
<1> QED
  BY <1>1, <1>4, <1>5, <1>7

\* Both invariants hold together.
LEMMA LossInvariance == Spec => [](IInv /\ LossInv)
<1>1. IInv /\ LossInv /\ [Next]_vars => LossInv'
  <2> SUFFICES ASSUME IInv, LossInv, [Next]_vars PROVE LossInv'
    OBVIOUS
  <2>1. CASE UNCHANGED vars
    <3>1. /\ UNCHANGED <<file, cursor, item, consumer, open, taken, out, seen, outcome>>
          /\ \A i : Read(i)' = Read(i)
      BY <2>1 DEF vars, iterVars, Read, Heeded, Blocks, Chunk, Wants, Decompresses
    <3>2. Acted'
      BY <3>1 DEF LossInv, Acted, Before
    <3>3. Reading' /\ Strictness'
      BY <3>1 DEF LossInv, Reading, Strictness, Heeded, Blocks, Chunk, Wants, Decompresses, Fits, HeaderFits,
                  BodyEnd, HeaderAt, StartingAt
    <3> QED
      BY <3>1, <3>2, <3>3 DEF LossInv
  <2> QED
    BY <2>1, AnswerLoss, TakeLoss, TakeBlockLoss, LastBlockLoss DEF Next
<1>2. Spec => []IInv
  BY Invariance
<1> QED
  BY <1>1, <1>2, InitLossInv, PTL DEF Spec

-----------------------------------------------------------------------------
\* For every set of files the walk keeps its types: in particular the cursor
\* never leaves the chunk region (chunk.rs:66-87).
THEOREM WalkTypeCorrect == Spec => []TypeOK
<1>1. IInv => TypeOK
  <2> SUFFICES ASSUME IInv PROVE TypeOK
    OBVIOUS
  <2>1. file \in Files /\ LaidOut(file.chunks) /\ file.end \in Nat
    BY FileFacts DEF IInv, Shapes
  <2>2. cursor \in 0 .. file.end
    BY <2>1, EndsAreOffsets DEF IInv, Place
  <2> QED BY <2>1, <2>2 DEF TypeOK, IInv, Shapes, N
<1> QED BY <1>1, Invariance, PTL

\* For every set of files, of any number of records of any size, the walk
\* hands out the records in file order, each once, and a consumer that ends
\* well has been given all of them (chunk.rs:49-91).
THEOREM HandsOutEveryRecordOnce == Spec => []EveryRecordOnce
<1>1. IInv => EveryRecordOnce
  <2> SUFFICES ASSUME IInv PROVE EveryRecordOnce
    OBVIOUS
  <2> USE DEF IInv
  <2>1. N \in Nat /\ file.end \in Nat /\ Len(seen) \in Nat /\ file \in Files
    BY FileFacts DEF Shapes
  <2>2. Len(seen) <= Given /\ Given \in 0 .. N
    BY <2>1 DEF Given, Place
  <2>3. \A k \in 1 .. Len(seen) : seen[k] = k /\ FileEnd(k) <= file.end
    BY <2>1, <2>2 DEF Place, Order
  <2>4. ASSUME outcome = "ok" PROVE file.end = FileEnd(Len(seen))
    <3>1. Given = Len(seen) /\ cursor >= file.end /\ cursor <= file.end
      BY <2>4 DEF Given, Pending, Order, Place
    <3>2. cursor = FileEnd(Len(seen)) /\ cursor \in Nat
      BY <2>2, <3>1, EndsAreOffsets, <2>1 DEF Place
    <3> QED BY <3>1, <3>2, <2>1
  <2>5. Len(seen) <= N
    BY <2>1, <2>2
  <2> QED BY <2>3, <2>4, <2>5 DEF EveryRecordOnce, N
<1> QED BY <1>1, Invariance, PTL

\* For every set of files: a consumer that returns at the first damage succeeds
\* exactly on a file without any, and has then acted on each block of the game
\* chunks once and in order; one that counts has acted, when it ends well, on each
\* block there is of every chunk that decompresses (game.rs:96-128, cli.rs:384-395,
\* summary.rs:125-145, explore.rs:126-177).
THEOREM LosesWhatIsDamaged == Spec => []LossIsMeant
<1>1. IInv /\ LossInv => LossIsMeant
  <2> SUFFICES ASSUME IInv, LossInv PROVE LossIsMeant
    OBVIOUS
  <2> USE DEF IInv, LossInv
  <2>1. N \in Nat /\ file.end \in Nat /\ Len(seen) \in Nat /\ file \in Files /\ Given \in 0 .. N
    BY FileFacts DEF Shapes, Place
  <2>2. ASSUME outcome = "ok"
        PROVE  /\ open = 0 /\ Undamaged
               /\ \A i : i \in InFile <=> i \in 1 .. Len(seen)
    <3>1. Given = Len(seen) /\ cursor >= file.end /\ cursor <= file.end /\ cursor = FileEnd(Len(seen)) /\ open = 0
      BY <2>2 DEF Given, Pending, Order, Place
    <3>2. file.end = FileEnd(Len(seen))
      BY <2>1, <3>1, EndsAreOffsets
    <3>3. \A i \in 1 .. Len(seen) : FileEnd(i) <= file.end
      BY <3>1 DEF Place
    <3>4. ASSUME NEW i \in 1 .. N, i > Len(seen) PROVE FileEnd(i) > file.end
      BY <2>1, <3>1, <3>2, <3>4, EndsGrow
    <3>5. ASSUME NEW i \in InFile PROVE i \in 1 .. Len(seen)
      <4>1. i \in 1 .. N /\ FileEnd(i) <= file.end
        BY DEF InFile, N
      <4>2. FileEnd(i) \in Nat
        BY <2>1, <4>1, EndsAreOffsets
      <4> QED
        BY <2>1, <3>4, <4>1, <4>2
    <3>6. ASSUME NEW i \in 1 .. Len(seen) PROVE i \in InFile
      BY <2>1, <3>1, <3>3 DEF InFile, N
    <3> QED
      BY <2>1, <3>1, <3>2, <3>5, <3>6 DEF Undamaged, N
  <2>3. ASSUME outcome = "ok", consumer \in {"decode", "count"}
        PROVE  Lists(out, {i \in Game : Decompresses(Chunk(i))})
    <3> DEFINE S == {i \in Game : Decompresses(Chunk(i))}
    <3>1. \A i : i \in S <=> i \in 1 .. Len(seen) /\ Heeded(i)
      BY <2>2, <2>3 DEF Game, Heeded, Wants
    <3>2. \A i \in 1 .. Len(seen) : Read(i) = IF Heeded(i) THEN Blocks(i) ELSE 0
      BY <2>2, <2>3 DEF Read
    <3> HIDE DEF S
    <3>3. ASSUME NEW n \in DOMAIN out
          PROVE  \E i \in S : \E k \in 1 .. Blocks(i) : out[n] = <<i, k>>
      <4>1. PICK i \in 1 .. Len(seen) : \E k \in 1 .. Read(i) : out[n] = <<i, k>>
        BY DEF Acted
      <4>2. Heeded(i)
        BY <3>2, <4>1
      <4> QED
        BY <3>1, <3>2, <4>1, <4>2
    <3>4. ASSUME NEW i \in S, NEW k \in 1 .. Blocks(i)
          PROVE  \E n \in DOMAIN out : out[n] = <<i, k>>
      BY <3>1, <3>2 DEF Acted
    <3> DEFINE T == UNION {{<<i, k>> : k \in 1 .. Blocks(i)} : i \in S}
    <3>5. {out[n] : n \in DOMAIN out} = T
      BY <3>3, <3>4
    <3> QED
      BY <3>5 DEF Acted, Lists, Blocks, S
  <2>4. ASSUME consumer = "decode", outcome = "ok"
        PROVE  \A i \in Game : Decompresses(Chunk(i)) /\ ~ Chunk(i).body.torn
    BY <2>2, <2>4 DEF Game, Wants, Strictness
  <2>5. ASSUME consumer = "decode", outcome = "error",
               \A i \in Game : Decompresses(Chunk(i)) /\ ~ Chunk(i).body.torn
        PROVE  ~ Undamaged
    <3>1. CASE item.kind = "err"
      <4>1. cursor < file.end /\ ~ Fits /\ cursor = FileEnd(Given)
        BY <3>1 DEF Strictness, Place
      <4> QED
        BY <2>1, <4>1, Misfit
    <3>2. CASE item.kind # "err"
      <4>1. PICK i \in 1 .. Len(seen) : Wants(Chunk(i)) /\ (Chunk(i).body.torn \/ ~ Decompresses(Chunk(i)))
        BY <2>5, <3>2 DEF Strictness
      <4>2. Given = Len(seen)
        BY <2>5 DEF Given, Pending
      <4>3. i \in 1 .. N /\ FileEnd(i) <= file.end
        BY <2>1, <4>1, <4>2 DEF Place
      <4>4. i \in Game
        BY <4>1, <4>3 DEF Game, InFile, N, Wants
      <4> QED
        BY <2>5, <4>1, <4>4
    <3> QED
      BY <3>1, <3>2
  <2>6. outcome \in {"running", "ok", "error"}
    BY DEF Shapes
  <2>7. StrictIsAllOrNothing
    <3> SUFFICES ASSUME consumer = "decode", outcome # "running"
                 PROVE  /\ outcome = "ok" <=> /\ Undamaged
                                              /\ \A i \in Game : Decompresses(Chunk(i)) /\ ~ Chunk(i).body.torn
                        /\ outcome = "ok" => Lists(out, Game)
      BY DEF StrictIsAllOrNothing
    <3>1. outcome = "ok" => Lists(out, Game)
      <4>1. outcome = "ok" => {i \in Game : Decompresses(Chunk(i))} = Game
        BY <2>4
      <4> QED
        BY <2>3, <4>1
    <3> QED
      BY <2>2, <2>4, <2>5, <2>6, <3>1
  <2>8. DamageStaysLocal
    BY <2>3 DEF DamageStaysLocal
  <2> QED
    BY <2>7, <2>8 DEF LossIsMeant
<1> QED
  BY <1>1, LossInvariance, PTL
=============================================================================
