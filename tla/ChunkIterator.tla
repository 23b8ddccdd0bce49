--------------------------- MODULE ChunkIterator ---------------------------
(***************************************************************************)
(* ChunkIterator of src/src/rofl/chunk.rs: the walk over the chunk records *)
(* between the header of a replay file and its signature.                  *)
(*                                                                         *)
(* A file is the records a recorder laid down one after the other, each at *)
(* its offset, and the offset where the region ends; a damaged file ends   *)
(* before its last records do.  The 17 bytes at an offset where no record  *)
(* starts are not a header and read as Garbage.                            *)
(*                                                                         *)
(* next() is a request ("ask") that the iterator answers with an item,     *)
(* which the caller then takes: see Transport.                             *)
(***************************************************************************)
EXTENDS Integers, Sequences

CONSTANTS
  HeaderSize,   \* CHUNK_HEADER_SIZE, 17
  Streams,      \* the values of StreamTag
  Bodies,       \* what a body decompresses to: [frame, blocks, torn]
  Files,        \* the files a run may be given: [chunks, end]
  Garbage       \* what reads as a header where there is none

\* The bytes a record's body takes in the file: the zstd frame, or the raw
\* bytes when the record says it is not compressed.
StoredLen(h) == IF h.compressed_len > 0 THEN h.compressed_len ELSE h.uncompressed_len

IsChunk(c) ==
  /\ c.offset \in Nat /\ c.uncompressed_len \in Nat /\ c.compressed_len \in Nat
  /\ c.tag \in Streams /\ c.body \in Bodies

\* Where record i ends; 0 before the first.
EndIn(chunks, i) == IF i = 0 THEN 0
                    ELSE chunks[i].offset + HeaderSize + StoredLen(chunks[i])

\* The records follow one another from offset 0, in order and without a gap.
LaidOut(chunks) ==
  \A i \in 1 .. Len(chunks) :
    /\ IsChunk(chunks[i])
    /\ chunks[i].offset = EndIn(chunks, i - 1)
    /\ \A j \in 1 .. i - 1 : EndIn(chunks, j) <= chunks[i].offset

ASSUME ChunkAssumption ==
  /\ HeaderSize \in Nat \ {0}
  /\ \A f \in Files : LET n == Len(f.chunks) IN
       /\ n \in Nat /\ DOMAIN f.chunks = 1 .. n
       /\ LaidOut(f.chunks)
       /\ f.end \in 0 .. EndIn(f.chunks, n)

VARIABLES
  file,
  cursor,
  item      \* [kind, at]: "ask", or the answer; at is the record's index

iterVars == <<file, cursor, item>>

-----------------------------------------------------------------------------
Ask      == [kind |-> "ask", at |-> 0]
None     == [kind |-> "none", at |-> 0]
Err      == [kind |-> "err", at |-> 0]
Ok(i)    == [kind |-> "ok", at |-> i]

\* The records that start at offset c: one or none.
StartingAt(c) == {i \in 1 .. Len(file.chunks) : file.chunks[i].offset = c}

HeaderAt(c) == IF StartingAt(c) = {} THEN Garbage
               ELSE file.chunks[CHOOSE i \in StartingAt(c) : TRUE]

Mutant_BodyLen_compressed_only(h) == h.compressed_len

BodyLen(h) == IF h.compressed_len > 0 THEN h.compressed_len ELSE h.uncompressed_len

HeaderFits == cursor + HeaderSize <= file.end
BodyEnd    == cursor + HeaderSize + BodyLen(HeaderAt(cursor))

\* A record is taken only when its header and its body end inside the region.
Fits == HeaderFits /\ BodyEnd <= file.end

-----------------------------------------------------------------------------
IterInit == cursor = 0 /\ item = Ask

NextNone ==
  /\ item = Ask /\ cursor >= file.end
  /\ item' = None
  /\ UNCHANGED <<file, cursor>>

\* A record that does not fit is an error, and the cursor stays where it is:
\* asked again, the iterator answers the same.
NextErr ==
  /\ item = Ask /\ cursor < file.end
  /\ ~ Fits
  /\ item' = Err
  /\ UNCHANGED <<file, cursor>>

NextOk ==
  /\ item = Ask /\ cursor < file.end
  /\ Fits
  /\ item' = Ok(IF StartingAt(cursor) = {} THEN 0
                ELSE CHOOSE i \in StartingAt(cursor) : TRUE)
  /\ cursor' = BodyEnd
  /\ UNCHANGED file

IterNext == NextNone \/ NextErr \/ NextOk
=============================================================================
