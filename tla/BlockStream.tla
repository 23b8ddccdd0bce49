---------------------------- MODULE BlockStream ----------------------------
(***************************************************************************)
(* A recorder writes blocks in the framing the code documents (external:   *)
(* the game client), any of them with any of the compressions that fit,    *)
(* the chunk may be cut short anywhere inside its last block, and          *)
(* BlockIterator reads what is left.  It also reads bodies of Buffers,     *)
(* which nobody recorded and most of which are malformed.                  *)
(*                                                                         *)
(* The recorder computes its deltas by itself, from the block before, and  *)
(* shares no decoding operator with the reader.                            *)
(***************************************************************************)
EXTENDS BlockIterator

CONSTANTS
  Messages,    \* the blocks there are to record: [timestamp, packet_id, param, payload]
  MaxBlocks    \* bound: blocks recorded in one chunk

ASSUME MessageAssumption == \A m \in Messages :
  /\ m \in [timestamp : Word, packet_id : Id, param : Word, payload : Seq(Byte)]
  /\ Len(m.payload) \in Word

VARIABLES
  written,     \* the blocks recorded, as the recorder meant them
  last_size,   \* how many bytes the last of them took
  missing,     \* how many of those the cut removed
  origin       \* "recording", "recorded" (the chunk can be read) or "found"

recorded == <<written, last_size, missing, origin>>
streamVars == <<vars, recorded>>

-----------------------------------------------------------------------------
LE2(v) == << v % Base, v \div Base >>
LE4(v) == << v % Base, (v \div Base) % Base, (v \div (Base * Base)) % Base,
             v \div (Base * Base * Base) >>

Nothing == [timestamp |-> 0, packet_id |-> 0, param |-> 0, payload |-> <<>>]

\* The block before the i-th.
Previous(i) == IF i = 1 THEN Nothing ELSE written[i - 1]

\* The change of param as a signed number, the short way round the word.
ParamStep(p, m) ==
  LET d == (m.param - p.param) % WordMod
  IN  IF d < WordMod \div 2 THEN d ELSE d - WordMod

\* The compressions the recorder may use for m after the block p.
Compressions(p, m) ==
  (IF m.timestamp - p.timestamp \in Byte THEN {MARKER_TS_RELATIVE} ELSE {})
  \cup (IF Len(m.payload) \in Byte THEN {MARKER_LEN_U8} ELSE {})
  \cup (IF m.packet_id = p.packet_id THEN {MARKER_REUSE_PACKET_ID} ELSE {})
  \cup (IF ParamStep(p, m) \in -(Base \div 2) .. (Base \div 2) - 1
        THEN {MARKER_PARAM_RELATIVE} ELSE {})

\* The marker with exactly the bits of used.
MarkerOf(used) ==
  LET bit(b) == IF b \in used THEN b ELSE 0
  IN  bit(MARKER_TS_RELATIVE) + bit(MARKER_REUSE_PACKET_ID)
      + bit(MARKER_PARAM_RELATIVE) + bit(MARKER_LEN_U8)

Encode(p, m, used) ==
  << MarkerOf(used) >>
  \o (IF MARKER_TS_RELATIVE \in used
      THEN << m.timestamp - p.timestamp >> ELSE LE4(m.timestamp))
  \o (IF MARKER_LEN_U8 \in used
      THEN << Len(m.payload) >> ELSE LE4(Len(m.payload)))
  \o (IF MARKER_REUSE_PACKET_ID \in used THEN << >> ELSE LE2(m.packet_id))
  \o (IF MARKER_PARAM_RELATIVE \in used
      THEN << ParamStep(p, m) % Base >> ELSE LE4(m.param))
  \o m.payload

-----------------------------------------------------------------------------
StreamInit ==
  /\ IteratorInit
  /\ written = <<>> /\ last_size = 0 /\ missing = 0
  /\ \/ buffer = <<>> /\ origin = "recording"
     \/ buffer \in Buffers /\ origin = "found"

Record(m, used) ==
  /\ origin = "recording" /\ Len(written) < MaxBlocks
  /\ LET bytes == Encode(Previous(Len(written) + 1), m, used)
     IN  /\ buffer' = buffer \o bytes
         /\ last_size' = Len(bytes)
  /\ written' = Append(written, m)
  /\ UNCHANGED <<cursor, carried, field, block, yielded, outcome, missing, origin>>

\* The chunk ends, with the last n bytes of its last block missing.
Close(n) ==
  /\ origin = "recording" /\ origin' = "recorded"
  /\ missing' = n
  /\ buffer' = SubSeq(buffer, 1, Len(buffer) - n)
  /\ UNCHANGED <<cursor, carried, field, block, yielded, outcome, written, last_size>>

Recorder ==
  \/ \E m \in Messages : \E used \in SUBSET Compressions(Previous(Len(written) + 1), m) : Record(m, used)
  \/ \E n \in 0 .. IF written = <<>> THEN 0 ELSE last_size - 1 : Close(n)

Reader == origin # "recording" /\ Next /\ UNCHANGED recorded

StreamNext == Recorder \/ Reader

StreamSpec == StreamInit /\ [][StreamNext]_streamVars /\ WF_streamVars(Reader)

-----------------------------------------------------------------------------
Content(b) == [timestamp |-> b.timestamp, packet_id |-> b.packet_id,
               param |-> b.param, payload |-> b.payload]

\* How many of the recorded blocks lie wholly inside the chunk.
Whole == Len(written) - (IF missing = 0 THEN 0 ELSE 1)

\* Whatever mixture of relative and absolute fields the recorder used, the
\* reader returns the recorded times, ids, params and payloads, in order and
\* without a block of its own invention: the carried state of the two ends never
\* drifts apart.  When it stops it has returned every block that is wholly there,
\* with an error exactly when a block was cut (block.rs:99-142, 158-163).
ReadsWhatWasWritten ==
  origin = "recorded" =>
  /\ Len(yielded) <= Whole
  /\ \A i \in 1 .. Len(yielded) : Content(yielded[i]) = written[i]
  /\ outcome # "running" => Len(yielded) = Whole /\ (outcome = "error" <=> missing > 0)

\* A chunk, recorded or found, is read to its end or to its first bad block:
\* each returned block moves the cursor by a marker byte at least (block.rs:97).
ReaderStops == origin # "recording" ~> outcome # "running"
=============================================================================
