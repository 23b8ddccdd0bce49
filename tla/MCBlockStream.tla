--------------------------- MODULE MCBlockStream ---------------------------
(* Two recorded blocks of a chunk: the times include a step of more than a *)
(* byte and one back in time, the params lie on both sides of the word's   *)
(* wrap-around and of the signed byte's range.                             *)
(* And every body of up to MaxLen bytes that are markers with many and     *)
(* with few compressions or small lengths, and every longer one, of up to  *)
(* LongLen, of fewer bytes: long enough for a block with a payload and a   *)
(* second block behind it.                                                 *)
EXTENDS BlockStream, SequencesExt

CONSTANTS Bytes, MaxLen, FewBytes, LongLen

Message(t, id, param, payload) ==
  [timestamp |-> t, packet_id |-> id, param |-> param, payload |-> payload]

MCMessages ==
  { Message(3, 0, 5, <<9, 3>>),      Message(40, 0, 65530, <<>>),
    Message(3, 200, 65530, <<3>>),   Message(40, 200, 65525, <<9, 3>>),
    Message(6, 200, 5, <<>>),        Message(18, 1, 13, <<0>>) }

MCBuffers == BoundedSeq(Bytes, MaxLen) \cup BoundedSeq(FewBytes, LongLen)
=============================================================================
