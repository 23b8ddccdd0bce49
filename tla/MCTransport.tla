---------------------------- MODULE MCTransport ----------------------------
(* Every file of up to MaxChunks records drawn from Kinds, with the region *)
(* ending anywhere inside the last record or at its end.                   *)
EXTENDS Transport

CONSTANT MaxChunks

Body(frame, n, torn) == [frame |-> frame, blocks |-> [k \in 1 .. n |-> k], torn |-> torn]

MCBodies == { Body(f, n, t) : f \in {"good", "bad"}, n \in 0 .. 2, t \in BOOLEAN }

Record(tag, clen, ulen, body) ==
  [tag |-> tag, compressed_len |-> clen, uncompressed_len |-> ulen, body |-> body]

\* Compressed and raw game chunks, sound, torn and undecodable ones, an empty
\* one, and a chunk of another stream.
Kinds ==
  { Record("game", 2, 3, Body("good", 2, FALSE)),
    Record("game", 2, 3, Body("good", 1, TRUE)),
    Record("game", 1, 3, Body("bad", 2, FALSE)),
    Record("game", 0, 3, Body("bad", 1, FALSE)),
    Record("game", 0, 0, Body("bad", 0, FALSE)),
    Record("keyframe", 3, 2, Body("good", 1, FALSE)),
    Record("other", 0, 1, Body("bad", 0, TRUE)) }

AddRecord(laid, k) ==
  Append(laid, [offset |-> EndIn(laid, Len(laid)), tag |-> k.tag, body |-> k.body,
                compressed_len |-> k.compressed_len, uncompressed_len |-> k.uncompressed_len])

Laid(ks) == FoldLeft(AddRecord, <<>>, ks)

Layouts == {Laid(ks) : ks \in BoundedSeq(Kinds, MaxChunks)}

\* Where the region of a layout can end: from the start of its last record on.
Ends(c) == (IF Len(c) = 0 THEN 0 ELSE c[Len(c)].offset) .. EndIn(c, Len(c))

MCFiles == UNION { {[chunks |-> c, end |-> e] : e \in Ends(c)} : c \in Layouts }

\* Four bytes that announce a body longer than any region here.
MCGarbage == [tag |-> "other", uncompressed_len |-> 99, compressed_len |-> 99]
=============================================================================
