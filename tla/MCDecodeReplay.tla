--------------------------- MODULE MCDecodeReplay --------------------------
(* DecodeReplay on every replay of up to MaxChunks chunks drawn from       *)
(* Chunks, with a shape that must win two thirds of at least two votes.    *)
EXTENDS DecodeReplay, SequencesExt

CONSTANT MaxChunks

B(netid, status, named, packet) ==
  [netid |-> netid, status |-> status, named |-> named, packet |-> packet]

Chunk(frame, blocks, torn) == [frame |-> frame, blocks |-> blocks, torn |-> torn]

Way    == B(2, "clean", FALSE, "waypoints")
Spawn  == B(2, "clean", FALSE, "spawn")
Plain  == B(2, "clean", FALSE, "none")
Named  == B(1, "clean", TRUE, "handler")
Reject == B(2, "rejected", FALSE, "waypoints")
Fails  == B(1, "error", TRUE, "none")

\* Chunks that vote one way, two ways or not at all, and three that fail: in
\* their frame, in their framing and in a block's decode.
Chunks ==
  { Chunk("good", <<Named, Way>>, FALSE), Chunk("good", <<Way, Spawn>>, FALSE),
    Chunk("good", <<Reject, Plain>>, FALSE),
    Chunk("bad", <<Way>>, FALSE), Chunk("good", <<Spawn>>, TRUE),
    Chunk("good", <<Way, Fails>>, FALSE) }

ASSUME \A c \in Chunks : \A k \in 1 .. Len(c.blocks) :
         c.blocks[k] \in Blocks /\ WellTyped(c.blocks[k])

MCReplays == BoundedSeq(Chunks, MaxChunks)
=============================================================================
