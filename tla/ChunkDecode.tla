---------------------------- MODULE ChunkDecode ----------------------------
(***************************************************************************)
(* What a replay's game chunks hold, what decode_chunk of src/src/game.rs  *)
(* makes of one of them, and how the results of several add up.            *)
(*                                                                         *)
(* A chunk is [frame, blocks, torn]: a body that decompresses or not, its  *)
(* blocks, and whether the bytes behind them frame no block.  A block is   *)
(* the outcome of its decode, which PacketDecoder's ResultIsOwn makes a    *)
(* function of the block alone: [netid, status, named, packet], with the   *)
(* packet it is typed as ("none" if none).                                 *)
(***************************************************************************)
EXTENDS Integers, Sequences

CONSTANTS
  Netids,
  ShapeMin,             \* SHAPE_MIN
  VoteNum, VoteDen      \* SHAPE_VOTE, 0.95

Shapes   == {"waypoints", "spawn"}
Statuses == {"clean", "partial", "rejected", "fault", "no-class"}
Packets  == Shapes \cup {"handler", "none"}

\* Decoding a block can also fail: the decoder's heap is exhausted.
Blocks == [netid : Netids, status : Statuses \cup {"error"}, named : BOOLEAN, packet : Packets]

\* A named class is read by its handler, an unnamed one recognised by shape.
WellTyped(b) == b.packet \in (IF b.named THEN {"handler", "none"} ELSE Shapes \cup {"none"})

\* A replay's chunks.
GameChunks == [frame : {"good", "bad"}, blocks : Seq(Blocks), torn : BOOLEAN]

ASSUME VoteAssumption ==
  /\ ShapeMin \in Nat \ {0} /\ VoteNum \in Nat /\ VoteDen \in Nat \ {0}
  /\ VoteNum <= VoteDen /\ VoteDen < 2 * VoteNum

-----------------------------------------------------------------------------
(* ChunkOut                                                                *)

NoOut == [blocks |-> 0, status |-> [s \in Statuses |-> 0], named |-> 0, typed |-> <<>>,
          unnamed_clean |-> [n \in Netids |-> 0],
          shape_hits |-> [h \in Netids \X Shapes |-> 0]]

One(condition) == IF condition THEN 1 ELSE 0

\* The body of decode_chunk's loop, after decode: only a clean block is typed
\* and votes.
Count(out, b) ==
  LET clean == b.status = "clean"
  IN  [blocks |-> out.blocks + 1,
       status |-> [out.status EXCEPT ![b.status] = @ + 1],
       named |-> out.named + One(b.named),
       typed |-> IF clean /\ b.packet # "none" THEN Append(out.typed, b) ELSE out.typed,
       unnamed_clean |-> [out.unnamed_clean EXCEPT ![b.netid] = @ + One(clean /\ ~ b.named)],
       shape_hits |-> [h \in Netids \X Shapes |->
                         out.shape_hits[h] + One(clean /\ h = <<b.netid, b.packet>>)]]

\* The body of decode_replay's loop over the chunks' results.
Merge(a, b) ==
  [blocks |-> a.blocks + b.blocks,
   status |-> [s \in Statuses |-> a.status[s] + b.status[s]],
   named |-> a.named + b.named,
   typed |-> a.typed \o b.typed,
   unnamed_clean |-> [n \in Netids |-> a.unnamed_clean[n] + b.unnamed_clean[n]],
   shape_hits |-> [h \in Netids \X Shapes |-> a.shape_hits[h] + b.shape_hits[h]]]

-----------------------------------------------------------------------------
(* The vote                                                                *)

Mutant_Passes_without_minimum(out, n, s) ==
  /\ out.shape_hits[<<n, s>>] > 0
  /\ VoteDen * out.shape_hits[<<n, s>>] >= VoteNum * out.unnamed_clean[n]

\* The share of a netid's clean packets that matched is large enough, and so
\* is their number.
Passes(out, n, s) ==
  /\ out.shape_hits[<<n, s>>] > 0
  /\ out.unnamed_clean[n] >= ShapeMin
  /\ VoteDen * out.shape_hits[<<n, s>>] >= VoteNum * out.unnamed_clean[n]

\* summary.shapes: the last shape inserted stays, in whatever order the map of
\* hits is visited.
Elections(out) ==
  { shapes \in [Netids -> Shapes \cup {"none"}] :
      \A n \in Netids : IF \E s \in Shapes : Passes(out, n, s)
                        THEN shapes[n] # "none" /\ Passes(out, n, shapes[n])
                        ELSE shapes[n] = "none" }

Elected(b, shapes) == b.packet \in Shapes => shapes[b.netid] = b.packet

\* typed.retain
Retained(typed, shapes) ==
  LET kept[n \in 0 .. Len(typed)] ==
        IF n = 0 THEN <<>>
        ELSE IF Elected(typed[n], shapes) THEN Append(kept[n - 1], typed[n]) ELSE kept[n - 1]
  IN  kept[Len(typed)]
=============================================================================
