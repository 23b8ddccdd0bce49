--------------------------- MODULE DecodeReplay ----------------------------
(***************************************************************************)
(* decode_replay of src/src/game.rs: the game chunks of a replay, decoded  *)
(* by a pool of workers and merged in file order.                          *)
(*                                                                         *)
(* rayon's map_init is not in src/; it is modelled from how the code calls *)
(* it: the range of chunks is split at will, each piece is worked through  *)
(* in order by one worker with a decoder of its own, made when the piece   *)
(* is begun, and collect() puts every result where its chunk was.          *)
(***************************************************************************)
EXTENDS ChunkDecode

CONSTANTS Workers, Replays

ASSUME ReplayAssumption == Replays \subseteq Seq(GameChunks)

VARIABLES
  records,    \* the replay's game chunks
  pieces,     \* ranges <<lo, hi>> of chunks that no worker has begun
  job,        \* per worker, what it is at: [at, hi, decoder, pos, part]
  outs,       \* per chunk, its Result<ChunkOut>, "todo" before it is there
  phase,      \* "pool", "merge" or "done"
  merged, total, outcome,
  voted       \* the tally before the vote

poolVars == <<pieces, job, outs>>
vars == <<records, poolVars, phase, merged, total, outcome, voted>>

Idle    == [at |-> 0, hi |-> 0, decoder |-> FALSE, pos |-> 0, part |-> NoOut]
Todo    == [kind |-> "todo", out |-> NoOut]
Err     == [kind |-> "err", out |-> NoOut]
Ok(out) == [kind |-> "ok", out |-> out]

Init ==
  /\ records \in Replays
  /\ pieces = (IF Len(records) = 0 THEN {} ELSE {<<1, Len(records)>>})
  /\ job = [w \in Workers |-> Idle]
  /\ outs = [k \in 1 .. Len(records) |-> Todo]
  /\ phase = "pool"
  /\ merged = 0 /\ total = NoOut /\ outcome = "running" /\ voted = NoOut

-----------------------------------------------------------------------------
(* The pool                                                                *)

Split(p) ==
  /\ phase = "pool" /\ p[1] < p[2]
  /\ LET mid == (p[1] + p[2]) \div 2
     IN  pieces' = (pieces \ {p}) \cup {<<p[1], mid>>, <<mid + 1, p[2]>>}
  /\ UNCHANGED <<records, job, outs, phase, merged, total, outcome, voted>>

\* map_init's first closure: PacketDecoder::new, which can fail.
Begin(w, p, made) ==
  /\ phase = "pool" /\ job[w] = Idle
  /\ pieces' = pieces \ {p}
  /\ job' = [job EXCEPT ![w] = [at |-> p[1], hi |-> p[2], decoder |-> made,
                                pos |-> 0, part |-> NoOut]]
  /\ UNCHANGED <<records, outs, phase, merged, total, outcome, voted>>

Mutant_Answer_keeps_part(w, result) ==
  LET j == job[w] IN
  /\ outs' = [outs EXCEPT ![j.at] = result]
  /\ job' = [job EXCEPT ![w] = IF j.at = j.hi THEN Idle
                               ELSE [j EXCEPT !.at = @ + 1, !.pos = 0]]

\* The worker's current chunk is answered and the next of its piece is begun,
\* with the same decoder.
Answer(w, result) ==
  LET j == job[w] IN
  /\ outs' = [outs EXCEPT ![j.at] = result]
  /\ job' = [job EXCEPT ![w] = IF j.at = j.hi THEN Idle
                               ELSE [j EXCEPT !.at = @ + 1, !.pos = 0, !.part = NoOut]]

Working(w) == phase = "pool" /\ job[w] # Idle
Current(w) == records[job[w].at]

Mutant_NoDecoder_unanswered(w) ==
  /\ Working(w) /\ ~ job[w].decoder
  /\ job' = [job EXCEPT ![w] = Idle]
  /\ UNCHANGED <<records, pieces, outs, phase, merged, total, outcome, voted>>

\* The decoder could not be made: every chunk of the piece is that error.
NoDecoder(w) ==
  /\ Working(w) /\ ~ job[w].decoder
  /\ Answer(w, Err)
  /\ UNCHANGED <<records, pieces, phase, merged, total, outcome, voted>>

\* `decompress_chunk(record)?`
BadBody(w) ==
  /\ Working(w) /\ job[w].decoder /\ Current(w).frame = "bad"
  /\ Answer(w, Err)
  /\ UNCHANGED <<records, pieces, phase, merged, total, outcome, voted>>

\* decode_chunk, one block.
Decode(w) ==
  LET j == job[w]
      b == Current(w).blocks[j.pos + 1]
  IN
  /\ Working(w) /\ j.decoder /\ Current(w).frame = "good"
  /\ j.pos < Len(Current(w).blocks)
  /\ IF b.status = "error"
     THEN Answer(w, Err)
     ELSE /\ job' = [job EXCEPT ![w].pos = @ + 1, ![w].part = Count(@, b)]
          /\ UNCHANGED outs
  /\ UNCHANGED <<records, pieces, phase, merged, total, outcome, voted>>

\* decode_chunk's loop ends: with the chunk, or at a block that is not framed.
EndChunk(w) ==
  LET j == job[w] IN
  /\ Working(w) /\ j.decoder /\ Current(w).frame = "good"
  /\ j.pos = Len(Current(w).blocks)
  /\ Answer(w, IF Current(w).torn THEN Err ELSE Ok(j.part))
  /\ UNCHANGED <<records, pieces, phase, merged, total, outcome, voted>>

Worker(w) ==
  \/ \E p \in pieces, made \in BOOLEAN : Begin(w, p, made)
  \/ NoDecoder(w) \/ BadBody(w) \/ Decode(w) \/ EndChunk(w)

\* install returns when every piece has been worked through.
Join ==
  /\ phase = "pool" /\ pieces = {} /\ \A w \in Workers : job[w] = Idle
  /\ phase' = "merge"
  /\ UNCHANGED <<records, poolVars, merged, total, outcome, voted>>

-----------------------------------------------------------------------------
(* After the pool                                                          *)

MergeNext ==
  /\ phase = "merge" /\ merged < Len(records)
  /\ outs[merged + 1].kind = "ok"
  /\ merged' = merged + 1
  /\ total' = Merge(total, outs[merged + 1].out)
  /\ UNCHANGED <<records, poolVars, phase, outcome, voted>>

\* `let out = out?`: the first error in file order is the error.
FirstError ==
  /\ phase = "merge" /\ merged < Len(records)
  /\ outs[merged + 1].kind = "err"
  /\ phase' = "done" /\ outcome' = "error"
  /\ UNCHANGED <<records, poolVars, merged, total, voted>>

\* The vote, and the typed blocks that it keeps.
Finish ==
  /\ phase = "merge" /\ merged = Len(records)
  /\ \E shapes \in Elections(total) :
       total' = [total EXCEPT !.typed = Retained(@, shapes)]
  /\ voted' = total
  /\ phase' = "done" /\ outcome' = "ok"
  /\ UNCHANGED <<records, poolVars, merged>>

Pool  == (\E p \in pieces : Split(p)) \/ (\E w \in Workers : Worker(w))
After == Join \/ MergeNext \/ FirstError \/ Finish

Next == Pool \/ After

Spec == Init /\ [][Next]_vars

\* The pool's threads run until the work is done, and the calling thread goes
\* on when they have finished.
FairSpec == Spec /\ (\A w \in Workers : WF_vars(Worker(w))) /\ WF_vars(After)

-----------------------------------------------------------------------------
\* What was kept of the unnamed classes: packets of one shape per netid, each
\* a shape that enough of that netid's clean packets matched (game.rs:32-35,
\* 142-152).
ShapesAreElected ==
  outcome = "ok" =>
    \A i, j \in 1 .. Len(total.typed) :
      LET b == total.typed[i]  c == total.typed[j] IN
      b.packet \in Shapes =>
        /\ voted.unnamed_clean[b.netid] >= ShapeMin
        /\ VoteDen * voted.shape_hits[<<b.netid, b.packet>>]
             >= VoteNum * voted.unnamed_clean[b.netid]
        /\ c.packet \in Shapes /\ c.netid = b.netid => c.packet = b.packet

\* Whichever worker takes which chunk and whenever it is done with it, the
\* result is that of decoding the chunks in order: the typed blocks in replay
\* order, the same totals, and the error of the first chunk that fails.  And it
\* comes: the pool is always joined and the replay answered, with no decoder to
\* be had too (game.rs:89-90, 111-141).
InOrder == INSTANCE DecodeInOrder
ImplementsInOrder == InOrder!FairSpec
=============================================================================
