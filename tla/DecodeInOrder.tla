--------------------------- MODULE DecodeInOrder ---------------------------
(***************************************************************************)
(* What decode_replay of src/src/game.rs promises, "decode every block of  *)
(* the game-chunk stream and keep the typed ones, in replay order": as if  *)
(* one decoder took the chunks one after the other and stopped at the      *)
(* first that fails.                                                       *)
(***************************************************************************)
EXTENDS ChunkDecode

VARIABLES
  records,    \* the replay's game chunks
  merged,     \* how many of them are in total
  total,      \* a ChunkOut
  outcome     \* "running", "ok" or "error"

inOrder == <<records, merged, total, outcome>>

\* A whole chunk through decode_chunk: what its blocks, the first n of them, add
\* up to.
Sums(blocks) ==
  LET sum[n \in 0 .. Len(blocks)] == IF n = 0 THEN NoOut ELSE Count(sum[n - 1], blocks[n])
  IN  sum

Sum(blocks) == Sums(blocks)[Len(blocks)]

Sound(chunk) ==
  /\ chunk.frame = "good" /\ ~ chunk.torn
  /\ \A k \in 1 .. Len(chunk.blocks) : chunk.blocks[k].status # "error"

Init == merged = 0 /\ total = NoOut /\ outcome = "running"

Decode ==
  /\ outcome = "running" /\ merged < Len(records)
  /\ Sound(records[merged + 1])
  /\ merged' = merged + 1
  /\ total' = Merge(total, Sum(records[merged + 1].blocks))
  /\ UNCHANGED <<records, outcome>>

\* The chunk fails, or no decoder could be made for it: whatever came before
\* it was decoded, so that it is the first that fails.  The error is not told
\* apart from another.
Fail ==
  /\ outcome = "running" /\ merged < Len(records)
  /\ outcome' = "error"
  /\ UNCHANGED <<records, merged, total>>

Finish ==
  /\ outcome = "running" /\ merged = Len(records)
  /\ \E shapes \in Elections(total) :
       total' = [total EXCEPT !.typed = Retained(@, shapes)]
  /\ outcome' = "ok"
  /\ UNCHANGED <<records, merged>>

Next == Decode \/ Fail \/ Finish

Spec == Init /\ [][Next]_inOrder

\* And every replay is answered.
FairSpec == Spec /\ WF_inOrder(Next)
=============================================================================
