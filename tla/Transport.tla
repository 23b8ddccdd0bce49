----------------------------- MODULE Transport -----------------------------
(***************************************************************************)
(* The loops over a replay's chunks and blocks, one per consumer:          *)
(*                                                                         *)
(*   "decode"   `?` on the chunk, its decompression and every block        *)
(*              (cli::decode; game::decode_replay and fields::profile take *)
(*              the same decisions over all chunks first)                  *)
(*   "hits"     the same, over compressed game chunks only                 *)
(*              (replay_info::blocks_with_netid)                           *)
(*   "count"    `?` on the chunk, `continue` on a body that does not       *)
(*              decompress, `break` on a block that is not framed          *)
(*              (summary::transport, explore::framing, ::blocks_of, ...)   *)
(*   "flatten"  `.flatten()` over the chunks, which drops errors           *)
(*              (summary::metadata)                                        *)
(*                                                                         *)
(* A body is what decompress_chunk and BlockIterator make of it: a frame   *)
(* that is "good", or "bad" (a zstd error or a length other than the one   *)
(* announced), the blocks it holds, and whether it is torn after them.     *)
(***************************************************************************)
EXTENDS ChunkIterator, SequencesExt

CONSTANTS GameChunk, Consumers

ASSUME BodyAssumption == \A b \in Bodies : Len(b.blocks) \in Nat

VARIABLES
  consumer,
  open,       \* index of the chunk whose blocks are being read, 0 if none
  taken,      \* how many of its blocks have been read
  out,        \* every block the consumer acted on, as <<chunk, position>>
  seen,       \* the chunks the iterator has handed out, in order
  outcome     \* "running", "ok" or "error"

vars == <<iterVars, consumer, open, taken, out, seen, outcome>>

-----------------------------------------------------------------------------
Chunk(i) == file.chunks[i]

Init ==
  /\ file \in Files /\ IterInit
  /\ consumer \in Consumers
  /\ open = 0 /\ taken = 0 /\ out = <<>> /\ seen = <<>>
  /\ outcome = "running"

Walk ==
  /\ outcome = "running" /\ open = 0
  /\ IterNext
  /\ UNCHANGED <<consumer, open, taken, out, seen, outcome>>

\* The loop ends with the iterator.
Finish ==
  /\ outcome = "running" /\ item.kind = "none"
  /\ outcome' = "ok"
  /\ UNCHANGED <<iterVars, consumer, open, taken, out, seen>>

\* Every consumer flattens.
Mutant_Propagate_flattens ==
  /\ outcome = "running" /\ item.kind = "err"
  /\ item' = Ask
  /\ UNCHANGED <<file, cursor, consumer, open, taken, out, seen, outcome>>

\* `let chunk = chunk?`
Propagate ==
  /\ outcome = "running" /\ item.kind = "err" /\ consumer # "flatten"
  /\ outcome' = "error"
  /\ UNCHANGED <<iterVars, consumer, open, taken, out, seen>>

\* `.flatten()` drops the error and asks for the next chunk.
Drop ==
  /\ outcome = "running" /\ item.kind = "err" /\ consumer = "flatten"
  /\ item' = Ask
  /\ UNCHANGED <<file, cursor, consumer, open, taken, out, seen, outcome>>

\* Chunks whose blocks the consumer reads.
Wants(c) ==
  /\ consumer # "flatten" /\ c.tag = GameChunk
  /\ consumer = "hits" => c.compressed_len > 0

\* decompress_chunk: a raw body is taken as it is.
Decompresses(c) == c.compressed_len = 0 \/ c.body.frame = "good"

Skip ==
  /\ outcome = "running" /\ item.kind = "ok" /\ open = 0
  /\ ~ Wants(Chunk(item.at))
  /\ seen' = Append(seen, item.at) /\ item' = Ask
  /\ UNCHANGED <<file, cursor, consumer, open, taken, out, outcome>>

Open ==
  /\ outcome = "running" /\ item.kind = "ok" /\ open = 0
  /\ Wants(Chunk(item.at)) /\ Decompresses(Chunk(item.at))
  /\ open' = item.at /\ taken' = 0
  /\ seen' = Append(seen, item.at)
  /\ UNCHANGED <<iterVars, consumer, out, outcome>>

\* A body that does not decompress: skipped when counting, else an error.
BadFrame ==
  /\ outcome = "running" /\ item.kind = "ok" /\ open = 0
  /\ Wants(Chunk(item.at)) /\ ~ Decompresses(Chunk(item.at))
  /\ seen' = Append(seen, item.at)
  /\ IF consumer = "count"
     THEN item' = Ask /\ UNCHANGED outcome
     ELSE outcome' = "error" /\ UNCHANGED item
  /\ UNCHANGED <<file, cursor, consumer, open, taken, out>>

TakeBlock ==
  /\ outcome = "running" /\ open # 0
  /\ taken < Len(Chunk(open).body.blocks)
  /\ taken' = taken + 1
  /\ out' = Append(out, <<open, taken'>>)
  /\ UNCHANGED <<iterVars, consumer, open, seen, outcome>>

Mutant_TornBlock_ignored ==
  /\ outcome = "running" /\ open # 0
  /\ taken = Len(Chunk(open).body.blocks) /\ Chunk(open).body.torn
  /\ open' = 0 /\ item' = Ask
  /\ UNCHANGED <<file, cursor, consumer, taken, out, seen, outcome>>

\* A block that is not framed: counting breaks out of this chunk only.
TornBlock ==
  /\ outcome = "running" /\ open # 0
  /\ taken = Len(Chunk(open).body.blocks) /\ Chunk(open).body.torn
  /\ IF consumer = "count"
     THEN open' = 0 /\ item' = Ask /\ UNCHANGED outcome
     ELSE outcome' = "error" /\ UNCHANGED <<open, item>>
  /\ UNCHANGED <<file, cursor, consumer, taken, out, seen>>

EndOfBlocks ==
  /\ outcome = "running" /\ open # 0
  /\ taken = Len(Chunk(open).body.blocks) /\ ~ Chunk(open).body.torn
  /\ open' = 0 /\ item' = Ask
  /\ UNCHANGED <<file, cursor, consumer, taken, out, seen, outcome>>

Next == \/ Walk \/ Finish \/ Propagate \/ Drop \/ Skip \/ Open \/ BadFrame
        \/ TakeBlock \/ TornBlock \/ EndOfBlocks

Spec == Init /\ [][Next]_vars

\* Plain loops of one thread: nothing stops them from taking their next step.
FairSpec == Spec /\ WF_vars(Next)

-----------------------------------------------------------------------------
TypeOK ==
  /\ LaidOut(file.chunks)
  /\ cursor \in 0 .. file.end
  /\ item.kind \in {"ask", "none", "err", "ok"}
  /\ item.at \in 0 .. Len(file.chunks)
  /\ open \in 0 .. Len(file.chunks)
  /\ outcome \in {"running", "ok", "error"}

FileEnd(i) == EndIn(file.chunks, i)

\* The walk hands out the records in file order, each once and none that
\* reaches past the end of the region; a loop that ends well has been given
\* every record, up to the last byte before the signature
\* (docs/ROFL_FORMAT.md:128-129, chunk.rs:66-87).
EveryRecordOnce ==
  /\ Len(seen) <= Len(file.chunks)
  /\ \A k \in 1 .. Len(seen) : seen[k] = k /\ FileEnd(k) <= file.end
  /\ outcome = "ok" => file.end = FileEnd(Len(seen))

\* Records that lie wholly before the end of the region.
InFile == {i \in 1 .. Len(file.chunks) : FileEnd(i) <= file.end}

\* The region ends where a record does.
Undamaged == \E i \in 0 .. Len(file.chunks) : file.end = FileEnd(i)

Game == {i \in InFile : Chunk(i).tag = GameChunk}

Before(a, b) == a[1] < b[1] \/ (a[1] = b[1] /\ a[2] < b[2])

\* acted is every framed block of the chunks in S, once and in file order.
Lists(acted, S) ==
  /\ {acted[n] : n \in DOMAIN acted} = UNION {{<<i, k>> : k \in 1 .. Len(Chunk(i).body.blocks)} : i \in S}
  /\ \A m, n \in DOMAIN acted : m < n => Before(acted[m], acted[n])

\* A strict consumer succeeds exactly on a file without any damage, and then
\* it has acted on every block of every game chunk (game.rs:96-128,
\* cli.rs:384-395).
StrictIsAllOrNothing ==
  consumer = "decode" /\ outcome # "running" =>
    /\ outcome = "ok" <=> /\ Undamaged
                         /\ \A i \in Game : /\ Decompresses(Chunk(i))
                                            /\ ~ Chunk(i).body.torn
    /\ outcome = "ok" => Lists(out, Game)

\* A lenient consumer loses exactly what is damaged: the body that does not
\* decompress and the rest of a torn chunk, never a block behind them
\* (summary.rs:125-145, explore.rs:126-177).
DamageStaysLocal ==
  consumer = "count" /\ outcome = "ok" =>
    Lists(out, {i \in Game : Decompresses(Chunk(i))})

\* What is lost to damage is what each consumer's policy says: all or nothing for a
\* strict one, what is damaged for a lenient one.
LossIsMeant == StrictIsAllOrNothing /\ DamageStaysLocal

\* Every loop ends: a strict or lenient one on any file, the flattening one
\* on a file whose region is undamaged.
WalkStops == (consumer # "flatten" \/ Undamaged) ~> (outcome # "running")

-----------------------------------------------------------------------------
\* docs/ROFL_FORMAT.md:128-129 of the chunk walk: "the parser iterates until
\* the cursor reaches the signature boundary".  summary::metadata iterates
\* `chunks().flatten()`, and a record that does not fit is answered with the
\* same error for ever.  A shortened file does not come so far (rofl/mod.rs:65-74):
\* it takes one of full size in which a record's length passes the boundary.
ReachesTheBoundary == <>(outcome # "running")

\* replay_info.rs:30-31 of blocks_with_netid: "Walk all game-chunk stream
\* chunks, decompress, split into blocks, and collect every block whose
\* `packet_id` matches the target netid".  The loop also passes over every
\* game chunk that is stored uncompressed.
CollectsEveryGameBlock ==
  consumer = "hits" /\ outcome = "ok" => Lists(out, Game)
=============================================================================
