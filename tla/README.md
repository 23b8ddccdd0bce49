# Verification of ROFL-X

ROFL-X reads League of Legends replay files (`.rofl`). A replay is a header, a
run of chunk records and a signature with JSON metadata; a chunk decompresses
to a stream of blocks; a block is one network packet, obfuscated by the game
client. ROFL-X decodes a packet by running the client's own deserializer in an
emulator and reading the object it leaves on the emulated heap. Typed packets
are then assembled into a match (deaths, items, wards, vision, movement). A set
of exploration commands works on packets whose classes are not known, and an
older path decodes wards and movement with a second emulator.

Everything here is translated from the Rust sources under `src/src/`; line
numbers in comments refer to them. `PROJECT.json` maps each definition to the
lines it models, and lists what can go wrong at which line with the properties
that would show it.

## 1. Inventory

| Part | State it keeps | Operations | What is hard |
|---|---|---|---|
| File header and metadata (`rofl/mod.rs`, `header.rs`, `metadata.rs`) | the parts' positions, the players | `Replay::parse` | a file cut short, whose last bytes are then any length |
| Block framing (`rofl/block.rs`) | cursor, time, previous id and param | `next` | deltas against the block before, wrap-around, a block abandoned half way |
| Chunk walk (`rofl/chunk.rs`, `decompress.rs`) and its consumers (`summary.rs`, `explore.rs`, `cli.rs`, `replay_info.rs`, `game.rs`) | cursor and end of region; what a consumer has counted | `next`; loops that propagate, skip or drop errors | damaged files, an error that repeats, which damage a loop may swallow |
| Emulated machine (`emulator/machine.rs`) | bump allocator, read and plaintext marks per heap byte, memory | `alloc`, `reset_heap`, `set_capture`, `call`, `plaintext_heap`, hooks | what survives from one call to the next, the heap's limit |
| Packet decoder (`emulator/decoder.rs`) | the machine, the net-id codec | `decode`, `deserializer_rva`, `NetIdCodec::learn`, `encode` | a decode that ends early in one of many ways, capture of plaintext under in-place masking, a codec learned from code that may be no codec |
| Parallel decode (`game.rs:91-190`) | per-worker decoder, per-chunk results, tallies | `decode_replay`, `decode_chunk` | order of results and of errors under any splitting, a vote taken over all of them |
| Game assembly (`game.rs:192-`) | rosters, inventories, wards, open vision windows, motion, totals | one branch per packet class, `self_check` | packets of the same time in either order, windows and wards that never close, a roster that begins at the wrong id |
| Field profiles (`fields.rs`) | statistics per class, word and chunk; arrays by entry size | `record`, `merge`, `observe_array`, `entry_layout` | merging per-chunk statistics must equal one pass over all; numbers that pass for counts |
| Exploration (`explore.rs`) | framing counts, votes, tables of what bytes stand for | `framing`, `champion_run`, `fingerprints`, `pool`, `match_patches`, `match_stats`, `event_locked`, `byte_chain`, `solve_*` | conclusions from traffic that may look like something else; a fixpoint that retracts |
| Object layout (`layout.rs`) | slots a payload byte may carry | `recover`, `tracks`, `field_order` | two slots that agree on all samples, words that are not always sent |
| Solvers (`cli.rs`) | one list per replay, paired by index | `solve_killer`, `solve_waypoints`, `player_counters`, `decode` | a replay skipped half way |
| Format-1 emulator and positions (`emulator/unicorn.rs`, `packet.rs`, `replay_info.rs`) | one VM, hooks, player and ward maps | `call_decrypt_*`, `parse_and_decode`, `build_output_json` | state left in the VM between calls, hooks that accumulate, corpses matched by place |
| Patch archive, command line | none between steps | load, print | nothing a step order can break |

The program is sequential apart from two thread pools (`game::decode_replay`
and `fields::profile`). Files are read whole before anything is parsed and
nothing is written in place, so crashes and restarts play no role. What can go
wrong is at the joints: state carried from one block, chunk, decode, packet or
replay to the next, errors in the middle of a sequence, results of a pool put
together again, and conclusions drawn from what happened to be in the traffic.

## 2. Modules

### Files, framing, chunk walk

`FileLayout` is `Replay::parse` with the header and the metadata it reads:
`ParseHeader`, `ParseTail` and `ParseMetadata` are its three parts, each with its
errors. A file is what the recorder wrote (sizes of its parts), of which the end
may be missing, its last bytes then being any number, or one part be something
else.

`BlockIterator` begins with the byte-level operators of `block.rs`: the marker
bits, little-endian reads, `as i8` and `wrapping_add_signed`. The number of
values of a byte is the constant `Base` (256 in the code). TLC runs with
`Base = 16`, so that a four-byte word still fits TLC's integers; the proofs are
for every multiple of 16. The iterator has the fields of the Rust struct as variables and one action
per read of `next_block`, since each read can fail and leaves the fields as
they are then. `FramingError` is any `need()` that fails and the payload test;
every caller in the repository stops at the first error of a chunk, so the
model stops there too. Timestamps are whole milliseconds, added up exactly, where the
code adds up seconds in `f32`.

`BlockStream` adds a recorder (the game client, not in the repository) that
writes blocks with any of the compressions that fit, computing its deltas
independently of the reader, and cuts the chunk anywhere in its last block. A
chunk may also be a body of `Buffers` that nobody recorded.

`ChunkIterator` is `chunk.rs`: `NextNone`, `NextErr` and `NextOk` are the three
ways `next` returns. A file is a sequence of records with their offsets and
the offset where the region ends. `Transport` composes it with the four kinds
of consumer loop; which of `?`, `continue`, `break` and `flatten` a consumer
uses is all that tells them apart, and each is an action.

### Machine and decoder

`Machine` is `MachineState` with its methods as operators from state to state.
`PacketDecoder` strings them together as `decode` does: `Begin` (reset, first
allocation), the factory, `Call` (stream, cursor, capture on), the
deserializer, `Finish` (capture off, classify, take the heap). Between these the
game's own code runs as a nondeterministic guest that allocates, reads, stores
and masks, within its own blocks; each access runs the hooks of
`Machine::new`. What the guest is taken to respect is what
`src/docs/DECODING.md` section 5 says of it: a byte it has read and then writes
alone, it writes masked. A call's instruction limit is a budget of guest steps.

`NetIds` is `NetIdCodec` of `decoder.rs` together with what `explore.rs` knows of
the same encoding (`first_varint_byte`, `groups`, `first_byte_position`,
`kills`). The game's reader is any one to one function of a byte, or one that goes wrong
at a single byte; widths are constants.

`PathBuffer` has the two readers of a movement packet's bytes side by side:
`read` of `packet/handlers/waypoints.rs` and `PathPacket::parse` of
`emulator/packet.rs`, over what a writer puts there with any count and any cut.

### Parallel decode

`ChunkDecode` is the algebra of `ChunkOut`: what one block adds, how two
results add up, the shape vote. `DecodeInOrder` is the specification of
`decode_replay` by its doc comment: as if one decoder took the chunks in order.
`DecodeReplay` is the code: rayon splits the range of chunks at will, a worker
takes a piece with a decoder of its own, results land at their chunk's place,
and the calling thread merges them in order. It implements `DecodeInOrder`,
fairness included, under the identity mapping of `records`, `merged`, `total`
and `outcome`.

### Game assembly

`assemble` keeps several unrelated states side by side in one loop; each has a
module of its own, and in each the game that sends the packets is a model of
what the code says of it (`game.rs`, `items.rs`, `visibility.rs`).

- `Inventory`: the nine slots of `inventory` and the map `displaced`. One
  operation of the server (a purchase, a sale, a swap, a use, a recipe) is a run
  of packets on `wire`; `BuyItem`, `RemoveItem`, `SwapItem` and `UseItem` are
  the branches that take them. A recipe's result may land on a component, and
  the removal of that component may be lost (its packet was not typed).
- `Vision`: the `Vision` of a champion, and beside it the same timeline as
  `explore.rs` rebuilds it from undecoded blocks. `Told` is the branch of
  `assemble`, `Explore` the loop body of `vision_windows`, `Finish` both ends.
- `Wards`: `ward_list`, `open_wards` with `swap_remove`, `wards_placed`. A place
  is a point on a line. A corpse lies up to `Drift` from its ward's place and
  has an unowned twin.
- `Positions`: `Motion`, `state_at` and the `next_tick` loops. The game walks a
  champion place by place; the code knows only the path it announced and
  interpolates. Time is in moments, several to a second.
- `Assists`: `assign_assists`, first the collecting loop, then one step of the
  crediting loop per action. `lag` is how late the counters of a game are.
- `PlayerTotals`: `Roster::infer`, the totals of `assemble` and `self_check`,
  over games in which the first champion of the record may never be named. `Tally` is
  what one pass over the packets counts for each player with a given first id.

`Recording` is the clock they share. `MCAssembly` puts them, `FileLayout`,
`PathBuffer` and the modules of the first format together. The branches read and
write variables of their own, so that a packet of one changes nothing of the
others: the initial state chooses the part to look at, and the run covers the
union of the parts' state spaces where their product would add nothing.

### The first format

- `StubEmulator`: `parse_and_decode` calling `call_decrypt_ward_spawn_packet` and
  `call_decrypt_pos_packet`; one action per write of the guest, per call and per
  return. The struct lies at the same address in every call of a batch and is not
  cleared, and every call of the first adds a hook that stays.
- `OutputJson`: `build_output_json`: the `placed` and `pos_to_id` maps, which pair
  a corpse with a ward by place, and the positions, once a second at most, with
  `PathPacket::get_pos`. A corpse lies within `CorpseDrift` of its ward's spot; `corpses`
  is a history of where they lay.

### Field profiles

`FieldProfile` is one word of one class: `Record` and `MergeWord` are
`Word::record` and `Word::merge`, `Profiled` the loop body of `profile_chunk`,
`Merge` is `ClassProfile::merge`. A float is a small integer, a value that is no
float has none. Blocks fall into chunks and chunks into replays in every way.
The thread pool is the one `DecodeReplay` models and `collect` keeps the order,
so chunks are profiled one after the other here.

`ArrayEntries` is `observe_array`, `ArrayProfile` and `entry_layout`: arrays with
room for more entries than there are, and pointers to blocks that are no arrays.

### Exploration

All are about classes that cannot be decoded; in each, the server sends its own
traffic and, around it, traffic that may look like anything.

- `Framing`: `framing` and `champion_run`: which entities are the champions.
- `Visibility`: `solve_visibility`. `Best` leaves open which of two even votes a
  hash map names; `Openers` which of several equally busy candidates comes last.
- `Fingerprint`: what `fingerprints` keeps of a class per replay and `pool` of
  several. `PatchMatch`: `match_patches` over two patches' fingerprints, how alike
  two are being any number. It implements `BestFirst`, a match that always takes
  a pair best for both of its classes.
- `StatsMatch`: `match_stats` and the loop that feeds it (`player_counters`).
- `EventLocked`: `window_cover` and `event_locked` over several games.
- `ByteChain`: `byte_chain` and the two checks of `solve_waypoints`.
- `KillerField`: `solve_killer` with `solve_netid_field`: the list of timelines,
  the passes over all games for every tail, confirmation and refutation.
- `Layout`: `recover`, `tracks` and `field_order` of `layout.rs`.

Where a table maps payload bytes to what they stand for, a payload byte is named
after the byte it stands for, so that a true table is the identity.
`MCExploration` puts all but `KillerField`, which is run by itself, together with
the field profiles in the way of `MCAssembly`.

## 3. What the runs check

Every passing run is exhaustive for its bounds. A run with "violation" checks one
sentence of the repository that the code does not keep.

| Run | Checks | Shows |
|---|---|---|
| `block_stream` | `TypeOK`, `Tiling`, `EndIsExact`, `ReadsWhatWasWritten`, `ReaderStops` | over every body of up to 7 bytes and many of 8 and 9, and over recorded ones: returned blocks tile the body and are what was recorded, `None` and errors come exactly when they must, a cut inside a block is an error and never a wrong block, reading always stops |
| `transport` | `EveryRecordOnce`, `LossIsMeant`, `WalkStops` | each record once and in order; strict consumers return all or an error; lenient ones lose only what is damaged |
| `transport_flatten` | `ReachesTheBoundary` (violated) | `.flatten()` over an iterator that repeats its error never ends |
| `transport_hits` | `CollectsEveryGameBlock` (violated) | game chunks stored raw are passed over |
| `packet_decoder` | `BlocksApart`, `FreshIsZero`, `ResultIsOwn`, `DecodeAnswers` | nothing of one decode reaches the next, the view holds plaintext although the guest masks it in place, every decode is answered |
| `decode_replay` | `ShapesAreElected`, `ImplementsInOrder` | pooled decoding refines decoding in order, errors included, and comes to an end; each class gets the shape the whole replay elects |
| `assembly`: inventories | `FollowsServer` | the rebuilt slots are the server's whenever no packet is under way |
| `assembly`: vision | `WindowsAreTheStays`, `ExploredMatches` | both readers find the true stays in view; they differ only in where a window still open at the end is closed (`explore.rs:893` at the last block, `game.rs:459` at the game's length) |
| `assembly`: wards | `RecordsAreTrue` | indices survive `swap_remove`, deaths go to the right ward unless two wards of one owner stand too near |
| `assembly`: positions | `SamplesAreTrue` | late sampling still shows each second as it was |
| `assembly`: assists | `CreditsAreDue` | no credit is invented; a death by itself is credited exactly, and so is every total if counters come with their deaths |
| `assembly`: totals | `TotalsAreOwn` | each player has its own totals unless no packet names the first; then `self_check` tells |
| `assembly`: file | `ReadWholeOrNot` | a file is read exactly if it is whole and sound |
| `assembly`: buffer | `ReadersAgree` | both readers of a movement packet against what was meant; the older one takes each step back for one forward |
| `assembly`: first format | `StaleWithinBatch`, `WardsByPlace`, `TicksFollowPaths` | what a hook took is its packet's own, stale data is of the same batch; corpses of up to `CorpseDrift` off their wards' spots: what each records, and that all who fell are recorded if none drifted; positions never run back or past a path's end |
| `assists_late` | `TotalsExact` (violated) | totals are not exact if a counter may lag by the window |
| `exploration`: profiles | `CountsAreExact`, `EntriesAreTrue` | merging in any grouping counts what one pass would; only true entry sizes win where strays are fewer |
| `exploration`: patches | `ImplementsBestFirst`, `ConfidentIsAlone`, `PoolIsTheWhole` | the greedy loop is the best-first match; a confident match has no rival; pooled fingerprints are those of all blocks |
| `exploration`: the rest | `PairIsRead`, `ChampionsFound`, `OneOffsetEach`, `ChainIsTrue`, `LocksAreTrue`, `IdsAreFound`, `LayoutIsTrue` | whatever the traffic happens to be, nothing false is reported, and what the traffic settles is found |
| `field_range` | `RangeIsMeasured` (violated) | every merged range reaches to 0.0 |
| `killer` | `LearnedIsAll`, `SearchEnds` | the passes end although pairs are confirmed and refuted in turns, what is learned is true and all there is to learn |
| `kill_timelines` | `OneReplayEach` (violated) | a replay skipped half way shifts the pairing of timelines and games |

### Bounds

- File: two sizes of each part, one of them 0 where the code allows it, every cut
  and every number the last bytes may then hold.
- Bytes: `Base = 16` instead of 256. The widths and the wrap-around of every
  field are relative to `Base`; nothing in `block.rs` depends on its size.
  Bodies of 7 bytes reach every header form and a second block; the 9-byte
  bodies over few byte values reach a second block after the longest header.
- Transport: three records suffice to have damage before, at and after any
  record, of each kind (raw, compressed, with a header or a body that the region's end cuts).
- Machine: a heap of a few words and blocks of 0 to a few bytes, so that
  alignment, exhaustion and reuse after a reset all occur; any number of decodes,
  since what could leak goes from one decode to the next.
- Pool: three chunks and two workers have every splitting shape (one piece, two
  pieces, three pieces; two in one worker) and two errors in either order.
- Inventory: three slots (two components and a free one), two recipes, one of
  two equal components, three moments; packets of different players never touch
  the same slot, so one player.
- Vision: two champions, seven packets: two stays each with repeats and strays.
- Wards: three wards of two owners on a line longer than the radius.
- Positions: four places, two speeds, two moments to a second, six moments,
  four packets: a path crossed within a second, cut by another, and a silence
  of more than a second. The last second is the game's end.
- Assists: two against one, three deaths at three moments, a window of one.
- Totals: two against one and a unit that is none of them, three things happening:
  a roster shifted by one and by two places, and the attacker or the victim of a
  hit outside it.
- Movement buffers: bytes of four bits, so that coordinates wrap; two entries of up
  to four points, which fill the bitmap's first byte and begin its second.
- First format: batches of two and three hits, so that one hit follows another in
  its batch and one begins a new one; six ward packets on two
  adjacent spots, with a drift of one, so that a ward's corpse may miss its spot, lie on another's
  and leave an entry that a later one finds; three paths.
- Field profile: four blocks; the cap is 2 and the sample 2 per chunk, so both
  are exceeded within a chunk and across a merge. Arrays: three blocks in two
  chunks, so that two agree against one and one stands against one.
- Framing and visibility: three ids in a row, two of them champions, seven blocks:
  a class can be a candidate, be solved and be the busier.
- Patches: three classes on each side over scores on both sides of the threshold
  and of the margin. Fingerprints: two replays, four blocks, a cap of three
  lengths that is reached within one replay and only by both.
- Counters: four replays, one more than must agree, over two players.
- Event locks: two games, two kills, three blocks, windows that overlap, are cut by
  the beginning and are far apart. Chance is counted in eighths.
- Byte chain: an alphabet of five, the smallest in which the chain may be cut short,
  meet itself or be read in the wrong direction.
- Net ids: groups of two values and ids below 32: ids of one to five bytes, a carry out
  of the low byte within a roster, and every byte as the one the reader lacks.
- Layout: words of two bytes, a header byte, a word that may lack, three samples.
- Killer: two games with rosters that share a champion, one roster whose ids have
  unlike lengths, three deaths, two tails.

### Fairness

`BlockIterator`, `Transport` and the reader of `BlockStream` are loops of one
thread that nothing can block: weak fairness of the loop's step. A decode runs
until the instruction limit at most (`machine.rs:372`), so weak fairness holds
while one is under way, and none is assumed for starting another. Pool workers are
threads the operating system schedules: weak fairness of each worker's step and
of the calling thread. Splitting is never required to happen. `DecodeInOrder`
asks for weak fairness of its own step, which the refinement shows the pool
to give. `solve_killer` is one thread: weak fairness of `Solve_killer`, none of the
games it looks at. The other modules have no liveness property and no fairness.

`CHECK_DEADLOCK FALSE` is set where a finished run has no further step.

## 4. What is proved

All for every value of the constants, under the assumptions named in the modules.

| Theorem | Property | Argument |
|---|---|---|
| `FileAndTotalsProofs!FilesAreReadWhole` | `ReadWholeOrNot` | the invariant says what has been checked of the file by each step, and that an error had its reason in the file; a length that leads to the whole JSON can only be that of a whole file, since the JSON ends where the file's last bytes begin |
| `FileAndTotalsProofs!TotalsAreTheirs` | `TotalsAreOwn` | the invariant is about every roster that could still be inferred: by a roster that begins at `first`, no later than the first champion named so far, the i-th player is given what is the (i + first - 1)-th champion's and no more damage than that (`TallyIsOwn`). So the true roster gives each its own, and a shifted one shows at the greatest player anything happened to |
| `BlockIteratorProofs!TypeCorrect`, `BlocksTile`, `EndsExactly` | `TypeOK`, `Tiling`, `EndIsExact` | the invariant adds where the cursor stands within the block being read and that each part read is the body's slice there; each read moves the cursor by its width or ends with an error that leaves too little |
| `BlockIteratorProofs!StreamTiles`, `ReadsBackWhatWasWritten` | (the same over `BlockStream`), `ReadsWhatWasWritten` | a recorded body is laid out: block `k` stands at `at[k]` and is written for the block before it. The reader is in step with that layout (`InStep`): it has returned the first blocks, and of the next it has read as meant the fields before the one it is at. A field written with a delta is read back to what was meant, since the wrap-around of both sides cancels |
| `TransportProofs!WalkTypeCorrect`, `HandsOutEveryRecordOnce` | (types), `EveryRecordOnce` | the cursor is always the start of the next record to hand out; offsets of laid-out records grow, so it can be the boundary only after the last |
| `TransportProofs!LosesWhatIsDamaged` | `LossIsMeant` | what has been acted on is the blocks of every body so far that the consumer's loop heeds, each once and in order (`Acted`), with the part taken of the body being read (`Reading`); a strict consumer that has not returned an error has met no damage (`Strictness`) |
| `PacketDecoderProofs!DecoderTypeCorrect`, `HandsOutBlocksApart`, `FreshMemoryIsZero`, `ViewsAreOwn` | (types), `BlocksApart`, `FreshIsZero`, `ResultIsOwn` | everything at and past `heap_high` is zero and unmarked, every block ends at or before the cursor and the cursor at or before `heap_high`; within a decode, marks agree with what the guest stored, and a masked byte keeps the plaintext of its first write |
| `DecodeReplayProofs!NoChunkIsForgotten` | (`EveryChunkAnswered`) | a chunk that is not answered lies in a waiting piece or in the rest of a worker's (`NoneForgotten`), whichever way pieces are split |
| `DecodeReplayProofs!DecodesInOrder` | (safety of `ImplementsInOrder`) | an answer is that of its own chunk, whoever gave it; so the merging thread, which takes the answers by place, makes the steps of the decoder that takes the chunks in order, and the pool's steps are stutters |
| `DecodeReplayProofs!ElectionIsFair` | `ShapesAreElected` | tallies only add up, chunk by chunk; an elected shape has the quorum and more than half of the votes, so no second one has |
| `AssemblyProofs!WindowsCorrect` | `WindowsAreTheStays` | the server is within a stay exactly while the champion is seen, and `since` follows it; needed because a packet's effect depends on `since` and not on `seen` |
| `AssemblyProofs!ExploredCorrect` | `ExploredMatches` | `open` follows the server too for every champion no stray packet has named, so both readings append the same window at the same packet and differ only in what they close with |
| `AssemblyProofs!InventoryFollowsTheServer` | `FollowsServer` | by cases on what is left on the wire (`Resting`, `Buying`, `Removing`, `Swapping`, `Using`): in each, the slots differ from the server's exactly by what the packets on their way will change. A removal of the run's own moment is passed over where `displaced` holds that moment, and no entry is left that a later moment could be taken for (`Settled`) |
| `AssemblyProofs!RecordsFollowTheWards` | `RecordsAreTrue` | `open_wards` lists the live records, each once, which is what `swap_remove` must keep (`OpenIsLive`); each ward has one record and each record agrees with its ward (`OneRecordEach`, `RecordsMatch`), as long as two wards of one owner that stand too near have not been met (`ApartUnlessCrowded`) |
| `AssemblyProofs!AssistsAreCredited` | `CreditsAreDue` | every step of a counter tells of one death, at most the lag before it, and is credited to a death within the window or to none (`StepsAreOfDeaths`). Without lag, a champion's steps of one moment are no more than the deaths of that moment it assisted in, so that counting finds one not yet credited for each |
| `ReplayInfoProofs!StaleValuesStayInTheBatch` | `StaleWithinBatch` | what lies in the struct is of the batch (`OfTheBatch`) and a field's last write leaves the packet's own value (`LastWritten`); the newest hook has counted the writes of its own call, however many older ones count along, so that the one it takes is the last (`HookCounts`) |
| `ReplayInfoProofs!TicksFollowThePaths` | `TicksFollowPaths` | each player's entry is its latest path (`PlayersLatest`), and a state was taken along the paths that were the latest when it was read (`StatesTrue`); a later moment is further along one path and never past its end |
| `ReplayInfoProofs!WardsAreKnownByPlace` | `WardsByPlace` | on a spot where no corpse comes to lie while a ward stands, the two maps lead to the first ward put there since the last corpse, and to nothing if there was none (`LeadsTo`), so that each corpse records what `RecordsDue` says (`RecordedAt`), however far others drift; if none drifted off the spot, that is the fallen wards with their times. Everything else heard is true of some ward put there (`HeardTrue`), and no two records end at once (`RecordsDiffer`) |
| `ReplayInfoProofs!ReadersAlwaysAgree` | `ReadersAgree` | what the game means adds up point by point (`SteadyGroup`), and an entry's bytes are laid out so that each bit of the bitmap and each coordinate has its place (`LaidOut`; a byte of the bitmap is the sum of its bits' powers, `BitOfNum`). A reader's walk is in step with those places as long as the entry is whole, and stands past the end from the first one that is cut (`DonesRead`, `CutEntryRead`), so that it cannot end at the buffer's end by chance. What `parse` adds up strays by a byte's worth for each change back (`StraysOn`) |
| `ExplorationProofs!MatchIsBestFirst` | `ImplementsBestFirst` | a pair the loop has passed has lost one of its classes, so that the first pair left, if both of its classes are free, is the best of all free pairs: each step is a `Match` of `BestFirst` or changes nothing it sees |
| `ExplorationProofs!ConfidentMatchIsAlone` | `ConfidentIsAlone` | a match is that of its pair as the scores were; a margin above 0 leaves one reference with the best score, and the runner-up bounds all others |
| `ExplorationProofs!ReportedChainsAreTrue` | `ChainIsTrue` | the table of a walk is the true one read forwards or backwards from the anchor (`TrueTo`), and what it has given places to is a run up from the anchor and a run down to the end, which cannot meet (`Reached`); the flags byte tells the direction |
| `ExplorationProofs!WhatIsLearnedIsAll` | `LearnedIsAll` | at the true field a byte stands as often as its unit has killed (`FieldCounts`), so that what is forced there is true as long as rosters are `Clean` (`LearnsTheTruth`); as long as a pass has added nothing, no replay it has gone through forces anything (`PassIsTrue`), and what is reported is the table of a pass that ended so (`BestIsLearned`) |
| `ExplorationProofs!CountersAreMatched` | `OneOffsetEach` | one replay bears out at most one offset, so the hits of two never exceed the tests; the counted offset's hits fall short of them only by the replays that were broken off |
| `ExplorationProofs!VisibilityIsRead` | `PairIsRead` | a payload of one of the pair's classes has votes only of teams it was sent for (`VotesAreMeant`), so that its best vote is right however an even one falls |
| `ExplorationProofs!ProfilesAreExact` | `CountsAreExact` | each profile counts the blocks between two bounds (`Exact`, `Bounds`): the pooled one those merged, every chunk's those since the one before, and merging joins adjacent stretches. A capped set of values is whole or marked, whichever side lost some first (`KeepsValues`) |
| `ExplorationProofs!RostersAreFound` | `ChampionsFound` | an entity has the classes it was heard of in, and its times embrace all it was heard at (`FramingInv`); so champions who are there throughout span the game, and a run with another unit in place of one of them has less variety in sum |
| `ExplorationProofs!ChanceIsMeasured` | `LocksAreTrue` | by induction over the sets of times, joining windows from the earliest on adds up the seconds covered by those so far, and ends at the last of them. The rest compares counts: a class that comes only at deaths is near each of them, beyond what the windows' share allows |
| `ExplorationProofs!LayoutsAreTrue` | `LayoutIsTrue` | the layout was measured on the blocks there are (`LayoutInv`): a position is paired with each slot that agrees with it in all samples, so with its true one, and with no other as samples tell words apart; adjacent positions of one order are adjacent bytes of it |
| `ExplorationProofs!PoolsAreWhole` | `PoolIsTheWhole` | what is kept of a class and of each replay agrees with what was had (`ClassTells`, `PrintsTell`). Shares are compared as products of shares and blocks, whose mixing only adds (`Mix`); of lengths none is lost before the cap |
| `ExplorationProofs!EntriesAreMeasured` | `EntriesAreTrue` | every chunk's and the pool's counts by stride are those of the blocks taken there, for some assignment of blocks to chunks and strides that gives full arrays their own (`EntriesInv`); a repetition at a wrong stride would contradict how entries differ |
| `PacketDecoderProofs!NetIdsAreFound` | `IdsAreFound` | the tables hold only bytes that mean what they stand for, and every group that a byte tried so far means (`TablesAreTrue`). An id is written as its digits, the low one first, which the reader puts together from the last one back (`ReadsDigits`); ids given one after the other differ in the low group, so that the first byte names the champion |
| `AssemblyProofs!SamplesTrue` | `SamplesAreTrue` | the champion stands where the path last announced leads by now (`OnPath`), also for the way still ahead of it; the seconds sampled are the first ones and those that are due are where the path puts them (`SampledSoFar`), since it is only replaced after the seconds before have been sampled |

Assumptions worth naming, each in the module that declares the constant:

- `FileAssumption` takes the trailer to be no longer than the fixed part of the header,
  and a file's JSON not to be empty.
- `SizeAssumption` of `PacketDecoder` takes the sizes the game asks for to be too small
  for `ptr + size` to wrap at 2^64 (`machine.rs:76`, which a release build does not
  check); the guest writes within its own blocks and masks only bytes it has read.
- `ChunkAssumption`: files are laid out by `LaidOut`, records end to end. `BodyAssumption`
  and `ReplayAssumption` say that bodies and replays are finite sequences,
  `MessageAssumption` that what is recorded fits its fields.
- `VoteAssumption`: the share a shape must win is more than half of the votes.
- `StubAssumption`: the config counts the client's writes right, so that the write a
  hook waits for is the last of its field in a call. That is what the config is for.
- `StatsAssumption` has `MIN_TESTS` at least 3, where the code has 3 (`explore.rs`): with
  two replays, one of them broken off, another offset may win.
- `TotalsAssumption` has a hit above `DAMAGE_SLACK`: smaller ones the self check forgives.
- `AssistAssumption` has no counter later than `WINDOW`; `assists_late` shows what then
  still fails.
- `LockedAssumption`: a whole game is `Scale`, a common multiple of the lengths, so that
  shares of a game are whole numbers where the code divides floats.
- `LayoutAssumption`: a stream writes each word at most once, and what counts as various
  has two values at least. `FingerprintAssumption` has a cap of three lengths or more.
- `NetIdAssumption`: `Groups`, `LowSize`, `MaskSize` and `IdSize` divide one another as
  the powers of two they stand for do; a roster is no larger than a group.
- `BufferAssumption`: a byte has 8 bits as in the code, or 4 as in the runs, and the count
  of points fits the low byte of the flags beside the bit for the extra byte.
- Classes are numbered by their place in the pool (`PatchAssumption`), which the least
  one of a set is taken from.

No induction theorem of the library can be used, as those take an operator. Where a
proof is by induction over a recursive function or over positions (`Tally`, the layout of
a recorded body, the counting of `Assists`), it takes the set of naturals for which the
statement fails and refutes its least element, or the set for which it holds and shows
that it is all of them (`CountsUp`), or uses that the invariant holds in the
state before.

Only model-checked is all liveness (`ReaderStops`, `WalkStops`, `DecodeAnswers`, `SearchEnds`,
and the fairness of `ImplementsInOrder`): out of the prover's reach. Every safety
invariant and every step property of the passing runs has a theorem.

## 5. Where code and documentation disagree

`PROJECT.json` quotes the sentences; each is a run that finds the violation.

- `summary.rs:51` never ends on a file of full size in which a record's length passes the
  end of the region. A shortened file is refused before (`ReadWholeOrNot`).
- `replay_info.rs:36` passes over raw chunks.
- `game.rs:600` can lose an assist whose counter comes late.
- `fields.rs:129` makes every range reach 0.0.
- `cli.rs:949` leaves the timeline of a skipped replay behind, so that from there
  on each game is paired with another's blocks.

Met while modelling, and modelled as the code has it:

- `explore.rs:752-754` says a champion's first visibility event is always the
  opening one; `solve_visibility` never looks at it and takes the busier candidate
  (`explore.rs:809`). `PairIsRead` says when that is right.
- `explore.rs:263` says of many lengths "min and max"; when `LENGTH_CAP` was
  reached, these are those of the lengths met before (`PoolIsTheWhole`).
- `waypoints.rs:26-34` gives two differences between the readers of a movement
  packet; a third is that `PathPacket::parse` refuses an entry without points.
- `replay_info.rs:84` subtracts without a test, so that a ward of a unit below the
  first player ends the run (`WardsByPlace`, last conjunct).
- `replay_info.rs:82` matches a corpse by its exact place, although it may lie about 100
  units off (`docs/DOMAIN.md:359-364`, which says that exact matching loses wards). The ward
  is not only lost: its entry stays, so that the next corpse on the spot is recorded as
  that ward's, with the time until then, and the ward it is of is lost in turn
  (`WardsByPlace`, first conjunct).
- `explore.rs:1614` says that `pool` merges every feature; the spread over the minutes is
  that of the first replay (`Fingerprint` leaves it out).

## 6. What is not modelled

- The import stubs, the control-flow hook and the page handling of the machine:
  what they do is the game binary's affair. zstd is good or bad.
- `layout.rs` `recover_buffer` and its helpers: the same candidates as `recover`,
  over a buffer in place of words.
- `fields.rs`: the classification of a word (`classify`), strings, and the
  generated text. They read a profile once and keep nothing.
- How alike two fingerprints are (`explore.rs` `similarity`): a number without
  state; `PatchMatch` is right for any.
- How `solve_waypoints` chooses its class and its anchors: `ByteChain` is over every
  anchor and any traffic.
- Field offsets of the packet handlers: data; what a shape is for is in
  `ChunkDecode`.
- The patch archive, JSON output, printing and argument parsing: one pass
  without state.
- Crashes: nothing is written in place.
- Paths of more than one stretch (`packet.rs:176-187`) and a roster index beyond the
  metadata (`replay_info.rs:131`): `OutputJson` has single stretches and whole rosters.
- What the first format's guest writes beside the fields it is asked for, the inclusive
  end of the hook's range, and that a call has no limit (`unicorn.rs:138-180`).
- Where the guest leaves the cursor of its stream (`decoder.rs:372`): a call may end with
  any status. An object whose class cannot be read (`decoder.rs:349`).
- The `HeroReincarnate` seed of the roster (`game.rs:212`): a respawn names one that has
  died.

## 7. Order of the work and what is left

Built in this order: framing, chunk walk, machine and decoder, parallel decode,
game assembly, field profiles, exploration, the solvers, the first format, the
file's layout. Then the proofs, in a module for each part of the system:

| Proofs in | about |
|---|---|
| `BlockIteratorProofs` | `BlockIterator`, `BlockStream` |
| `TransportProofs` | `ChunkIterator`, `Transport` |
| `PacketDecoderProofs` | `Machine`, `PacketDecoder`, `NetIds` |
| `DecodeReplayProofs` | `ChunkDecode`, `DecodeReplay`, `DecodeInOrder` |
| `AssemblyProofs` | `Vision`, `Inventory`, `Wards`, `Assists`, `Positions` |
| `FileAndTotalsProofs` | `FileLayout`, `PlayerTotals` |
| `ReplayInfoProofs` | `StubEmulator`, `OutputJson`, `PathBuffer` |
| `ExplorationProofs` | `PatchMatch`, `ByteChain`, `KillerField`, `StatsMatch`, `Visibility`, `FieldProfile`, `Framing`, `EventLocked`, `Layout`, `Fingerprint`, `ArrayEntries` |

Left of the model: `recover_buffer` and the classification of words.
