------------------------------ MODULE FileLayout ------------------------------
(***************************************************************************)
(* Replay::parse of src/src/rofl/mod.rs with FileHeader::parse and         *)
(* Metadata::parse: a replay file is read from both ends, the header from  *)
(* the front, the metadata from a length in the file's last bytes, and     *)
(* what is between them is the signature and the chunks.                   *)
(*                                                                         *)
(* A file is what the recorder wrote, of which the end may be missing (the *)
(* last bytes are then any number) or one part be something else.          *)
(***************************************************************************)
EXTENDS Integers, Sequences

CONSTANTS
  VERSION_OFFSET, SIGNATURE_SIZE, METADATA_LEN_TRAILER_SIZE,
  VersionLens, ChunkBytes, JsonBytes,   \* sizes there are
  MaxTrailer,                           \* bound: what four bytes may say
  Roles,                                \* the roles in their usual order
  MaxPlayers                      \* bound: players in statsJson

ASSUME FileAssumption ==
  /\ VERSION_OFFSET \in Nat /\ METADATA_LEN_TRAILER_SIZE \in 1 .. VERSION_OFFSET /\ SIGNATURE_SIZE \in Nat
  /\ VersionLens \cup ChunkBytes \cup JsonBytes \subseteq Nat /\ 0 \notin JsonBytes
  /\ MaxTrailer \in Nat /\ JsonBytes \subseteq 0 .. MaxTrailer
  /\ Len(Roles) > 0 /\ MaxPlayers \in Nat

VARIABLES
  written,    \* the sizes of the version, the chunks and the metadata JSON
  left,       \* how many bytes there are of the file
  damaged,    \* the part that is something else, "nothing" if none
  trailer,    \* what the last bytes say
  stats,      \* the entries of statsJson
  parse_at,   \* "header", "tail", "metadata", then "ok" or the error
  replay      \* the Replay so far

filePart == <<written, left, damaged, trailer, stats, parse_at, replay>>

NoReplay == [chunks_start |-> 0, meta |-> <<0, 0>>, chunks_end |-> 0,
             players |-> <<>>, winning_team |-> "Blue"]

Whole(w) == VERSION_OFFSET + w.version + w.chunks + SIGNATURE_SIZE + w.json + METADATA_LEN_TRAILER_SIZE

FileStart == stats = <<>> /\ parse_at = "header" /\ replay = NoReplay

FileInit ==
  /\ FileStart
  /\ written \in [version : VersionLens, chunks : ChunkBytes, json : JsonBytes]
  /\ left \in 0 .. Whole(written)
  /\ trailer \in IF left = Whole(written) THEN {written.json} ELSE 0 .. MaxTrailer
  /\ damaged \in {"nothing", "magic", "version", "json", "keys"}

-----------------------------------------------------------------------------
Fails(error) == parse_at' = error /\ UNCHANGED <<written, left, damaged, trailer, stats, replay>>
Goes(where)  == parse_at' = where /\ UNCHANGED <<written, left, damaged, trailer>>

version_end == VERSION_OFFSET + written.version

ParseHeader ==
  /\ parse_at = "header"
  /\ IF left < VERSION_OFFSET THEN Fails("FileTooShort")
     ELSE IF damaged = "magic" THEN Fails("InvalidMagic")
     ELSE IF left < version_end THEN Fails("FileTooShort")
     ELSE IF damaged = "version" THEN Fails("VersionNotUtf8")
     ELSE Goes("tail") /\ replay' = [replay EXCEPT !.chunks_start = version_end] /\ UNCHANGED stats

meta_len_off == left - METADATA_LEN_TRAILER_SIZE

need == replay.chunks_start + SIGNATURE_SIZE + trailer + METADATA_LEN_TRAILER_SIZE

Mutant_meta_start_from_the_end == left - trailer

meta_start == meta_len_off - trailer

ParseTail ==
  /\ parse_at = "tail"
  /\ IF left < need THEN Fails("FileTooShort")
     ELSE /\ Goes("metadata") /\ UNCHANGED stats
          /\ replay' = [replay EXCEPT !.meta = <<meta_start, meta_len_off>>,
                                      !.chunks_end = meta_start - SIGNATURE_SIZE]

\* Only all of the JSON is JSON with the keys.
IsTheJson(bytes) ==
  /\ damaged \notin {"json", "keys"} /\ bytes[2] - bytes[1] = written.json
  /\ bytes[2] = Whole(written) - METADATA_LEN_TRAILER_SIZE

RoleFromIndex(i) == Roles[((i - 1) % Len(Roles)) + 1]

Player(i, entry) ==
  [team |-> IF entry.TEAM = "200" THEN "Red" ELSE "Blue",
   win  |-> entry.WIN = "Win",
   role |-> IF entry.INDIVIDUAL_POSITION \in DOMAIN Roles THEN Roles[entry.INDIVIDUAL_POSITION]
            ELSE RoleFromIndex(i)]

OtherTeam(team) == IF team = "Blue" THEN "Red" ELSE "Blue"

\* The first player tells.
Winning(players) ==
  IF players = <<>> THEN "Blue"
  ELSE IF players[1].win THEN players[1].team ELSE OtherTeam(players[1].team)

ParseMetadata(entries) ==
  /\ parse_at = "metadata"
  /\ IF ~ IsTheJson(replay.meta)
     THEN Fails(IF damaged = "keys" THEN "MetadataMissingKey" ELSE "MetadataNotJson")
     ELSE LET players == [i \in DOMAIN entries |-> Player(i, entries[i])] IN
          /\ Goes("ok") /\ stats' = entries
          /\ replay' = [replay EXCEPT !.players = players, !.winning_team = Winning(players)]

\* A key may be missing or hold anything.
Entries == [TEAM : {"100", "200", "?"}, WIN : {"Win", "Fail"}, INDIVIDUAL_POSITION : 0 .. Len(Roles)]

FileNext ==
  \/ ParseHeader \/ ParseTail
  \/ \E n \in 0 .. MaxPlayers : \E entries \in [1 .. n -> Entries] : ParseMetadata(entries)

FileSpec == FileInit /\ [][FileNext]_filePart

-----------------------------------------------------------------------------
Parsed == parse_at \notin {"header", "tail", "metadata"}

\* A file is read if and only if it is whole and sound: one cut short is refused
\* wherever it was cut and whatever number its last bytes are.  Then the four parts
\* are those the recorder wrote, one after the other up to the end; the winner is the
\* team whose players won, if statsJson names all teams and one of them as winner
\* (rofl/mod.rs:47-89, header.rs:38-76, metadata.rs:55-137).
ReadWholeOrNot ==
  Parsed =>
    /\ parse_at = "ok" <=> left = Whole(written) /\ damaged = "nothing"
    /\ parse_at = "ok" =>
         /\ replay.chunks_end - replay.chunks_start = written.chunks
         /\ replay.meta[1] - replay.chunks_end = SIGNATURE_SIZE
         /\ replay.meta[2] - replay.meta[1] = written.json
         /\ \A team \in {"100", "200"} :
              /\ stats # <<>>
              /\ \A i \in DOMAIN stats : stats[i].TEAM # "?" /\ (stats[i].WIN = "Win" <=> stats[i].TEAM = team)
              => replay.winning_team = IF team = "100" THEN "Blue" ELSE "Red"
=============================================================================
