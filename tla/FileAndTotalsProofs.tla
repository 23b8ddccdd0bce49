------------------------- MODULE FileAndTotalsProofs -------------------------
(***************************************************************************)
(* For all sizes of the parts, whatever the last bytes of a damaged file   *)
(* say: Replay::parse of src/src/rofl/mod.rs reads a file if and only if   *)
(* it is whole and sound, and divides it as it was written.                *)
(*                                                                         *)
(* For any number of players and whatever happens to them: the totals that *)
(* assemble of src/src/game.rs makes are the players' own, or self_check   *)
(* sees by the file's own record that they are not.                        *)
(***************************************************************************)
EXTENDS FileLayout, PlayerTotals, WellFoundedInduction, TLAPS

Sizes == [version : VersionLens, chunks : ChunkBytes, json : JsonBytes]

\* What a file can be, which no step changes.
IsAFile ==
  /\ written \in Sizes
  /\ left \in 0 .. Whole(written) /\ trailer \in 0 .. MaxTrailer
  /\ left = Whole(written) => trailer = written.json
  /\ damaged \in {"nothing", "magic", "version", "json", "keys"}

\* What has been read of it by each step.
HeaderRead ==
  /\ damaged \notin {"magic", "version"} /\ left >= version_end
  /\ replay.chunks_start = version_end

TailRead ==
  /\ HeaderRead
  /\ left >= need
  /\ replay.meta = <<meta_start, meta_len_off>>
  /\ replay.chunks_end = meta_start - SIGNATURE_SIZE

Errors == {"FileTooShort", "InvalidMagic", "VersionNotUtf8", "MetadataNotJson", "MetadataMissingKey"}

Unsound == left < Whole(written) \/ damaged # "nothing"

IsReplay(r) ==
  r = [chunks_start |-> r.chunks_start, meta |-> r.meta, chunks_end |-> r.chunks_end,
       players |-> r.players, winning_team |-> r.winning_team]

\* The inductive invariant: what has been checked of the file by each step, and
\* that an error had its reason in the file.
ParseInv ==
  /\ IsAFile /\ IsReplay(replay) /\ stats \in Seq(Entries)
  /\ parse_at \in {"header", "tail", "metadata", "ok"} \cup Errors
  /\ parse_at = "tail" => HeaderRead
  /\ parse_at = "metadata" => TailRead
  /\ parse_at = "ok" => /\ TailRead /\ IsTheJson(replay.meta)
                        /\ replay.players = [i \in DOMAIN stats |-> Player(i, stats[i])]
                        /\ replay.winning_team = Winning(replay.players)
  /\ parse_at \in Errors => Unsound

-----------------------------------------------------------------------------
\* All sizes are numbers.
LEMMA SizesAreNumbers ==
  ASSUME IsAFile
  PROVE  /\ VERSION_OFFSET \in Nat /\ SIGNATURE_SIZE \in Nat /\ METADATA_LEN_TRAILER_SIZE \in Nat
         /\ written.version \in Nat /\ written.chunks \in Nat /\ written.json \in Nat
         /\ left \in Nat /\ trailer \in Nat
         /\ Whole(written) \in Nat /\ left <= Whole(written)
         /\ Whole(written) = VERSION_OFFSET + written.version + written.chunks + SIGNATURE_SIZE
                               + written.json + METADATA_LEN_TRAILER_SIZE
         /\ version_end \in Nat /\ VERSION_OFFSET <= version_end /\ version_end <= Whole(written)
<1>1. /\ SIGNATURE_SIZE \in Nat /\ MaxTrailer \in Nat /\ METADATA_LEN_TRAILER_SIZE \in Nat
      /\ VersionLens \subseteq Nat /\ ChunkBytes \subseteq Nat /\ JsonBytes \subseteq Nat
  BY FileAssumption
<1>2. VERSION_OFFSET \in Nat
  BY FileAssumption
<1>3. /\ written.version \in Nat /\ written.chunks \in Nat /\ written.json \in Nat
  BY <1>1 DEF IsAFile, Sizes
<1>4. left \in Nat /\ trailer \in Nat
  BY <1>1, <1>2, <1>3 DEF IsAFile, Whole
<1>5. Whole(written) \in Nat /\ version_end \in Nat
  BY <1>1, <1>2, <1>3 DEF Whole, version_end
<1>6. left <= Whole(written)
  BY <1>5 DEF IsAFile
<1>7. VERSION_OFFSET <= version_end /\ version_end <= Whole(written)
  BY <1>1, <1>2, <1>3 DEF Whole, version_end
<1> QED
  BY <1>1, <1>2, <1>3, <1>4, <1>5, <1>6, <1>7 DEF Whole

\* Metadata of the whole length that ends where the recorder's ended is the whole of it.
LEMMA OnlyTheWholeIsJson ==
  ASSUME IsAFile, TailRead
  PROVE  IsTheJson(replay.meta) <=> ~ Unsound
<1>1. replay.meta[1] = left - METADATA_LEN_TRAILER_SIZE - trailer
      /\ replay.meta[2] = left - METADATA_LEN_TRAILER_SIZE
  BY DEF TailRead, meta_start, meta_len_off
<1>2. damaged \notin {"magic", "version"}
  BY DEF TailRead, HeaderRead
<1>3. ASSUME IsTheJson(replay.meta) PROVE ~ Unsound
  <2>1. left = Whole(written)
    BY <1>1, <1>3, SizesAreNumbers DEF IsTheJson
  <2>2. damaged = "nothing"
    BY <1>2, <1>3 DEF IsAFile, IsTheJson
  <2> QED
    BY <2>1, <2>2, SizesAreNumbers DEF Unsound
<1>4. ASSUME ~ Unsound PROVE IsTheJson(replay.meta)
  <2>1. left = Whole(written) /\ damaged = "nothing"
    BY <1>4, SizesAreNumbers DEF Unsound
  <2>2. trailer = written.json
    BY <2>1 DEF IsAFile
  <2> QED
    BY <1>1, <2>1, <2>2, SizesAreNumbers DEF IsTheJson
<1> QED
  BY <1>3, <1>4

\* A file that has no room for what its end announces is not the one written.
LEMMA TooShortIsUnsound ==
  ASSUME IsAFile, HeaderRead, left < need
  PROVE  Unsound
<1>1. left < VERSION_OFFSET + written.version + SIGNATURE_SIZE + trailer + METADATA_LEN_TRAILER_SIZE
  BY DEF HeaderRead, need, version_end
<1>2. CASE left = Whole(written)
  <2>1. trailer = written.json
    BY <1>2 DEF IsAFile
  <2> QED
    BY <1>1, <1>2, <2>1, SizesAreNumbers
<1>3. CASE left # Whole(written)
  BY <1>3, SizesAreNumbers DEF Unsound
<1> QED
  BY <1>2, <1>3

\* The parts of a sound file are the written ones.
LEMMA PartsAreTheWritten ==
  ASSUME IsAFile, TailRead, ~ Unsound
  PROVE  /\ left = Whole(written) /\ damaged = "nothing"
         /\ replay.chunks_end - replay.chunks_start = written.chunks
         /\ replay.meta[1] - replay.chunks_end = SIGNATURE_SIZE
         /\ replay.meta[2] - replay.meta[1] = written.json
<1>1. left = Whole(written) /\ damaged = "nothing"
  BY SizesAreNumbers DEF Unsound
<1>2. trailer = written.json
  BY <1>1 DEF IsAFile
<1>3. /\ replay.chunks_start = VERSION_OFFSET + written.version
      /\ replay.chunks_end = left - METADATA_LEN_TRAILER_SIZE - trailer - SIGNATURE_SIZE
      /\ replay.meta[1] = left - METADATA_LEN_TRAILER_SIZE - trailer
      /\ replay.meta[2] = left - METADATA_LEN_TRAILER_SIZE
  BY DEF TailRead, HeaderRead, version_end, meta_start, meta_len_off
<1>4. replay.meta[2] - replay.meta[1] = written.json
  BY <1>1, <1>2, <1>3, SizesAreNumbers
<1>5. replay.meta[1] - replay.chunks_end = SIGNATURE_SIZE
  BY <1>1, <1>3, SizesAreNumbers
<1>6. replay.chunks_end - replay.chunks_start = written.chunks
  <2> DEFINE w == Whole(written)
  <2>1. w = VERSION_OFFSET + written.version + written.chunks + SIGNATURE_SIZE
              + written.json + METADATA_LEN_TRAILER_SIZE
    BY DEF Whole
  <2>2. /\ replay.chunks_end = w - METADATA_LEN_TRAILER_SIZE - written.json - SIGNATURE_SIZE
        /\ replay.chunks_start = VERSION_OFFSET + written.version
    BY <1>1, <1>2, <1>3
  <2> QED
    BY <2>1, <2>2, SizesAreNumbers
<1> QED
  BY <1>1, <1>4, <1>5, <1>6

LEMMA InitParse == FileInit => ParseInv
<1> SUFFICES ASSUME FileInit PROVE ParseInv
  OBVIOUS
<1>1. IsAFile
  <2>1. written \in Sizes /\ left \in 0 .. Whole(written)
    BY DEF FileInit, Sizes
  <2>2. CASE left = Whole(written)
    <3>1. trailer = written.json
      BY <2>2 DEF FileInit
    <3>2. trailer \in 0 .. MaxTrailer
      BY <2>1, <3>1, FileAssumption DEF Sizes
    <3> QED
      BY <2>1, <2>2, <3>1, <3>2 DEF FileInit, IsAFile
  <2>3. CASE left # Whole(written)
    BY <2>1, <2>3 DEF FileInit, IsAFile
  <2> QED
    BY <2>2, <2>3
<1> QED
  BY <1>1 DEF FileInit, FileStart, ParseInv, IsReplay, NoReplay, Errors

LEMMA HeaderKeeps == ParseInv /\ ParseHeader => ParseInv'
<1> SUFFICES ASSUME ParseInv, ParseHeader PROVE ParseInv'
  OBVIOUS
<1> USE DEF ParseInv
<1>1. UNCHANGED <<written, left, damaged, trailer, stats>>
  BY DEF ParseHeader, Fails, Goes
<1>2. IsAFile'
  BY <1>1 DEF IsAFile, Whole
<1>3. CASE UNCHANGED replay /\ parse_at' \in Errors
  <2>1. left < VERSION_OFFSET \/ damaged = "magic" \/ left < version_end \/ damaged = "version"
    BY <1>3 DEF ParseHeader, Goes, Errors
  <2>2. Unsound
    BY <2>1, SizesAreNumbers DEF Unsound
  <2>3. Unsound'
    BY <1>1, <2>2 DEF Unsound, Whole
  <2> QED
    BY <1>1, <1>2, <1>3, <2>3 DEF Errors
<1>4. CASE parse_at' = "tail" /\ replay' = [replay EXCEPT !.chunks_start = version_end]
  <2>1. IsReplay(replay') /\ replay'.chunks_start = version_end
    BY <1>4 DEF IsReplay
  <2>2. damaged \notin {"magic", "version"} /\ left >= version_end
    BY <1>4, SizesAreNumbers DEF ParseHeader, Fails, version_end
  <2>3. HeaderRead'
    BY <1>1, <2>1, <2>2 DEF HeaderRead, version_end
  <2> QED
    BY <1>1, <1>2, <1>4, <2>1, <2>3 DEF Errors
<1> QED
  BY <1>3, <1>4 DEF ParseHeader, Fails, Goes, Errors

LEMMA TailKeeps == ParseInv /\ ParseTail => ParseInv'
<1> SUFFICES ASSUME ParseInv, ParseTail PROVE ParseInv'
  OBVIOUS
<1> USE DEF ParseInv
<1>1. UNCHANGED <<written, left, damaged, trailer, stats>> /\ HeaderRead
  BY DEF ParseTail, Fails, Goes
<1>2. IsAFile'
  BY <1>1 DEF IsAFile, Whole
<1>3. CASE left < need /\ UNCHANGED replay /\ parse_at' = "FileTooShort"
  <2>1. Unsound
    BY <1>1, <1>3, TooShortIsUnsound
  <2>2. Unsound'
    BY <1>1, <2>1 DEF Unsound, Whole
  <2> QED
    BY <1>1, <1>2, <1>3, <2>2 DEF Errors
<1>4. CASE /\ ~ left < need /\ parse_at' = "metadata"
           /\ replay' = [replay EXCEPT !.meta = <<meta_start, meta_len_off>>,
                                       !.chunks_end = meta_start - SIGNATURE_SIZE]
  <2>1. /\ IsReplay(replay') /\ replay'.chunks_start = replay.chunks_start
        /\ replay'.meta = <<meta_start, meta_len_off>>
        /\ replay'.chunks_end = meta_start - SIGNATURE_SIZE
    BY <1>4 DEF IsReplay
  <2>2. HeaderRead'
    BY <1>1, <2>1 DEF HeaderRead, version_end
  <2>3. left >= need
    BY <1>1, <1>4, SizesAreNumbers DEF need, HeaderRead, version_end
  <2>4. need' = need /\ meta_start' = meta_start /\ meta_len_off' = meta_len_off
    BY <1>1, <2>1 DEF need, meta_start, meta_len_off
  <2>5. TailRead'
    BY <1>1, <2>1, <2>2, <2>3, <2>4 DEF TailRead
  <2> QED
    BY <1>1, <1>2, <1>4, <2>1, <2>5 DEF Errors
<1> QED
  BY <1>3, <1>4 DEF ParseTail, Fails, Goes

LEMMA MetadataKeeps ==
  ASSUME ParseInv, NEW n \in 0 .. MaxPlayers, NEW entries \in [1 .. n -> Entries], ParseMetadata(entries)
  PROVE  ParseInv'
<1> USE DEF ParseInv
<1>1. UNCHANGED <<written, left, damaged, trailer>> /\ TailRead
  BY DEF ParseMetadata, Fails, Goes
<1>2. IsAFile'
  BY <1>1 DEF IsAFile, Whole
<1>3. CASE ~ IsTheJson(replay.meta)
  <2>1. UNCHANGED <<replay, stats>> /\ parse_at' \in Errors
    BY <1>3 DEF ParseMetadata, Fails, Errors
  <2>2. Unsound
    BY <1>1, <1>3, OnlyTheWholeIsJson
  <2>3. Unsound'
    BY <1>1, <2>2 DEF Unsound, Whole
  <2> QED
    BY <1>1, <1>2, <2>1, <2>3 DEF Errors
<1>4. CASE IsTheJson(replay.meta)
  <2> DEFINE players == [i \in DOMAIN entries |-> Player(i, entries[i])]
  <2>1. /\ parse_at' = "ok" /\ stats' = entries
        /\ replay' = [replay EXCEPT !.players = players, !.winning_team = Winning(players)]
    BY <1>4 DEF ParseMetadata, Goes
  <2>2. /\ IsReplay(replay') /\ replay'.chunks_start = replay.chunks_start
        /\ replay'.meta = replay.meta /\ replay'.chunks_end = replay.chunks_end
        /\ replay'.players = players /\ replay'.winning_team = Winning(players)
    BY <2>1 DEF IsReplay
  <2>3. TailRead'
    BY <1>1, <2>2 DEF TailRead, HeaderRead, need, meta_start, meta_len_off, version_end
  <2>4. IsTheJson(replay.meta)'
    BY <1>1, <1>4, <2>2 DEF IsTheJson, Whole
  <2>5. replay'.players = [i \in DOMAIN stats' |-> Player(i, stats'[i])]
    BY <2>1, <2>2
  <2>6. stats' \in Seq(Entries)
    BY <2>1
  <2> QED
    BY <1>2, <2>1, <2>2, <2>3, <2>4, <2>5, <2>6 DEF Errors
<1> QED
  BY <1>3, <1>4

LEMMA ParseKeeps == ParseInv /\ [FileNext]_filePart => ParseInv'
<1> SUFFICES ASSUME ParseInv, [FileNext]_filePart PROVE ParseInv'
  OBVIOUS
<1>1. CASE ParseHeader
  BY <1>1, HeaderKeeps
<1>2. CASE ParseTail
  BY <1>2, TailKeeps
<1>3. CASE \E n \in 0 .. MaxPlayers : \E entries \in [1 .. n -> Entries] : ParseMetadata(entries)
  BY <1>3, MetadataKeeps
<1>4. CASE UNCHANGED filePart
  BY <1>4 DEF filePart, ParseInv, IsAFile, IsReplay, TailRead, HeaderRead, Unsound, need, meta_start,
              meta_len_off, version_end, IsTheJson, Whole
<1> QED
  BY <1>1, <1>2, <1>3, <1>4 DEF FileNext

\* The winner is told by the first player's team and result.
LEMMA FirstPlayerTells ==
  ASSUME stats \in Seq(Entries), stats # <<>>, NEW team \in {"100", "200"},
         \A i \in DOMAIN stats : stats[i].TEAM # "?" /\ (stats[i].WIN = "Win" <=> stats[i].TEAM = team)
  PROVE  Winning([i \in DOMAIN stats |-> Player(i, stats[i])]) = IF team = "100" THEN "Blue" ELSE "Red"
<1> DEFINE players == [i \in DOMAIN stats |-> Player(i, stats[i])]
<1>1. 1 \in DOMAIN stats /\ stats[1] \in Entries
  OBVIOUS
<1>2. players # <<>> /\ players[1] = Player(1, stats[1])
  BY <1>1
<1>3. /\ players[1].team = IF stats[1].TEAM = "200" THEN "Red" ELSE "Blue"
      /\ players[1].win = (stats[1].WIN = "Win")
  BY <1>2 DEF Player
<1>4. Winning(players) = IF players[1].win THEN players[1].team ELSE OtherTeam(players[1].team)
  BY <1>2 DEF Winning
<1>5. stats[1].TEAM \in {"100", "200"}
  BY <1>1 DEF Entries
<1>6. CASE stats[1].TEAM = team
  BY <1>1, <1>3, <1>4, <1>6
<1>7. CASE stats[1].TEAM # team
  BY <1>1, <1>3, <1>4, <1>5, <1>7 DEF OtherTeam
<1> QED
  BY <1>6, <1>7

LEMMA ParseInvReads == ParseInv => ReadWholeOrNot
<1> SUFFICES ASSUME ParseInv, Parsed PROVE ReadWholeOrNot
  BY DEF ReadWholeOrNot
<1> USE DEF ParseInv
<1>1. CASE parse_at \in Errors
  <2>1. parse_at # "ok"
    BY <1>1 DEF Errors
  <2>2. ~ (left = Whole(written) /\ damaged = "nothing")
    BY <1>1, SizesAreNumbers DEF Unsound, Whole
  <2> QED
    BY <2>1, <2>2 DEF ReadWholeOrNot
<1>2. CASE parse_at = "ok"
  <2>1. ~ Unsound
    BY <1>2, OnlyTheWholeIsJson
  <2>2. /\ left = Whole(written) /\ damaged = "nothing"
        /\ replay.chunks_end - replay.chunks_start = written.chunks
        /\ replay.meta[1] - replay.chunks_end = SIGNATURE_SIZE
        /\ replay.meta[2] - replay.meta[1] = written.json
    BY <1>2, <2>1, PartsAreTheWritten
  <2>3. \A team \in {"100", "200"} :
          /\ stats # <<>>
          /\ \A i \in DOMAIN stats : stats[i].TEAM # "?" /\ (stats[i].WIN = "Win" <=> stats[i].TEAM = team)
          => replay.winning_team = IF team = "100" THEN "Blue" ELSE "Red"
    BY <1>2, FirstPlayerTells
  <2> QED
    BY <1>2, <2>2, <2>3 DEF ReadWholeOrNot
<1> QED
  BY <1>1, <1>2 DEF Parsed

\* For any sizes of the parts: a file is read if and only if it is whole and sound,
\* its parts are those the recorder wrote, and the winner is the team whose players
\* won (rofl/mod.rs:47-89, header.rs:38-76, metadata.rs:55-137).
THEOREM FilesAreReadWhole == FileSpec => []ReadWholeOrNot
<1>1. FileInit => ParseInv
  BY InitParse
<1>2. ParseInv /\ [FileNext]_filePart => ParseInv'
  BY ParseKeeps
<1>3. ParseInv => ReadWholeOrNot
  BY ParseInvReads
<1> QED
  BY <1>1, <1>2, <1>3, PTL DEF FileSpec

-----------------------------------------------------------------------------
(* Totals                                                                  *)

Totals == [kda : Nat \X Nat, kills : Nat, level : Nat, damage : Nat, wards : Nat]
TotalsTables == [ChampionIndex -> Totals]

TotalsPackets ==
  [class : {"Kda"}, hero : ChampionIndex, kda : Nat \X Nat]
    \cup [class : {"BuyItem"}, hero : ChampionIndex]
    \cup [class : {"HeroDie"}, victim : ChampionIndex, killer : AnyUnit]
    \cup [class : {"LevelUp"}, unit : AnyUnit, level : Nat]
    \cup [class : {"Damage"}, source : AnyUnit, target : AnyUnit, amount : {Amount}]
    \cup [class : {"Ward"}, owner : AnyUnit]

\* The player that the i-th of a roster from `first` on really is.
Own(facts, first, i) == IF i + first - 1 \in ChampionIndex THEN facts[i + first - 1] ELSE Nothing

\* By a roster from `first` on, every player is given what is that champion's, and
\* no damage but that.
GivesOwn(table, facts, first) ==
  \A i \in ChampionIndex :
    /\ table[i].kda = Own(facts, first, i).kda /\ table[i].kills = Own(facts, first, i).kills
    /\ table[i].level = Own(facts, first, i).level /\ table[i].wards = Own(facts, first, i).wards
    /\ table[i].damage <= Own(facts, first, i).damage
    /\ first = 1 => table[i].damage = Own(facts, first, i).damage

TotalsTyped == record \in TotalsTables /\ typed \in Seq(TotalsPackets)

DamageIsWhole == \A i \in ChampionIndex : record[i].damage = 0 \/ record[i].damage >= Amount

\* What assemble would make of the packets, by a roster that begins no later than the
\* first champion they name.
TallyIsOwn ==
  \A first \in ChampionIndex : (\A h \in HeroesSeen : first <= h) =>
    Tally(first, typed) \in TotalsTables /\ GivesOwn(Tally(first, typed), record, first)

NoRosterNoTotals == Tally(NoRoster, typed) = [i \in ChampionIndex |-> Nothing]

TotalsInv == TotalsTyped /\ DamageIsWhole /\ TallyIsOwn /\ NoRosterNoTotals /\ TotalsAreOwn

\* A set of numbers that is not empty has a least one.
LEMMA LeastExists ==
  ASSUME NEW S \in SUBSET Nat, S # {}
  PROVE  \E m \in S : \A n \in S : m <= n
<1>1. \E x \in S : \A y \in S : ~ (<<y, x>> \in OpToRel(<, Nat))
  BY NatLessThanWellFounded, WFMin
<1>2. PICK x \in S : \A y \in S : ~ (<<y, x>> \in OpToRel(<, Nat))
  BY <1>1
<1>3. \A y \in S : ~ (y < x)
  BY <1>2 DEF OpToRel
<1> QED
  BY <1>3

LEMMA UpFromZero ==
  ASSUME NEW S \in SUBSET Nat, 0 \in S, \A m \in S : m + 1 \in S
  PROVE  S = Nat
<1> SUFFICES ASSUME NEW z \in Nat \ S PROVE FALSE
  OBVIOUS
<1> DEFINE T == Nat \ S
<1>1. PICK x \in T : \A y \in T : x <= y
  <2>1. T \in SUBSET Nat /\ T # {}
    OBVIOUS
  <2> HIDE DEF T
  <2> QED
    BY <2>1, LeastExists
<1>2. x \in Nat /\ x \notin S /\ x # 0
  OBVIOUS
<1>3. x - 1 \in Nat /\ x - 1 < x /\ (x - 1) + 1 = x
  BY <1>2
<1>4. x - 1 \notin T
  BY <1>1, <1>2, <1>3
<1> QED
  BY <1>2, <1>3, <1>4

\* f is the tally of the first n packets, packet by packet.
Tallies(f, first, told, n) ==
  f = [k \in 0 .. n |-> IF k = 0 THEN [i \in ChampionIndex |-> Nothing]
                        ELSE Counted(first, f[k - 1], told[k])]

LEMMA TalliesGrow ==
  ASSUME NEW first, NEW told, NEW m \in Nat, NEW f, Tallies(f, first, told, m)
  PROVE  Tallies([k \in 0 .. m + 1 |-> IF k \in 0 .. m THEN f[k] ELSE Counted(first, f[m], told[m + 1])],
                 first, told, m + 1)
<1> DEFINE g == [k \in 0 .. m + 1 |-> IF k \in 0 .. m THEN f[k] ELSE Counted(first, f[m], told[m + 1])]
           none == [i \in ChampionIndex |-> Nothing]
<1>1. \A k \in 0 .. m : f[k] = IF k = 0 THEN none ELSE Counted(first, f[k - 1], told[k])
  BY DEF Tallies
<1> HIDE DEF none
<1>2. ASSUME NEW k \in 0 .. m + 1
      PROVE  g[k] = IF k = 0 THEN none ELSE Counted(first, g[k - 1], told[k])
  <2>1. CASE k \in 0 .. m
    <3>1. g[k] = f[k] /\ (k # 0 => g[k - 1] = f[k - 1])
      BY <2>1
    <3> QED
      BY <1>1, <2>1, <3>1
  <2>2. CASE k = m + 1
    <3>1. g[k] = Counted(first, f[m], told[m + 1]) /\ g[k - 1] = f[m] /\ k # 0
      BY <2>2
    <3> QED
      BY <2>2, <3>1
  <2> QED
    BY <2>1, <2>2
<1>3. g = [k \in 0 .. m + 1 |-> IF k = 0 THEN none ELSE Counted(first, g[k - 1], told[k])]
  BY <1>2
<1> QED
  BY <1>3 DEF Tallies, none

LEMMA TalliesExist ==
  ASSUME NEW first, NEW told, NEW n \in Nat
  PROVE  \E f : Tallies(f, first, told, n)
<1> DEFINE S == {m \in Nat : \E f : Tallies(f, first, told, m)}
<1>1. 0 \in S
  <2> DEFINE g == [k \in 0 .. 0 |-> [i \in ChampionIndex |-> Nothing]]
  <2>1. Tallies(g, first, told, 0)
    BY DEF Tallies
  <2> QED
    BY <2>1
<1>2. ASSUME NEW m \in S PROVE m + 1 \in S
  <2>1. PICK f : Tallies(f, first, told, m)
    OBVIOUS
  <2>2. \E g : Tallies(g, first, told, m + 1)
    BY <2>1, TalliesGrow
  <2> QED
    BY <2>2
<1>3. S \in SUBSET Nat
  OBVIOUS
<1> HIDE DEF S
<1>4. S = Nat
  BY <1>1, <1>2, <1>3, UpFromZero
<1> QED
  BY <1>4 DEF S

LEMMA TalliesAgree ==
  ASSUME NEW first, NEW told, NEW more, NEW n \in Nat, NEW m \in Nat, n <= m,
         \A k \in 1 .. n : told[k] = more[k],
         NEW f, Tallies(f, first, told, n), NEW g, Tallies(g, first, more, m)
  PROVE  f[n] = g[n]
<1> DEFINE S == {k \in Nat : k <= n => f[k] = g[k]}
<1>1. /\ \A k \in 0 .. n : f[k] = IF k = 0 THEN [i \in ChampionIndex |-> Nothing]
                                  ELSE Counted(first, f[k - 1], told[k])
      /\ \A k \in 0 .. m : g[k] = IF k = 0 THEN [i \in ChampionIndex |-> Nothing]
                                  ELSE Counted(first, g[k - 1], more[k])
  BY DEF Tallies
<1>2. 0 \in S
  BY <1>1
<1>3. ASSUME NEW k \in S PROVE k + 1 \in S
  <2> SUFFICES ASSUME k + 1 <= n PROVE f[k + 1] = g[k + 1]
    OBVIOUS
  <2>1. f[k] = g[k] /\ told[k + 1] = more[k + 1]
    OBVIOUS
  <2>2. k + 1 \in 0 .. n /\ k + 1 \in 0 .. m /\ k + 1 # 0 /\ (k + 1) - 1 = k
    OBVIOUS
  <2> QED
    BY <1>1, <2>1, <2>2
<1>4. S \in SUBSET Nat
  OBVIOUS
<1> HIDE DEF S
<1>5. S = Nat
  BY <1>2, <1>3, <1>4, UpFromZero
<1> QED
  BY <1>5 DEF S

LEMMA TallyFacts ==
  ASSUME NEW first, NEW told, Len(told) \in Nat
  PROVE  \E f : Tallies(f, first, told, Len(told)) /\ Tally(first, told) = f[Len(told)]
<1> DEFINE f == CHOOSE f : Tallies(f, first, told, Len(told))
<1>1. Tally(first, told) = f[Len(told)]
  BY DEF Tally, Tallies
<1>2. Tallies(f, first, told, Len(told))
  <2>1. \E g : Tallies(g, first, told, Len(told))
    BY TalliesExist
  <2> QED
    BY <2>1, Zenon
<1> QED
  BY <1>1, <1>2

\* The tally of no packets, and of one more.
LEMMA TallyOfNone ==
  ASSUME NEW first
  PROVE  Tally(first, <<>>) = [i \in ChampionIndex |-> Nothing]
<1>1. Len(<<>>) = 0
  OBVIOUS
<1>2. PICK f : Tallies(f, first, <<>>, 0) /\ Tally(first, <<>>) = f[0]
  BY <1>1, TallyFacts
<1> QED
  BY <1>2 DEF Tallies

LEMMA TallyOfMore ==
  ASSUME NEW first, NEW T, NEW told \in Seq(T), NEW p \in T
  PROVE  Tally(first, Append(told, p)) = Counted(first, Tally(first, told), p)
<1> DEFINE more == Append(told, p)
           n == Len(told)
<1>1. n \in Nat /\ Len(more) = n + 1 /\ more[n + 1] = p /\ \A k \in 1 .. n : told[k] = more[k]
  OBVIOUS
<1>2. PICK f : Tallies(f, first, told, n) /\ Tally(first, told) = f[n]
  BY <1>1, TallyFacts
<1>3. PICK g : Tallies(g, first, more, n + 1) /\ Tally(first, more) = g[n + 1]
  <2>1. \E g : Tallies(g, first, more, Len(more)) /\ Tally(first, more) = g[Len(more)]
    <3>1. Len(more) \in Nat
      BY <1>1
    <3> HIDE DEF more
    <3> QED
      BY <3>1, TallyFacts
  <2> HIDE DEF more
  <2> QED
    BY <1>1, <2>1
<1> HIDE DEF more, n
<1>4. f[n] = g[n]
  BY <1>1, <1>2, <1>3, TalliesAgree
<1>5. g[n + 1] = Counted(first, g[n], more[n + 1])
  <2>1. n + 1 \in 0 .. n + 1 /\ n + 1 # 0 /\ (n + 1) - 1 = n
    BY <1>1
  <2> QED
    BY <1>3, <2>1 DEF Tallies
<1>6. Tally(first, more) = Counted(first, Tally(first, told), p)
  BY <1>1, <1>2, <1>3, <1>4, <1>5
<1> QED
  BY <1>6 DEF more

\* The player an id is, by a roster from a champion on.
LEMMA IndexFacts ==
  ASSUME NEW first \in ChampionIndex, NEW id \in AnyUnit
  PROVE  /\ index(first, id) = IF id \in ChampionIndex /\ id >= first THEN id - first + 1 ELSE 0
         /\ index(first, id) \in {0} \cup ChampionIndex
         /\ \A i \in ChampionIndex : index(first, id) = i <=> id \in ChampionIndex /\ i + first - 1 = id
<1> USE TotalsAssumption DEF ChampionIndex
<1>1. first \in Nat /\ first # 0 /\ first <= NumPlayers /\ first # NoRoster
  BY DEF NoRoster
<1>2. CASE id \in ChampionIndex
  BY <1>1, <1>2 DEF index
<1>3. CASE id \notin ChampionIndex
  <2>1. id \in Nat /\ id \notin 1 .. 2 * NumPlayers
    BY <1>3 DEF AnyUnit
  <2>2. id - first + 1 \notin ChampionIndex
    BY <1>1, <2>1
  <2>3. index(first, id) = 0
    BY <2>2 DEF index
  <2> QED
    BY <1>1, <1>3, <2>3
<1> QED
  BY <1>2, <1>3

LEMMA IndexOfNone == \A id : index(NoRoster, id) = 0
BY DEF index

LEMMA NothingType == Nothing \in Totals
BY DEF Nothing, Totals

LEMMA OwnType ==
  ASSUME NEW facts \in TotalsTables, NEW first \in ChampionIndex, NEW i \in ChampionIndex
  PROVE  Own(facts, first, i) \in Totals
BY NothingType DEF Own, TotalsTables

\* What one packet adds.
LEMMA KdaCounts ==
  ASSUME NEW first, NEW T, NEW h, NEW v
  PROVE  Counted(first, T, [class |-> "Kda", hero |-> h, kda |-> v])
           = IF index(first, h) = 0 THEN T ELSE [T EXCEPT ![index(first, h)].kda = v]
BY DEF Counted, OfPlayer

LEMMA HeroDieCounts ==
  ASSUME NEW first, NEW T, NEW v, NEW k
  PROVE  Counted(first, T, [class |-> "HeroDie", victim |-> v, killer |-> k])
           = IF index(first, v) = 0 \/ index(first, k) = 0 THEN T
             ELSE [T EXCEPT ![index(first, k)].kills = @ + 1]
<1>1. PICK p : p = [class |-> "HeroDie", victim |-> v, killer |-> k]
  OBVIOUS
<1>2. p.class = "HeroDie" /\ p.victim = v /\ p.killer = k
  BY <1>1
<1> QED
  BY <1>1, <1>2, Zenon DEF Counted, OfPlayer

LEMMA BuyItemCounts ==
  ASSUME NEW first, NEW T, NEW h
  PROVE  Counted(first, T, [class |-> "BuyItem", hero |-> h]) = T
BY DEF Counted

LEMMA LevelUpCounts ==
  ASSUME NEW first, NEW T, NEW u, NEW l
  PROVE  Counted(first, T, [class |-> "LevelUp", unit |-> u, level |-> l])
           = IF index(first, u) = 0 THEN T
             ELSE [T EXCEPT ![index(first, u)].level = Higher(@, l)]
<1>1. PICK p : p = [class |-> "LevelUp", unit |-> u, level |-> l]
  OBVIOUS
<1>2. p.class = "LevelUp" /\ p.unit = u /\ p.level = l
  BY <1>1
<1> QED
  BY <1>1, <1>2, Zenon DEF Counted, OfPlayer

LEMMA DamageCounts ==
  ASSUME NEW first, NEW T, NEW s, NEW t, NEW a
  PROVE  Counted(first, T, [class |-> "Damage", source |-> s, target |-> t, amount |-> a])
           = IF index(first, s) # 0 /\ index(first, t) # 0 /\ Opponents(index(first, s), index(first, t))
             THEN [T EXCEPT ![index(first, s)].damage = @ + a] ELSE T
<1>1. PICK p : p = [class |-> "Damage", source |-> s, target |-> t, amount |-> a]
  OBVIOUS
<1>2. p.class = "Damage" /\ p.source = s /\ p.target = t /\ p.amount = a
  BY <1>1
<1> QED
  BY <1>1, <1>2, Zenon DEF Counted, CountedHit

LEMMA WardCounts ==
  ASSUME NEW first, NEW T, NEW o
  PROVE  Counted(first, T, [class |-> "Ward", owner |-> o])
           = IF index(first, o) = 0 THEN T ELSE [T EXCEPT ![index(first, o)].wards = @ + 1]
<1>1. PICK p : p = [class |-> "Ward", owner |-> o]
  OBVIOUS
<1>2. p.class = "Ward" /\ p.owner = o
  BY <1>1
<1> QED
  BY <1>1, <1>2, Zenon DEF Counted, OfPlayer

\* By no roster nothing is counted.
LEMMA NoRosterCounts ==
  ASSUME NEW T, NEW p \in TotalsPackets
  PROVE  Counted(NoRoster, T, p) = T
BY IndexOfNone DEF Counted, OfPlayer, CountedHit, TotalsPackets

\* The champions that packets name, of one more.
LEMMA HeroesOfMore ==
  ASSUME TotalsTyped
  PROVE  HeroesSeen \subseteq ChampionIndex
<1>1. \A p \in ToSet(typed) : p \in TotalsPackets
  BY DEF TotalsTyped, ToSet
<1>2. \A p \in TotalsPackets : p.class \in {"Kda", "BuyItem"} => p.hero \in ChampionIndex
  BY DEF TotalsPackets
<1>3. \A p \in TotalsPackets : p.class = "HeroDie" => p.victim \in ChampionIndex
  BY DEF TotalsPackets
<1> QED
  BY <1>1, <1>2, <1>3 DEF HeroesSeen

\* What is told keeps the invariant if its packets give the champions what it says.
LEMMA TellKeeps ==
  ASSUME TotalsInv, NEW facts \in TotalsTables, NEW told \in Seq(TotalsPackets), Tell(facts, told),
         \A i \in ChampionIndex : facts[i].damage = 0 \/ facts[i].damage >= Amount,
         Tally(NoRoster, typed \o told) = [i \in ChampionIndex |-> Nothing],
         \A first \in ChampionIndex : \A table \in TotalsTables :
           /\ Tally(first, typed) = table /\ GivesOwn(table, record, first)
           /\ \A p \in ToSet(told) : p.class = "HeroDie" => first <= p.victim
           => /\ Tally(first, typed \o told) \in TotalsTables
              /\ GivesOwn(Tally(first, typed \o told), facts, first)
  PROVE  TotalsInv'
<1>1. record' = facts /\ typed' = typed \o told /\ totals' = totals /\ totals = <<>>
  BY DEF Tell
<1>2. typed \in Seq(TotalsPackets)
  BY DEF TotalsInv, TotalsTyped
<1>3. TotalsTyped'
  BY <1>1, <1>2 DEF TotalsTyped
<1>4. DamageIsWhole'
  BY <1>1 DEF DamageIsWhole
<1>5. NoRosterNoTotals'
  BY <1>1 DEF NoRosterNoTotals
<1>6. ToSet(typed') = ToSet(typed) \cup ToSet(told)
  <2>1. /\ Len(typed') = Len(typed) + Len(told) /\ Len(typed) \in Nat /\ Len(told) \in Nat
        /\ \A i \in 1 .. Len(typed) : typed'[i] = typed[i]
        /\ \A i \in 1 .. Len(told) : typed'[i + Len(typed)] = told[i]
        /\ DOMAIN typed = 1 .. Len(typed) /\ DOMAIN told = 1 .. Len(told) /\ DOMAIN typed' = 1 .. Len(typed')
    BY <1>1, <1>2
  <2>2. ASSUME NEW i \in 1 .. Len(typed') PROVE typed'[i] \in ToSet(typed) \cup ToSet(told)
    <3>1. CASE i <= Len(typed)
      BY <2>1, <3>1 DEF ToSet
    <3>2. CASE i > Len(typed)
      <4>1. i - Len(typed) \in 1 .. Len(told) /\ (i - Len(typed)) + Len(typed) = i
        BY <2>1, <3>2
      <4>2. typed'[i] = told[i - Len(typed)]
        BY <2>1, <4>1
      <4> QED
        BY <2>1, <4>1, <4>2 DEF ToSet
    <3> QED
      BY <2>1, <3>1, <3>2
  <2>3. \A i \in 1 .. Len(typed) : typed[i] \in ToSet(typed')
    BY <2>1 DEF ToSet
  <2>4. \A i \in 1 .. Len(told) : told[i] \in ToSet(typed')
    <3> TAKE i \in 1 .. Len(told)
    <3>1. i + Len(typed) \in DOMAIN typed' /\ typed'[i + Len(typed)] = told[i]
      BY <2>1
    <3> QED
      BY <3>1 DEF ToSet
  <2> QED
    BY <2>1, <2>2, <2>3, <2>4 DEF ToSet
<1>7. HeroesSeen \subseteq HeroesSeen' /\ \A p \in ToSet(told) : p.class = "HeroDie" => p.victim \in HeroesSeen'
  BY <1>6 DEF HeroesSeen
<1>8. TallyIsOwn'
  <2> SUFFICES ASSUME NEW first \in ChampionIndex, \A h \in HeroesSeen' : first <= h
               PROVE  Tally(first, typed') \in TotalsTables /\ GivesOwn(Tally(first, typed'), record', first)
    BY DEF TallyIsOwn
  <2>1. Tally(first, typed) \in TotalsTables /\ GivesOwn(Tally(first, typed), record, first)
    BY <1>7 DEF TotalsInv, TallyIsOwn
  <2>2. \A p \in ToSet(told) : p.class = "HeroDie" => first <= p.victim
    BY <1>7
  <2> QED
    BY <1>1, <2>1, <2>2
<1> QED
  BY <1>1, <1>3, <1>4, <1>5, <1>8 DEF TotalsInv, TotalsAreOwn

\* The same for one packet.
LEMMA TellOneKeeps ==
  ASSUME TotalsInv, NEW facts \in TotalsTables, NEW p \in TotalsPackets, Tell(facts, <<p>>), p.class # "HeroDie",
         \A i \in ChampionIndex : facts[i].damage = 0 \/ facts[i].damage >= Amount,
         \A first \in ChampionIndex : \A table \in TotalsTables :
           GivesOwn(table, record, first) =>
             Counted(first, table, p) \in TotalsTables /\ GivesOwn(Counted(first, table, p), facts, first)
  PROVE  TotalsInv'
<1>1. typed \in Seq(TotalsPackets) /\ <<p>> \in Seq(TotalsPackets)
  BY DEF TotalsInv, TotalsTyped
<1>2. typed \o <<p>> = Append(typed, p)
  BY <1>1
<1>3. \A first : Tally(first, typed \o <<p>>) = Counted(first, Tally(first, typed), p)
  BY <1>1, <1>2, TallyOfMore
<1>4. Tally(NoRoster, typed \o <<p>>) = [i \in ChampionIndex |-> Nothing]
  BY <1>3, NoRosterCounts DEF TotalsInv, NoRosterNoTotals
<1>5. \A first \in ChampionIndex : \A table \in TotalsTables :
        /\ Tally(first, typed) = table /\ GivesOwn(table, record, first)
        /\ \A q \in ToSet(<<p>>) : q.class = "HeroDie" => first <= q.victim
        => /\ Tally(first, typed \o <<p>>) \in TotalsTables
           /\ GivesOwn(Tally(first, typed \o <<p>>), facts, first)
  BY <1>3
<1>6. PICK told \in Seq(TotalsPackets) : told = <<p>>
  BY <1>1
<1> QED
  BY <1>4, <1>5, <1>6, TellKeeps

LEMMA BuysKeeps ==
  ASSUME TotalsInv, NEW h \in ChampionIndex, Buys(h)
  PROVE  TotalsInv'
<1>1. PICK p : p = [class |-> "BuyItem", hero |-> h]
  OBVIOUS
<1>2. p \in TotalsPackets /\ p.class # "HeroDie"
  BY <1>1 DEF TotalsPackets
<1>3. \A first, table : Counted(first, table, p) = table
  BY <1>1, BuyItemCounts
<1>4. record \in TotalsTables /\ DamageIsWhole
  BY DEF TotalsInv, TotalsTyped
<1> QED
  BY <1>1, <1>2, <1>3, <1>4, TellOneKeeps DEF Buys, DamageIsWhole

LEMMA PlacesWardKeeps ==
  ASSUME TotalsInv, NEW u \in AnyUnit, PlacesWard(u)
  PROVE  TotalsInv'
<1>1. PICK p : p = [class |-> "Ward", owner |-> u]
  OBVIOUS
<1>2. p \in TotalsPackets /\ p.class # "HeroDie"
  BY <1>1 DEF TotalsPackets
<1>3. PICK facts : facts = IF u \in ChampionIndex THEN [record EXCEPT ![u].wards = @ + 1] ELSE record
  OBVIOUS
<1>4. record \in TotalsTables /\ DamageIsWhole
  BY DEF TotalsInv, TotalsTyped
<1>5. facts \in TotalsTables
  BY <1>3, <1>4 DEF TotalsTables, Totals
<1>6. \A i \in ChampionIndex :
        /\ facts[i].kda = record[i].kda /\ facts[i].kills = record[i].kills /\ facts[i].level = record[i].level
        /\ facts[i].damage = record[i].damage
        /\ facts[i].wards = record[i].wards + IF i = u THEN 1 ELSE 0
  BY <1>3, <1>4 DEF TotalsTables, Totals
<1>7. ASSUME NEW first \in ChampionIndex, NEW table \in TotalsTables, GivesOwn(table, record, first)
      PROVE  Counted(first, table, p) \in TotalsTables /\ GivesOwn(Counted(first, table, p), facts, first)
  <2>1. PICK k : k = index(first, u)
    OBVIOUS
  <2>2. PICK after : after = IF k = 0 THEN table ELSE [table EXCEPT ![k].wards = @ + 1]
    OBVIOUS
  <2>3. Counted(first, table, p) = after
    BY <1>1, <2>1, <2>2, WardCounts
  <2>4. k \in {0} \cup ChampionIndex /\ \A i \in ChampionIndex : k = i <=> u \in ChampionIndex /\ i + first - 1 = u
    BY <2>1, IndexFacts
  <2>5. after \in TotalsTables
    BY <2>2, <2>4 DEF TotalsTables, Totals
  <2>6. \A i \in ChampionIndex :
          /\ after[i].kda = table[i].kda /\ after[i].kills = table[i].kills /\ after[i].level = table[i].level
          /\ after[i].damage = table[i].damage
          /\ after[i].wards = table[i].wards + IF i = k THEN 1 ELSE 0
    <3>1. 0 \notin ChampionIndex
      BY DEF ChampionIndex
    <3> QED
      BY <2>2, <2>4, <3>1 DEF TotalsTables, Totals
  <2>7. GivesOwn(after, facts, first)
    BY <1>4, <1>6, <1>7, <2>4, <2>6 DEF GivesOwn, Own, TotalsTables, Totals, Nothing
  <2> QED
    BY <2>3, <2>5, <2>7
<1>8. Tell(facts, <<p>>)
  BY <1>1, <1>3 DEF PlacesWard
<1> QED
  BY <1>2, <1>4, <1>5, <1>6, <1>7, <1>8, TellOneKeeps DEF DamageIsWhole

LEMMA LevelsKeeps ==
  ASSUME TotalsInv, NEW u \in AnyUnit, NEW level \in Nat, Levels(u, level)
  PROVE  TotalsInv'
<1>1. PICK p : p = [class |-> "LevelUp", unit |-> u, level |-> level]
  OBVIOUS
<1>2. p \in TotalsPackets /\ p.class # "HeroDie"
  BY <1>1 DEF TotalsPackets
<1>3. PICK facts : facts = IF u \in ChampionIndex THEN [record EXCEPT ![u].level = Higher(@, level)] ELSE record
  OBVIOUS
<1>4. record \in TotalsTables /\ DamageIsWhole
  BY DEF TotalsInv, TotalsTyped
<1>5. \A a \in Nat : Higher(a, level) \in Nat
  BY DEF Higher
<1>6. facts \in TotalsTables
  BY <1>3, <1>4, <1>5 DEF TotalsTables, Totals
<1>7. \A i \in ChampionIndex :
        /\ facts[i].kda = record[i].kda /\ facts[i].kills = record[i].kills /\ facts[i].wards = record[i].wards
        /\ facts[i].damage = record[i].damage
        /\ facts[i].level = IF i = u THEN Higher(record[i].level, level) ELSE record[i].level
  BY <1>3, <1>4 DEF TotalsTables, Totals
<1>8. ASSUME NEW first \in ChampionIndex, NEW table \in TotalsTables, GivesOwn(table, record, first)
      PROVE  Counted(first, table, p) \in TotalsTables /\ GivesOwn(Counted(first, table, p), facts, first)
  <2>1. PICK k : k = index(first, u)
    OBVIOUS
  <2>2. PICK after : after = IF k = 0 THEN table ELSE [table EXCEPT ![k].level = Higher(@, level)]
    OBVIOUS
  <2>3. Counted(first, table, p) = after
    BY <1>1, <2>1, <2>2, LevelUpCounts
  <2>4. k \in {0} \cup ChampionIndex /\ \A i \in ChampionIndex : k = i <=> u \in ChampionIndex /\ i + first - 1 = u
    BY <2>1, IndexFacts
  <2>5. 0 \notin ChampionIndex
    BY DEF ChampionIndex
  <2>6. after \in TotalsTables
    BY <1>5, <2>2, <2>4 DEF TotalsTables, Totals
  <2>7. \A i \in ChampionIndex :
          /\ after[i].kda = table[i].kda /\ after[i].kills = table[i].kills /\ after[i].wards = table[i].wards
          /\ after[i].damage = table[i].damage
          /\ after[i].level = IF i = k THEN Higher(table[i].level, level) ELSE table[i].level
    BY <2>2, <2>4, <2>5 DEF TotalsTables, Totals
  <2>8. \A i \in ChampionIndex : /\ Own(facts, first, i).kda = Own(record, first, i).kda
                                 /\ Own(facts, first, i).kills = Own(record, first, i).kills
                                 /\ Own(facts, first, i).wards = Own(record, first, i).wards
                                 /\ Own(facts, first, i).damage = Own(record, first, i).damage
                                 /\ Own(facts, first, i).level =
                                      IF i = k THEN Higher(Own(record, first, i).level, level)
                                      ELSE Own(record, first, i).level
    BY <1>7, <2>4 DEF Own
  <2>9. GivesOwn(after, facts, first)
    BY <1>8, <2>7, <2>8 DEF GivesOwn
  <2> QED
    BY <2>3, <2>6, <2>9
<1>9. Tell(facts, <<p>>)
  BY <1>1, <1>3 DEF Levels
<1> QED
  BY <1>2, <1>4, <1>6, <1>7, <1>8, <1>9, TellOneKeeps DEF DamageIsWhole

LEMMA HitsKeeps ==
  ASSUME TotalsInv, NEW source \in AnyUnit, NEW target \in AnyUnit, Hits(source, target)
  PROVE  TotalsInv'
<1>1. PICK p : p = [class |-> "Damage", source |-> source, target |-> target, amount |-> Amount]
  OBVIOUS
<1>2. p \in TotalsPackets /\ p.class # "HeroDie"
  BY <1>1 DEF TotalsPackets
<1>3. PICK facts : facts = IF source \in ChampionIndex /\ target \in ChampionIndex
                           THEN [record EXCEPT ![source].damage = @ + Amount] ELSE record
  OBVIOUS
<1>4. record \in TotalsTables /\ DamageIsWhole /\ Amount \in Nat
  BY TotalsAssumption DEF TotalsInv, TotalsTyped
<1>5. facts \in TotalsTables
  BY <1>3, <1>4 DEF TotalsTables, Totals
<1>6. \A i \in ChampionIndex :
        /\ facts[i].kda = record[i].kda /\ facts[i].kills = record[i].kills /\ facts[i].wards = record[i].wards
        /\ facts[i].level = record[i].level
        /\ facts[i].damage = record[i].damage + IF i = source /\ target \in ChampionIndex THEN Amount ELSE 0
  BY <1>3, <1>4 DEF TotalsTables, Totals
<1>7. \A i \in ChampionIndex : facts[i].damage = 0 \/ facts[i].damage >= Amount
  BY <1>4, <1>6 DEF DamageIsWhole, TotalsTables, Totals
<1>8. ASSUME NEW first \in ChampionIndex, NEW table \in TotalsTables, GivesOwn(table, record, first)
      PROVE  Counted(first, table, p) \in TotalsTables /\ GivesOwn(Counted(first, table, p), facts, first)
  <2>1. PICK k, m : k = index(first, source) /\ m = index(first, target)
    OBVIOUS
  <2>2. PICK counts \in BOOLEAN : counts <=> k # 0 /\ m # 0 /\ Opponents(k, m)
    OBVIOUS
  <2>3. PICK after : after = IF k # 0 /\ m # 0 /\ Opponents(k, m) THEN [table EXCEPT ![k].damage = @ + Amount] ELSE table
    OBVIOUS
  <2>4. Counted(first, table, p) = after
    BY <1>1, <2>1, <2>3, DamageCounts
  <2>5. /\ k \in {0} \cup ChampionIndex /\ m \in {0} \cup ChampionIndex
        /\ \A i \in ChampionIndex : k = i <=> source \in ChampionIndex /\ i + first - 1 = source
        /\ \A i \in ChampionIndex : m = i <=> target \in ChampionIndex /\ i + first - 1 = target
    BY <2>1, IndexFacts
  <2>6. 0 \notin ChampionIndex /\ ChampionIndex \subseteq Nat
    BY DEF ChampionIndex
  <2>7. after \in TotalsTables
    <3>1. ASSUME k \in ChampionIndex PROVE [table EXCEPT ![k].damage = @ + Amount] \in TotalsTables
      BY <1>4, <3>1 DEF TotalsTables, Totals
    <3> QED
      BY <2>3, <2>5, <3>1
  <2>8. \A i \in ChampionIndex :
          /\ after[i].kda = table[i].kda /\ after[i].kills = table[i].kills /\ after[i].wards = table[i].wards
          /\ after[i].level = table[i].level
          /\ after[i].damage = table[i].damage + IF i = k /\ m # 0 /\ Opponents(k, m) THEN Amount ELSE 0
    BY <1>4, <2>3, <2>5, <2>6 DEF TotalsTables, Totals
  <2>9. \A i \in ChampionIndex : /\ Own(facts, first, i).kda = Own(record, first, i).kda
                                 /\ Own(facts, first, i).kills = Own(record, first, i).kills
                                 /\ Own(facts, first, i).level = Own(record, first, i).level
                                 /\ Own(facts, first, i).wards = Own(record, first, i).wards
                                 /\ Own(facts, first, i).damage = Own(record, first, i).damage
                                      + IF i = k /\ target \in ChampionIndex THEN Amount ELSE 0
    BY <1>4, <1>6, <2>5, <2>6 DEF Own, Nothing, TotalsTables, Totals
  <2>10. m # 0 => target \in ChampionIndex
    BY <2>5
  <2>11. first = 1 /\ k # 0 /\ target \in ChampionIndex => m # 0 /\ Opponents(k, m)
    <3> SUFFICES ASSUME first = 1, k # 0, target \in ChampionIndex PROVE m # 0 /\ Opponents(k, m)
      OBVIOUS
    <3>1. k = source /\ source \in ChampionIndex
      BY <2>5, <2>6
    <3>2. m = target
      BY <2>5, <2>6
    <3> QED
      BY <2>6, <3>1, <3>2 DEF Hits
  <2>12. \A i \in ChampionIndex : table[i].damage \in Nat /\ Own(record, first, i).damage \in Nat
    BY <1>4, OwnType DEF TotalsTables, Totals
  <2>13. GivesOwn(after, facts, first)
    BY <1>4, <1>8, <2>6, <2>8, <2>9, <2>10, <2>11, <2>12 DEF GivesOwn
  <2> QED
    BY <2>4, <2>7, <2>13
<1>9. Tell(facts, <<p>>)
  BY <1>1, <1>3 DEF Hits
<1> QED
  BY <1>2, <1>5, <1>7, <1>8, <1>9, TellOneKeeps

\* A champion's death, in the totals of its killer.
LEMMA DieAdds ==
  ASSUME NEW first \in ChampionIndex, NEW T \in TotalsTables,
         NEW victim \in ChampionIndex, first <= victim, NEW killer \in AnyUnit,
         NEW U, U = Counted(first, T, [class |-> "HeroDie", victim |-> victim, killer |-> killer])
  PROVE  /\ U \in TotalsTables
         /\ \A i \in ChampionIndex :
              /\ U[i].level = T[i].level /\ U[i].wards = T[i].wards /\ U[i].damage = T[i].damage
              /\ U[i].kda = T[i].kda
              /\ U[i].kills = T[i].kills + IF killer \in ChampionIndex /\ i + first - 1 = killer THEN 1 ELSE 0
<1>1. PICK k : k = index(first, killer)
  OBVIOUS
<1>2. 0 \notin ChampionIndex /\ ChampionIndex \subseteq AnyUnit /\ ChampionIndex \subseteq Nat
  BY DEF ChampionIndex, AnyUnit
<1>3. index(first, victim) # 0
  BY <1>2, IndexFacts
<1>4. U = IF k = 0 THEN T ELSE [T EXCEPT ![k].kills = @ + 1]
  BY <1>1, <1>3, HeroDieCounts
<1>5. /\ k \in {0} \cup ChampionIndex
      /\ \A i \in ChampionIndex : k = i <=> killer \in ChampionIndex /\ i + first - 1 = killer
  BY <1>1, IndexFacts
<1>6. \A i \in ChampionIndex : T[i].kills \in Nat
  BY DEF TotalsTables, Totals
<1>7. CASE k = 0
  <2>1. U = T /\ \A i \in ChampionIndex : ~ (killer \in ChampionIndex /\ i + first - 1 = killer)
    BY <1>2, <1>4, <1>5, <1>7
  <2>2. \A i \in ChampionIndex : T[i].kills = T[i].kills + 0
    BY <1>6
  <2> QED
    BY <2>1, <2>2
<1>8. CASE k \in ChampionIndex
  <2>1. U = [T EXCEPT ![k].kills = @ + 1]
    BY <1>2, <1>4, <1>8
  <2>2. U \in TotalsTables
    BY <1>8, <2>1 DEF TotalsTables, Totals
  <2>3. \A i \in ChampionIndex :
          /\ U[i].level = T[i].level /\ U[i].wards = T[i].wards /\ U[i].damage = T[i].damage
          /\ U[i].kda = T[i].kda /\ U[i].kills = T[i].kills + IF i = k THEN 1 ELSE 0
    BY <1>8, <2>1 DEF TotalsTables, Totals
  <2> QED
    BY <1>5, <2>2, <2>3
<1> QED
  BY <1>5, <1>7, <1>8

\* A champion's counters, in its own.
LEMMA KdaSets ==
  ASSUME NEW first \in ChampionIndex, NEW T \in TotalsTables,
         NEW hero \in ChampionIndex, NEW v \in Nat \X Nat,
         NEW U, U = Counted(first, T, [class |-> "Kda", hero |-> hero, kda |-> v])
  PROVE  /\ U \in TotalsTables
         /\ \A i \in ChampionIndex :
              /\ U[i].level = T[i].level /\ U[i].wards = T[i].wards /\ U[i].damage = T[i].damage
              /\ U[i].kills = T[i].kills
              /\ U[i].kda = IF i + first - 1 = hero THEN v ELSE T[i].kda
<1>1. PICK k : k = index(first, hero)
  OBVIOUS
<1>2. 0 \notin ChampionIndex /\ hero \in AnyUnit
  BY DEF ChampionIndex, AnyUnit
<1>3. U = IF k = 0 THEN T ELSE [T EXCEPT ![k].kda = v]
  BY <1>1, KdaCounts
<1>4. k \in {0} \cup ChampionIndex /\ \A i \in ChampionIndex : k = i <=> i + first - 1 = hero
  BY <1>1, <1>2, IndexFacts
<1>5. CASE k = 0
  BY <1>2, <1>3, <1>4, <1>5
<1>6. CASE k \in ChampionIndex
  <2>1. U = [T EXCEPT ![k].kda = v]
    BY <1>2, <1>3, <1>6
  <2>2. U \in TotalsTables
    BY <1>6, <2>1 DEF TotalsTables, Totals
  <2>3. \A i \in ChampionIndex :
          /\ U[i].level = T[i].level /\ U[i].wards = T[i].wards /\ U[i].damage = T[i].damage
          /\ U[i].kills = T[i].kills /\ U[i].kda = IF i = k THEN v ELSE T[i].kda
    BY <1>6, <2>1 DEF TotalsTables, Totals
  <2> QED
    BY <1>4, <2>2, <2>3
<1> QED
  BY <1>4, <1>5, <1>6

\* A death, the victim's counters and, if it has one, the killer's.
LEMMA DeathCounts ==
  ASSUME NEW facts \in TotalsTables, NEW was \in TotalsTables,
         NEW victim \in ChampionIndex, NEW killer \in AnyUnit,
         \A i \in ChampionIndex :
           /\ facts[i].level = was[i].level /\ facts[i].wards = was[i].wards
           /\ facts[i].damage = was[i].damage
           /\ facts[i].kills = was[i].kills + IF i = killer THEN 1 ELSE 0
           /\ i # victim /\ i # killer => facts[i].kda = was[i].kda,
         NEW first \in ChampionIndex, first <= victim,
         NEW table \in TotalsTables, GivesOwn(table, was, first),
         NEW one, one = Counted(first, table, [class |-> "HeroDie", victim |-> victim, killer |-> killer]),
         NEW two, two = Counted(first, one, [class |-> "Kda", hero |-> victim, kda |-> facts[victim].kda]),
         NEW three, three = IF killer \in ChampionIndex
           THEN Counted(first, two, [class |-> "Kda", hero |-> killer, kda |-> facts[killer].kda]) ELSE two
  PROVE  three \in TotalsTables /\ GivesOwn(three, facts, first)
<1>1. \A i \in ChampionIndex : facts[i].kda \in Nat \X Nat
  BY DEF TotalsTables, Totals
<1>2. /\ one \in TotalsTables
      /\ \A i \in ChampionIndex :
           /\ one[i].level = table[i].level /\ one[i].wards = table[i].wards /\ one[i].damage = table[i].damage
           /\ one[i].kda = table[i].kda
           /\ one[i].kills = table[i].kills + IF killer \in ChampionIndex /\ i + first - 1 = killer THEN 1 ELSE 0
  BY DieAdds
<1>3. /\ two \in TotalsTables
      /\ \A i \in ChampionIndex :
           /\ two[i].level = one[i].level /\ two[i].wards = one[i].wards /\ two[i].damage = one[i].damage
           /\ two[i].kills = one[i].kills
           /\ two[i].kda = IF i + first - 1 = victim THEN facts[victim].kda ELSE one[i].kda
  <2>1. PICK v \in Nat \X Nat : v = facts[victim].kda
    BY <1>1
  <2>2. two = Counted(first, one, [class |-> "Kda", hero |-> victim, kda |-> v])
    BY <2>1
  <2> QED
    BY <1>2, <2>1, <2>2, KdaSets
<1>4. /\ three \in TotalsTables
      /\ \A i \in ChampionIndex :
           /\ three[i].level = two[i].level /\ three[i].wards = two[i].wards /\ three[i].damage = two[i].damage
           /\ three[i].kills = two[i].kills
           /\ three[i].kda = IF killer \in ChampionIndex /\ i + first - 1 = killer THEN facts[killer].kda ELSE two[i].kda
  <2>1. CASE killer \in ChampionIndex
    <3>1. PICK v \in Nat \X Nat : v = facts[killer].kda
      BY <1>1, <2>1
    <3>2. three = Counted(first, two, [class |-> "Kda", hero |-> killer, kda |-> v])
      BY <2>1, <3>1
    <3> QED
      BY <1>3, <2>1, <3>1, <3>2, KdaSets
  <2>2. CASE killer \notin ChampionIndex
    BY <1>3, <2>2
  <2> QED
    BY <2>1, <2>2
<1>5. ASSUME NEW i \in ChampionIndex
      PROVE  /\ Own(facts, first, i).level = Own(was, first, i).level
             /\ Own(facts, first, i).wards = Own(was, first, i).wards
             /\ Own(facts, first, i).damage = Own(was, first, i).damage
             /\ Own(facts, first, i).kills = Own(was, first, i).kills
                  + IF killer \in ChampionIndex /\ i + first - 1 = killer THEN 1 ELSE 0
             /\ Own(facts, first, i).kda = IF killer \in ChampionIndex /\ i + first - 1 = killer THEN facts[killer].kda
                  ELSE IF i + first - 1 = victim THEN facts[victim].kda ELSE Own(was, first, i).kda
  <2>1. CASE i + first - 1 \in ChampionIndex
    <3>1. PICK j \in ChampionIndex : j = i + first - 1
      BY <2>1
    <3>2. Own(facts, first, i) = facts[j] /\ Own(was, first, i) = was[j]
      BY <3>1 DEF Own
    <3> QED
      BY <3>1, <3>2
  <2>2. CASE i + first - 1 \notin ChampionIndex
    <3>1. Own(facts, first, i) = Nothing /\ Own(was, first, i) = Nothing
      BY <2>2 DEF Own
    <3> QED
      BY <2>2, <3>1 DEF Nothing
  <2> QED
    BY <2>1, <2>2
<1>6. GivesOwn(three, facts, first)
  <2> SUFFICES ASSUME NEW i \in ChampionIndex
               PROVE  /\ three[i].kda = Own(facts, first, i).kda /\ three[i].kills = Own(facts, first, i).kills
                      /\ three[i].level = Own(facts, first, i).level /\ three[i].wards = Own(facts, first, i).wards
                      /\ three[i].damage <= Own(facts, first, i).damage
                      /\ first = 1 => three[i].damage = Own(facts, first, i).damage
    BY DEF GivesOwn
  <2>1. /\ table[i].kda = Own(was, first, i).kda /\ table[i].kills = Own(was, first, i).kills
        /\ table[i].level = Own(was, first, i).level /\ table[i].wards = Own(was, first, i).wards
        /\ table[i].damage <= Own(was, first, i).damage
        /\ first = 1 => table[i].damage = Own(was, first, i).damage
    BY DEF GivesOwn
  <2> QED
    BY <1>2, <1>3, <1>4, <1>5, <2>1
<1> QED
  BY <1>4, <1>6

LEMMA TallyOfTwo ==
  ASSUME NEW q \in Seq(TotalsPackets), NEW a \in TotalsPackets, NEW b \in TotalsPackets, NEW first
  PROVE  Tally(first, q \o <<a, b>>) = Counted(first, Counted(first, Tally(first, q), a), b)
<1>1. PICK s : s = Append(q, a)
  OBVIOUS
<1>2. s \in Seq(TotalsPackets)
  BY <1>1
<1>3. q \o <<a, b>> = Append(s, b)
  BY <1>1
<1>4. Tally(first, s) = Counted(first, Tally(first, q), a)
  BY <1>1, TallyOfMore
<1>5. Tally(first, Append(s, b)) = Counted(first, Tally(first, s), b)
  BY <1>2, TallyOfMore
<1> QED
  BY <1>3, <1>4, <1>5

LEMMA TallyOfThree ==
  ASSUME NEW q \in Seq(TotalsPackets), NEW a \in TotalsPackets, NEW b \in TotalsPackets,
         NEW c \in TotalsPackets, NEW first
  PROVE  Tally(first, q \o <<a, b, c>>)
           = Counted(first, Counted(first, Counted(first, Tally(first, q), a), b), c)
<1>1. PICK s : s = q \o <<a, b>>
  OBVIOUS
<1>2. s \in Seq(TotalsPackets)
  BY <1>1
<1>3. q \o <<a, b, c>> = Append(s, c)
  BY <1>1
<1>4. Tally(first, s) = Counted(first, Counted(first, Tally(first, q), a), b)
  BY <1>1, TallyOfTwo
<1>5. Tally(first, Append(s, c)) = Counted(first, Tally(first, s), c)
  BY <1>2, TallyOfMore
<1> QED
  BY <1>3, <1>4, <1>5

LEMMA ChampionDiesKeeps ==
  ASSUME TotalsInv, NEW victim \in ChampionIndex, NEW killer \in AnyUnit, ChampionDies(victim, killer)
  PROVE  TotalsInv'
<1> DEFINE facts == [i \in ChampionIndex |->
             [record[i] EXCEPT !.kda = <<@[1] + (IF i = killer THEN 1 ELSE 0),
                                         @[2] + (IF i = victim THEN 1 ELSE 0)>>,
                               !.kills = @ + (IF i = killer THEN 1 ELSE 0)]]
           d == [class |-> "HeroDie", victim |-> victim, killer |-> killer]
           Counter(i) == [class |-> "Kda", hero |-> i, kda |-> facts[i].kda]
           told == IF killer \in ChampionIndex THEN <<d, Counter(victim), Counter(killer)>>
                      ELSE <<d, Counter(victim)>>
<1>1. Tell(facts, told)
  BY DEF ChampionDies
<1>2. /\ record \in TotalsTables /\ DamageIsWhole /\ typed \in Seq(TotalsPackets)
      /\ Tally(NoRoster, typed) = [i \in ChampionIndex |-> Nothing]
  BY DEF TotalsInv, TotalsTyped, NoRosterNoTotals
<1>3. ASSUME NEW i \in ChampionIndex
      PROVE  /\ facts[i] \in Totals
             /\ facts[i].level = record[i].level /\ facts[i].wards = record[i].wards
             /\ facts[i].damage = record[i].damage
             /\ facts[i].kills = record[i].kills + IF i = killer THEN 1 ELSE 0
             /\ i # victim /\ i # killer => facts[i].kda = record[i].kda
  <2>1. PICK r \in Totals : r = record[i]
    BY <1>2 DEF TotalsTables
  <2>2. PICK m \in Nat, n \in Nat : m = (IF i = killer THEN 1 ELSE 0) /\ n = (IF i = victim THEN 1 ELSE 0)
    OBVIOUS
  <2>3. PICK w : w = facts[i]
    OBVIOUS
  <2>4. PICK a \in Nat, b \in Nat : r.kda = <<a, b>>
    BY DEF Totals
  <2>5. PICK c : c = <<a + m, b + n>>
    OBVIOUS
  <2>6. w = [r EXCEPT !.kda = c, !.kills = @ + m]
    <3>1. w = [record[i] EXCEPT !.kda = <<@[1] + (IF i = killer THEN 1 ELSE 0), @[2] + (IF i = victim THEN 1 ELSE 0)>>,
                                !.kills = @ + (IF i = killer THEN 1 ELSE 0)]
      BY <2>3, Zenon
    <3> HIDE DEF facts
    <3>2. w = [r EXCEPT !.kda = <<@[1] + m, @[2] + n>>, !.kills = @ + m]
      BY <2>1, <2>2, <3>1
    <3>3. <<r.kda[1] + m, r.kda[2] + n>> = c
      BY <2>4, <2>5
    <3> QED
      BY <3>2, <3>3
  <2> HIDE DEF facts
  <2>7. c \in Nat \X Nat /\ (m = 0 /\ n = 0 => c = r.kda)
    BY <2>4, <2>5
  <2>8. w = [kda |-> c, kills |-> r.kills + m, level |-> r.level, damage |-> r.damage, wards |-> r.wards]
    BY <2>6 DEF Totals
  <2>9. r.kills + m \in Nat /\ r.level \in Nat /\ r.damage \in Nat /\ r.wards \in Nat
    BY DEF Totals
  <2>10. w \in Totals
    BY <2>7, <2>8, <2>9 DEF Totals
  <2>11. i # victim /\ i # killer => m = 0 /\ n = 0
    BY <2>2
  <2> QED
    BY <2>1, <2>2, <2>3, <2>7, <2>8, <2>10, <2>11
<1>4. facts \in TotalsTables
  <2>1. facts = [i \in ChampionIndex |-> facts[i]]
    OBVIOUS
  <2> HIDE DEF facts
  <2> QED
    BY <1>3, <2>1 DEF TotalsTables
<1> HIDE DEF facts
<1>5. \A i \in ChampionIndex : facts[i].kda \in Nat \X Nat
  BY <1>4 DEF TotalsTables, Totals
<1>6. d \in TotalsPackets /\ \A i \in ChampionIndex : Counter(i) \in TotalsPackets
  BY <1>5 DEF TotalsPackets
<1>7. d.class = "HeroDie" /\ d.victim = victim
  OBVIOUS
<1>8. PICK v \in TotalsPackets : v = Counter(victim)
  BY <1>6
<1>9. PICK p \in TotalsPackets : p = d
  BY <1>6
<1>10. PICK q \in Seq(TotalsPackets) : q = typed
  BY <1>2
<1>11. /\ told \in Seq(TotalsPackets) /\ p \in ToSet(told)
       /\ \A first : Tally(first, typed \o told) =
            IF killer \in ChampionIndex
            THEN Counted(first, Counted(first, Counted(first, Tally(first, typed), p), v), Counter(killer))
            ELSE Counted(first, Counted(first, Tally(first, typed), p), v)
  <2>1. CASE killer \in ChampionIndex
    <3>1. PICK k \in TotalsPackets : k = Counter(killer)
      BY <1>6, <2>1
    <3>2. told = <<p, v, k>>
      BY <1>8, <1>9, <2>1, <3>1
    <3> HIDE DEF told, Counter, d
    <3>3. <<p, v, k>> \in Seq(TotalsPackets) /\ p \in ToSet(<<p, v, k>>)
      BY DEF ToSet
    <3> QED
      BY <1>10, <2>1, <3>1, <3>2, <3>3, TallyOfThree
  <2>2. CASE killer \notin ChampionIndex
    <3>1. told = <<p, v>>
      BY <1>8, <1>9, <2>2
    <3> HIDE DEF told, Counter, d
    <3>2. <<p, v>> \in Seq(TotalsPackets) /\ p \in ToSet(<<p, v>>)
      BY DEF ToSet
    <3> QED
      BY <1>10, <2>2, <3>1, <3>2, TallyOfTwo
  <2> QED
    BY <2>1, <2>2
<1> HIDE DEF told
<1>12. Tally(NoRoster, typed \o told) = [i \in ChampionIndex |-> Nothing]
  BY <1>2, <1>6, <1>11, NoRosterCounts
<1>13. ASSUME NEW first \in ChampionIndex, NEW table \in TotalsTables,
              Tally(first, typed) = table, GivesOwn(table, record, first),
              \A x \in ToSet(told) : x.class = "HeroDie" => first <= x.victim
       PROVE  /\ Tally(first, typed \o told) \in TotalsTables
              /\ GivesOwn(Tally(first, typed \o told), facts, first)
  <2>1. first <= victim
    BY <1>7, <1>9, <1>11, <1>13
  <2>2. PICK one : one = Counted(first, table, d)
    OBVIOUS
  <2>3. PICK two : two = Counted(first, one, Counter(victim))
    OBVIOUS
  <2>4. PICK three : three = IF killer \in ChampionIndex THEN Counted(first, two, Counter(killer)) ELSE two
    OBVIOUS
  <2>5. Tally(first, typed \o told) = three
    BY <1>8, <1>9, <1>11, <1>13, <2>2, <2>3, <2>4
  <2>6. PICK was \in TotalsTables : was = record
    BY <1>2
  <2> QED
    BY <1>3, <1>4, <1>13, <2>1, <2>2, <2>3, <2>4, <2>5, <2>6, DeathCounts
<1>14. \A i \in ChampionIndex : facts[i].damage = 0 \/ facts[i].damage >= Amount
  BY <1>2, <1>3 DEF DamageIsWhole
<1> QED
  BY <1>1, <1>4, <1>11, <1>12, <1>13, <1>14, TellKeeps

\* All that a table gives a player, if it is nothing at all or what the record says.
LEMMA SameTotals ==
  ASSUME NEW s \in Totals, NEW t \in Totals, s.kda = t.kda, s.kills = t.kills, s.level = t.level, s.wards = t.wards
  PROVE  s = [t EXCEPT !.damage = s.damage] /\ (s.damage = t.damage => s = t)
BY DEF Totals

LEMMA AllChecksHold ==
  ASSUME record \in TotalsTables, NEW i \in ChampionIndex
  PROVE  Checks(record, i) = {"kda", "kills", "level", "wards", "damage"}
<1>1. record[i].damage \in Nat
  BY DEF TotalsTables, Totals
<1>2. record[i].damage - record[i].damage \in -DAMAGE_SLACK .. DAMAGE_SLACK
  BY <1>1, TotalsAssumption
<1> QED
  BY <1>2 DEF Checks

\* Only an empty record agrees with what a later roster gives.
LEMMA ShiftShows ==
  ASSUME record \in TotalsTables, DamageIsWhole, NEW first \in ChampionIndex, first # 1,
         NEW table \in TotalsTables, GivesOwn(table, record, first),
         \A i \in ChampionIndex : Checks(table, i) = {"kda", "kills", "level", "wards", "damage"}
  PROVE  record = [i \in ChampionIndex |-> Nothing]
<1> SUFFICES ASSUME NEW j \in ChampionIndex, record[j] # Nothing PROVE FALSE
  BY DEF TotalsTables
<1>1. PICK i \in ChampionIndex : record[i] # Nothing /\ \A k \in ChampionIndex : k > i => record[k] = Nothing
  <2> DEFINE S == {n \in Nat : n <= NumPlayers /\ NumPlayers - n \in ChampionIndex /\ record[NumPlayers - n] # Nothing}
  <2>1. NumPlayers \in Nat /\ j \in Nat /\ j <= NumPlayers
    BY TotalsAssumption DEF ChampionIndex
  <2>2. S \in SUBSET Nat /\ NumPlayers - j \in S
    <3>1. NumPlayers - (NumPlayers - j) = j /\ NumPlayers - j \in Nat /\ NumPlayers - j <= NumPlayers
      BY <2>1
    <3> QED
      BY <3>1
  <2>3. PICK n \in S : \A m \in S : n <= m
    <3>1. S # {}
      BY <2>2
    <3> HIDE DEF S
    <3> QED
      BY <2>2, <3>1, LeastExists
  <2>4. ASSUME NEW k \in ChampionIndex, k > NumPlayers - n PROVE record[k] = Nothing
    <3>1. NumPlayers - k \in Nat /\ NumPlayers - k < n /\ NumPlayers - (NumPlayers - k) = k /\ NumPlayers - k <= NumPlayers
      BY <2>1, <2>4 DEF ChampionIndex
    <3>2. NumPlayers - k \notin S
      BY <2>3, <3>1
    <3> QED
      BY <3>1, <3>2
  <2> QED
    BY <2>3, <2>4
<1>2. Own(record, first, i) = Nothing
  <2>1. i + first - 1 > i
    BY DEF ChampionIndex
  <2> QED
    BY <1>1, <2>1 DEF Own
<1>3. /\ table[i].kda = Nothing.kda /\ table[i].kills = Nothing.kills /\ table[i].level = Nothing.level
      /\ table[i].wards = Nothing.wards /\ table[i].damage <= Nothing.damage
  BY <1>2 DEF GivesOwn
<1>4. "kda" \in Checks(table, i) /\ "kills" \in Checks(table, i) /\ "level" \in Checks(table, i)
      /\ "wards" \in Checks(table, i) /\ "damage" \in Checks(table, i)
  OBVIOUS
<1>5. /\ table[i].kda = record[i].kda /\ table[i].kills = record[i].kills /\ table[i].level = record[i].level
      /\ table[i].wards = record[i].wards
  BY <1>4 DEF Checks
<1>6. record[i].damage - table[i].damage \in -DAMAGE_SLACK .. DAMAGE_SLACK
  BY <1>4 DEF Checks
<1>7. record[i] \in Totals /\ table[i] \in Totals /\ record[i].damage \in Nat /\ table[i].damage \in Nat
  BY DEF TotalsTables, Totals
<1>8. record[i].damage = 0
  BY <1>3, <1>6, <1>7, TotalsAssumption DEF DamageIsWhole, Nothing
<1>9. record[i] = Nothing
  <2>1. record[i].damage = Nothing.damage
    BY <1>8 DEF Nothing
  <2>2. PICK r \in Totals, t \in Totals : r = record[i] /\ t = Nothing
    BY <1>7, NothingType
  <2>3. r.kda = t.kda /\ r.kills = t.kills /\ r.level = t.level /\ r.wards = t.wards /\ r.damage = t.damage
    BY <1>3, <1>5, <2>1, <2>2
  <2> QED
    BY <2>2, <2>3, SameTotals
<1> QED
  BY <1>1, <1>9

\* Minimum and maximum of the champions that packets name.
LEMMA HeroesRange ==
  ASSUME TotalsTyped, HeroesSeen # {}
  PROVE  /\ Min(HeroesSeen) \in ChampionIndex /\ \A h \in HeroesSeen : Min(HeroesSeen) <= h
         /\ infer = Min(HeroesSeen)
<1>1. PICK S \in SUBSET ChampionIndex : S = HeroesSeen
  BY HeroesOfMore
<1>2. S \in SUBSET Nat /\ S # {}
  BY <1>1 DEF ChampionIndex
<1>3. \E x \in S : \A y \in S : x <= y
  BY <1>2, LeastExists
<1>4. Min(S) \in S /\ \A y \in S : Min(S) <= y
  BY <1>3, Zenon DEF Min
<1>5. \E x \in S : \A y \in S : x >= y
  <2> DEFINE T == {n \in Nat : n <= NumPlayers /\ NumPlayers - n \in S}
  <2>1. NumPlayers \in Nat /\ \A h \in S : h \in Nat /\ h <= NumPlayers
    BY TotalsAssumption DEF ChampionIndex
  <2>2. \A h \in S : NumPlayers - h \in T
    <3> TAKE h \in S
    <3>1. NumPlayers - (NumPlayers - h) = h /\ NumPlayers - h \in Nat /\ NumPlayers - h <= NumPlayers
      BY <2>1
    <3> QED
      BY <3>1
  <2>3. T \in SUBSET Nat /\ T # {}
    BY <1>2, <2>2
  <2>4. PICK n \in T : \A m \in T : n <= m
    <3> HIDE DEF T
    <3> QED
      BY <2>3, LeastExists
  <2>5. NumPlayers - n \in S /\ n \in Nat
    BY <2>4
  <2>6. \A y \in S : NumPlayers - n >= y
    BY <2>1, <2>2, <2>4, <2>5
  <2> QED
    BY <2>5, <2>6
<1>6. Max(S) \in S
  BY <1>5, Zenon DEF Max
<1>7. ~ (Max(S) - Min(S) >= NumPlayers)
  <2>1. PICK a, b : a = Max(S) /\ b = Min(S)
    OBVIOUS
  <2>2. a \in 1 .. NumPlayers /\ b \in 1 .. NumPlayers
    BY <1>1, <1>4, <1>6, <2>1 DEF ChampionIndex
  <2>3. ~ (a - b >= NumPlayers)
    BY <2>2, TotalsAssumption
  <2> QED
    BY <2>1, <2>3
<1> QED
  BY <1>1, <1>2, <1>4, <1>7 DEF infer

LEMMA AssembleTotalsKeeps ==
  ASSUME TotalsInv, AssembleTotals
  PROVE  TotalsInv'
<1>1. /\ totals' = Tally(infer, typed) /\ record' = record /\ typed' = typed
      /\ rows' = [i \in ChampionIndex |-> Checks(totals', i)]
  BY DEF AssembleTotals
<1>2. /\ TotalsTyped /\ DamageIsWhole /\ TallyIsOwn /\ record \in TotalsTables
      /\ Tally(NoRoster, typed) = [i \in ChampionIndex |-> Nothing]
  BY DEF TotalsInv, TotalsTyped, NoRosterNoTotals
<1>3. HeroesSeen' = HeroesSeen
  BY <1>1 DEF HeroesSeen
<1>4. TotalsTyped' /\ DamageIsWhole' /\ NoRosterNoTotals' /\ TallyIsOwn'
  BY <1>1, <1>2, <1>3 DEF TotalsTyped, DamageIsWhole, NoRosterNoTotals, TallyIsOwn
<1>5. CASE HeroesSeen = {}
  <2>1. totals' = [i \in ChampionIndex |-> Nothing]
    BY <1>1, <1>2, <1>5 DEF infer
  <2> QED
    BY <1>3, <1>4, <1>5, <2>1 DEF TotalsInv, TotalsAreOwn
<1>6. CASE HeroesSeen # {}
  <2>1. PICK first : first = Min(HeroesSeen)
    OBVIOUS
  <2>2. first \in ChampionIndex /\ infer = first /\ \A h \in HeroesSeen : first <= h
    BY <1>2, <1>6, <2>1, HeroesRange
  <2>3. PICK table : table = Tally(first, typed)
    OBVIOUS
  <2>4. table \in TotalsTables /\ GivesOwn(table, record, first) /\ totals' = table
    BY <1>1, <1>2, <2>2, <2>3 DEF TallyIsOwn
  <2>5. ShiftedBy' = first - 1 /\ first \in Nat
    BY <1>3, <2>1, <2>2 DEF ShiftedBy, ChampionIndex
  <2>6. AllHold' <=> \A i \in ChampionIndex : Checks(table, i) = {"kda", "kills", "level", "wards", "damage"}
    <3>1. \A i \in ChampionIndex : rows'[i] = Checks(table, i)
      BY <1>1, <2>4
    <3> QED
      BY <3>1 DEF AllHold
  <2>7. ASSUME first = 1 PROVE table = record
    <3>1. \A i \in ChampionIndex : Own(record, first, i) = record[i]
      BY <2>7 DEF Own, ChampionIndex
    <3>2. \A i \in ChampionIndex : table[i] \in Totals /\ record[i] \in Totals
      BY <1>2, <2>4 DEF TotalsTables
    <3>3. ASSUME NEW i \in ChampionIndex PROVE table[i] = record[i]
      BY <2>4, <2>7, <3>1, <3>2, SameTotals DEF GivesOwn
    <3> QED
      BY <1>2, <2>4, <3>3 DEF TotalsTables
  <2>8. ASSUME NEW i \in ChampionIndex
        PROVE  LET whose == i + ShiftedBy'
                   own == IF whose \in ChampionIndex THEN record'[whose] ELSE Nothing
               IN  totals'[i] = [own EXCEPT !.damage = totals'[i].damage]
    <3>1. i + ShiftedBy' = i + first - 1
      BY <2>5 DEF ChampionIndex
    <3>2. PICK own : own = Own(record, first, i)
      OBVIOUS
    <3>3. table[i] \in Totals /\ own \in Totals
      BY <1>2, <2>2, <2>4, <3>2, OwnType DEF TotalsTables
    <3>4. table[i] = [own EXCEPT !.damage = table[i].damage]
      BY <2>4, <3>2, <3>3, SameTotals DEF GivesOwn
    <3> QED
      BY <1>1, <2>4, <3>1, <3>2, <3>4 DEF Own
  <2>9. first # 1 /\ AllHold' => record' = [i \in ChampionIndex |-> Nothing]
    BY <1>1, <1>2, <2>2, <2>4, <2>6, ShiftShows
  <2>10. first = 1 => totals' = record' /\ AllHold'
    BY <1>1, <1>2, <2>4, <2>6, <2>7, AllChecksHold
  <2>11. ShiftedBy' = 0 <=> first = 1
    BY <2>5
  <2>12. TotalsAreOwn'
    BY <1>3, <1>6, <2>8, <2>9, <2>10, <2>11 DEF TotalsAreOwn
  <2> QED
    BY <1>4, <2>12 DEF TotalsInv
<1> QED
  BY <1>5, <1>6

LEMMA TotalsStart == TotalsInit => TotalsInv
<1> SUFFICES ASSUME TotalsInit PROVE TotalsInv
  OBVIOUS
<1>1. record = [i \in ChampionIndex |-> Nothing] /\ typed = <<>> /\ totals = <<>>
  BY DEF TotalsInit
<1>2. TotalsTyped
  BY <1>1, NothingType DEF TotalsTyped, TotalsTables
<1>3. DamageIsWhole
  BY <1>1 DEF DamageIsWhole, Nothing
<1>4. \A first : Tally(first, typed) = [i \in ChampionIndex |-> Nothing]
  BY <1>1, TallyOfNone
<1>5. ASSUME NEW first \in ChampionIndex
      PROVE  record \in TotalsTables /\ GivesOwn(record, record, first)
  <2>1. \A i \in ChampionIndex : Own(record, first, i) = Nothing /\ record[i] = Nothing
    BY <1>1 DEF Own
  <2> QED
    BY <1>2, <2>1 DEF TotalsTyped, GivesOwn, Nothing
<1>6. TallyIsOwn /\ NoRosterNoTotals
  BY <1>1, <1>4, <1>5 DEF TallyIsOwn, NoRosterNoTotals
<1> QED
  BY <1>1, <1>2, <1>3, <1>6 DEF TotalsInv, TotalsAreOwn

LEMMA TotalsStep == TotalsInv /\ [TotalsNext]_totalsPart => TotalsInv'
<1> SUFFICES ASSUME TotalsInv, [TotalsNext]_totalsPart PROVE TotalsInv'
  OBVIOUS
<1>1. CASE TotalsNext
  <2>1. \A level \in 1 .. MaxLevel : level \in Nat
    OBVIOUS
  <2> QED
    BY <1>1, <2>1, ChampionDiesKeeps, BuysKeeps, HitsKeeps, LevelsKeeps, PlacesWardKeeps, AssembleTotalsKeeps
       DEF TotalsNext
<1>2. CASE UNCHANGED totalsPart
  <2>1. record' = record /\ typed' = typed /\ totals' = totals /\ rows' = rows
    BY <1>2 DEF totalsPart
  <2>2. HeroesSeen' = HeroesSeen
    BY <2>1 DEF HeroesSeen
  <2>3. ShiftedBy' = ShiftedBy /\ (AllHold' <=> AllHold)
    BY <2>1, <2>2 DEF ShiftedBy, AllHold
  <2>4. TotalsAreOwn'
    BY <2>1, <2>2, <2>3 DEF TotalsInv, TotalsAreOwn
  <2> QED
    BY <2>1, <2>2, <2>4 DEF TotalsInv, TotalsTyped, DamageIsWhole, TallyIsOwn, NoRosterNoTotals
<1> QED
  BY <1>1, <1>2

\* Whatever happens to however many players, assembled totals are the players' own or
\* those of the same shift for all, and a shifted roster does not pass the self check.
THEOREM TotalsAreTheirs == TotalsSpec => []TotalsAreOwn
<1>1. TotalsSpec => []TotalsInv
  BY TotalsStart, TotalsStep, PTL DEF TotalsSpec
<1> QED
  BY <1>1, PTL DEF TotalsInv
=============================================================================
