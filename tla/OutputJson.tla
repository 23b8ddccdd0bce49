------------------------------ MODULE OutputJson ------------------------------
(***************************************************************************)
(* build_output_json of src/src/replay_info.rs: what becomes of the packets*)
(* of the two classes that the first format's emulator decodes.            *)
(*                                                                         *)
(* The wards: a corpse is taken for that of the ward placed exactly where  *)
(* it lies.  The game, which is not in src/, lets it lie elsewhere: up to  *)
(* about 100 units away (game.rs:388-391, docs/PACKETS.md:97-100,          *)
(* docs/DOMAIN.md:359-364).  Spots lie on a line.                          *)
(*                                                                         *)
(* The positions, with PathPacket::get_pos of src/src/emulator/packet.rs:  *)
(* the latest path of every player, walked at its speed, and looked at     *)
(* when the first packet comes that is a second or more past the last      *)
(* look.  A path is a single stretch of a line, where get_pos walks any    *)
(* number of them one after the other (packet.rs:176-187); times are in    *)
(* parts of a second, speeds in places per part.  That a player's index    *)
(* lies within the metadata (replay_info.rs:131) is taken for granted.     *)
(***************************************************************************)
EXTENDS Integers, Sequences

-----------------------------------------------------------------------------
(* The wards                                                               *)

CONSTANTS
  WardIds, Spots,   \* entity ids; positions
  CorpseDrift,      \* how far a corpse lies from its ward's spot
  MaxWardPackets    \* bound: packets of the class

ASSUME PlacedAssumption == Spots \subseteq Int /\ CorpseDrift \in Nat /\ MaxWardPackets \in Nat

VARIABLES
  told,        \* packets so far, which stand for the time as well
  standing,    \* the wards on the map: id, spot, when placed and whether a player's
  fallen,      \* those that are gone, and when they went
  corpses,     \* history: where corpses have lain, and when
  placed,      \* placed: the first packet of each id
  pos_to_id,   \* pos_to_id
  json_wards,  \* game["wards"]
  panicked     \* whether the owner of a ward was looked up in vain

placedPart == <<told, standing, fallen, corpses, placed, pos_to_id, json_wards, panicked>>

PlacedInit ==
  /\ told = 0 /\ standing = {} /\ fallen = {} /\ corpses = {}
  /\ placed = <<>> /\ pos_to_id = <<>> /\ json_wards = {} /\ panicked = FALSE

With(f, k, v)  == [x \in DOMAIN f \cup {k} |-> IF x \in DOMAIN f THEN f[x] ELSE v]
Without(f, k) == [x \in DOMAIN f \ {k} |-> f[x]]

Telling == ~ panicked /\ told < MaxWardPackets /\ told' = told + 1

\* Every ward there has been.
Put == standing \cup {f.ward : f \in fallen}

-----------------------------------------------------------------------------
(* Placements                                                              *)

\* An id, and a spot, that is known already keeps what it has.
Placement(w) ==
  /\ placed' = With(placed, w.id, w) /\ pos_to_id' = With(pos_to_id, w.spot, w.id)
  /\ UNCHANGED <<json_wards, panicked>>

\* The owner is one of the players, or a unit that is not.
NewWard(id, spot, players) ==
  /\ Telling /\ \A w \in Put : w.id # id
  /\ LET w == [id |-> id, spot |-> spot, at |-> told, players |-> players]
     IN  standing' = standing \cup {w} /\ Placement(w)
  /\ UNCHANGED <<fallen, corpses>>

\* The class also tells of a ward again when it comes into view.
ToldAgain(w) ==
  /\ Telling /\ Placement([w EXCEPT !.at = told])
  /\ UNCHANGED <<standing, fallen, corpses>>

-----------------------------------------------------------------------------
(* Corpses                                                                 *)

Mutant_CorpsePacket_keeps_spot(spot) ==
  /\ UNCHANGED pos_to_id
  /\ IF spot \notin DOMAIN pos_to_id \/ pos_to_id[spot] \notin DOMAIN placed
       THEN UNCHANGED <<placed, json_wards, panicked>>
     ELSE LET w == placed[pos_to_id[spot]]
          IN  /\ placed' = Without(placed, w.id)
              /\ panicked' = ~ w.players
              /\ json_wards' = IF w.players
                   THEN json_wards \cup {[ward |-> w, duration |-> told - w.at]} ELSE json_wards

\* The spot and the ward it leads to are both forgotten; owner_id less
\* player_id_start is then an index of the players.
CorpsePacket(spot) ==
  /\ pos_to_id' = Without(pos_to_id, spot)
  /\ IF spot \notin DOMAIN pos_to_id \/ pos_to_id[spot] \notin DOMAIN placed
       THEN UNCHANGED <<placed, json_wards, panicked>>
     ELSE LET w == placed[pos_to_id[spot]]
          IN  /\ placed' = Without(placed, w.id)
              /\ panicked' = ~ w.players
              /\ json_wards' = IF w.players
                   THEN json_wards \cup {[ward |-> w, duration |-> told - w.at]} ELSE json_wards

CorpseLies(spot) == CorpsePacket(spot) /\ corpses' = corpses \cup {[spot |-> spot, at |-> told]}

\* The corpse lies on the ward's spot or a little off it.
WardFalls(w, spot) ==
  /\ Telling /\ spot - w.spot \in -CorpseDrift .. CorpseDrift /\ CorpseLies(spot)
  /\ standing' = standing \ {w} /\ fallen' = fallen \cup {[ward |-> w, until |-> told]}

\* A corpse of something else.
StrayCorpse(spot) == Telling /\ CorpseLies(spot) /\ UNCHANGED <<standing, fallen>>

PlacedNext ==
  \/ \E id \in WardIds, spot \in Spots, players \in BOOLEAN : NewWard(id, spot, players)
  \/ \E w \in standing : ToldAgain(w)
  \/ \E w \in standing, spot \in Spots : WardFalls(w, spot)
  \/ \E spot \in Spots : StrayCorpse(spot)

PlacedSpec == PlacedInit /\ [][PlacedNext]_placedPart

-----------------------------------------------------------------------------
PutAt(id, spot) == {w \in Put : w.id = id /\ w.spot = spot}
OnSpot(set, spot) == {x \in set : x.spot = spot}

\* No corpse lies on the spot of a ward that goes on standing.
Undisturbed(spot) ==
  \A c \in OnSpot(corpses, spot), w \in OnSpot(Put, spot) :
    w.at < c.at => \E f \in fallen : f.ward = w /\ f.until <= c.at

\* The wards put where corpse c lies since the corpse that lay there before it,
\* and the first of them.
Since(c) ==
  {w \in OnSpot(Put, c.spot) : w.at < c.at /\ \A d \in OnSpot(corpses, c.spot) : d.at < c.at => d.at < w.at}

FirstOf(wards_put) == {w \in wards_put : \A v \in wards_put : w.at <= v.at}

Record(w, until) == [ward |-> w, duration |-> until - w.at]

\* Where and when the corpse of a record lay.
EndOf(r) == [spot |-> r.ward.spot, at |-> r.ward.at + r.duration]

RecordsDue(spot) == UNION {{Record(w, c.at) : w \in FirstOf(Since(c))} : c \in OnSpot(corpses, spot)}

\* The wards of the spot that fell left their corpses on it.
NoneDrifted(spot) == \A f \in fallen : f.ward.spot = spot => [spot |-> spot, at |-> f.until] \in corpses

\* On a spot where no corpse comes to lie while a ward stands there, what a corpse
\* records is the first of the wards put there since the corpse before, up to its own
\* time.  So if none drifted off, exactly the wards that fell are recorded, each with
\* the time it stood, although wards of other spots come and go, placements are told
\* again and corpses of other things lie about.  A ward whose corpse drifted off is
\* lost until another corpse comes to lie on its spot, and then recorded with the time
\* until that, in place of the ward whose corpse it is.  On any spot a record is
\* of a ward that was placed there by then, and ends with a corpse that lay there,
\* each corpse making one at most; and the run ends early only for a ward that
\* is no player's (replay_info.rs:73-99).
WardsByPlace ==
  /\ \A spot \in Spots : Undisturbed(spot) /\ ~ panicked =>
       LET recorded == {r \in json_wards : r.ward.spot = spot} IN
       /\ recorded = RecordsDue(spot)
       /\ NoneDrifted(spot) => recorded = {Record(f.ward, f.until) : f \in {g \in fallen : g.ward.spot = spot}}
  /\ \A r \in json_wards :
       /\ r.duration > 0 /\ EndOf(r) \in corpses
       /\ \E w \in PutAt(r.ward.id, r.ward.spot) : w.at <= r.ward.at
  /\ \A r, s \in json_wards : EndOf(r).at = EndOf(s).at => r = s
  /\ panicked => \E w \in Put : ~ w.players

-----------------------------------------------------------------------------
(* The positions                                                           *)

CONSTANTS
  PathUnits, PathPlayers,    \* entity ids, and the ten of them that are players'
  Ends, Paces, Second,       \* where paths end; speeds; the parts of a second
  LastTime, MaxPaths         \* bounds: times, packets

ASSUME PathAssumption ==
  /\ PathPlayers \subseteq PathUnits /\ Ends \subseteq Int /\ Paces \subseteq Nat
  /\ Second \in Nat \ {0} /\ LastTime \in Nat /\ MaxPaths \in Nat

VARIABLES
  paths,               \* path_packets so far, in order of time
  players_path_state,  \* the index in `paths` of a player's latest
  tick,
  states               \* game["players_state"], and when each was taken

pathPart == <<paths, players_path_state, tick, states>>

PathInit == paths = <<>> /\ players_path_state = <<>> /\ tick = 0 /\ states = <<>>

Length(p) == IF p.to >= p.from THEN p.to - p.from ELSE p.from - p.to
Sign(p)   == IF p.to >= p.from THEN 1 ELSE -1

Mutant_get_pos_past_the_end(p, time) ==
  IF time - p.at <= Second THEN p.from ELSE p.from + Sign(p) * p.speed * (time - p.at)

\* The start for a second, then as far as the speed goes; a path walked at no
\* speed takes no time.
get_pos(p, time) ==
  LET gone == time - p.at IN
  IF gone <= Second THEN p.from
  ELSE IF p.speed = 0 \/ p.speed * gone > Length(p) THEN p.to
  ELSE p.from + Sign(p) * p.speed * gone

\* A packet: its path is in force before the others are looked at.
PathPacket(u, time, from, to, speed) ==
  /\ Len(paths) < MaxPaths /\ (paths # <<>> => time >= paths[Len(paths)].at)
  /\ paths' = Append(paths, [id |-> u, at |-> time, from |-> from, to |-> to, speed |-> speed])
  /\ players_path_state' =
       IF u \notin PathPlayers THEN players_path_state
       ELSE [k \in DOMAIN players_path_state \cup {u} |->
               IF k = u THEN Len(paths) + 1 ELSE players_path_state[k]]
  /\ IF time - tick < Second THEN UNCHANGED <<tick, states>>
     ELSE /\ tick' = time
          /\ states' = Append(states,
               [timestamp |-> tick, taken |-> time, read |-> Len(paths) + 1,
                pos |-> [k \in DOMAIN players_path_state' |->
                           get_pos(paths'[players_path_state'[k]], time)]])

PathNext == \E u \in PathUnits, time \in 0 .. LastTime, from, to \in Ends, speed \in Paces :
              PathPacket(u, time, from, to, speed)

PathSpec == PathInit /\ [][PathNext]_pathPart

-----------------------------------------------------------------------------
\* The paths of unit u among the first n packets.
Of(u, n) == {i \in 1 .. n : paths[i].id = u}

\* How far along its path a unit is.
Progress(p, pos) == Sign(p) * (pos - p.from)

\* The states are a second apart at least, each labelled with when the one before
\* was taken; each shows the players that have been heard of, on the path they
\* were last given, not past its end and never further back on it than an earlier
\* state had them (replay_info.rs:117-147, packet.rs:157-184).
TicksFollowPaths ==
  \A i \in DOMAIN states :
    LET s == states[i] IN
    /\ s.timestamp = (IF i = 1 THEN 0 ELSE states[i - 1].taken)
    /\ s.taken - s.timestamp >= Second
    /\ DOMAIN s.pos = {u \in PathPlayers : Of(u, s.read) # {}}
    /\ \A u \in DOMAIN s.pos : \E n \in Of(u, s.read) :
         LET p == paths[n] IN
         /\ \A k \in Of(u, s.read) : k <= n
         /\ Progress(p, s.pos[u]) \in 0 .. Length(p)
         /\ \A j \in 1 .. i - 1 : states[j].read >= n =>
              Progress(p, states[j].pos[u]) <= Progress(p, s.pos[u])
=============================================================================
