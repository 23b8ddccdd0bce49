------------------------------ MODULE Positions ------------------------------
(***************************************************************************)
(* The once-a-second positions of one champion that assemble of            *)
(* src/src/game.rs samples while it walks the typed packets: Motion,       *)
(* state_at and the next_tick loops.                                       *)
(*                                                                         *)
(* The game is not in src/.  It moves the champion along the path it has   *)
(* last announced, one place after the other, and announces a new path     *)
(* from where the champion stands; deaths and respawns put it down where   *)
(* the packet says.  Places lie on a line, time is counted in moments,     *)
(* PerSecond of them to a second, and speed in places per moment.          *)
(***************************************************************************)
EXTENDS Recording, SequencesExt

CONSTANTS
  Places,        \* coordinates, an interval
  Speeds,        \* places per moment
  PerSecond,     \* moments per second
  GameLength,    \* game_length_ms, in moments
  MaxMoves     \* bound: packets

ASSUME PositionAssumption ==
  /\ Places \subseteq Int /\ Speeds \subseteq Nat \ {0}
  /\ PerSecond \in Nat \ {0} /\ GameLength \in Nat /\ MaxMoves \in Nat

VARIABLES
  unit,          \* the champion: [at, ahead, speed, alive], or NoMotion
  moves,       \* how many were sent
  sampled,       \* the champion at each whole second, before that moment's packets
  motion,        \* assemble's Option<Motion>
  next_tick,     \* in seconds
  players_state, \* [timestamp, shown] as pushed
  sampling        \* "running" or "done"

walking == <<now, unit, moves, sampled>>
sampler == <<motion, next_tick, players_state>>
positionVars == <<walking, sampler, sampling>>

NoMotion == [kind |-> "none"]
Still(x, alive) == [kind |-> "still", at |-> x, alive |-> alive]
Path(since, points, speed) ==
  [kind |-> "path", since |-> since, points |-> points, speed |-> speed]

PositionInit ==
  /\ now = 0 /\ moves = 0 /\ sampled = <<>>
  /\ unit = NoMotion
  /\ motion = NoMotion /\ next_tick = 1 /\ players_state = <<>>
  /\ sampling = "running"

-----------------------------------------------------------------------------
(* The sampler                                                             *)

Toward(a, b, d) == IF a <= b THEN a + d ELSE a - d

\* The place `left` along the points: on the first segment that reaches it, the
\* last point if none does.
Along(points, left) ==
  LET n == Len(points)
      LeftAt[i \in 1 .. n] == IF i = 1 THEN left ELSE LeftAt[i - 1] - Apart(points[i - 1], points[i])
      reaching == {i \in 1 .. n - 1 : LeftAt[i] <= Apart(points[i], points[i + 1])}
      first == Min(reaching)
  IN  IF reaching = {} THEN points[n] ELSE Toward(points[first], points[first + 1], LeftAt[first])

\* Motion::at
At(m, t) ==
  IF m.kind = "path"
  THEN [at |-> Along(m.points, (IF t > m.since THEN t - m.since ELSE 0) * m.speed),
        alive |-> TRUE]
  ELSE [at |-> m.at, alive |-> m.alive]

\* state_at: a champion not heard of yet is left out.
StateAt(second) ==
  [timestamp |-> second,
   shown |-> IF motion = NoMotion THEN NoMotion ELSE At(motion, second * PerSecond)]

\* The next_tick loops: every whole second up to `limit` not sampled yet.
Sampled(limit) ==
  LET last == limit \div PerSecond
      n == IF last >= next_tick THEN last - next_tick + 1 ELSE 0 IN
  /\ players_state' = players_state \o [i \in 1 .. n |-> StateAt(next_tick + i - 1)]
  /\ next_tick' = next_tick + n

Mutant_Moved_from_last_second(points, speed) ==
  Path((now \div PerSecond) * PerSecond, points, speed)

Moved(points, speed) == Path(now, points, speed)

\* The loop of assemble on one packet that leaves the champion's motion m.
MotionPacket(m) ==
  /\ sampling = "running" /\ moves < MaxMoves
  /\ moves' = moves + 1
  /\ Sampled(now) /\ motion' = m
  /\ UNCHANGED <<now, sampled, sampling>>

-----------------------------------------------------------------------------
(* The game                                                                *)

\* The places the champion will pass on its way, one at a time.
Way(a, b) == [d \in 1 .. Apart(a, b) |-> Toward(a, b, d)]

Waypoints(via, to, speed) ==
  /\ unit # NoMotion /\ unit.alive
  /\ MotionPacket(Moved(<<unit.at, via, to>>, speed))
  /\ unit' = [unit EXCEPT !.ahead = Way(unit.at, via) \o Way(via, to), !.speed = speed]

HeroDie ==
  /\ unit # NoMotion /\ unit.alive
  /\ MotionPacket(Still(unit.at, FALSE))
  /\ unit' = [unit EXCEPT !.ahead = <<>>, !.alive = FALSE]

\* A respawn, also the first sight of the champion.
HeroReincarnate(x) ==
  /\ unit # NoMotion => ~ unit.alive
  /\ MotionPacket(Still(x, TRUE))
  /\ unit' = [at |-> x, ahead |-> <<>>, speed |-> 0, alive |-> TRUE]

\* Any other packet.
OtherPacket == MotionPacket(motion) /\ UNCHANGED unit

Stepped ==
  IF unit = NoMotion \/ unit.ahead = <<>> THEN unit
  ELSE LET n == Min({unit.speed, Len(unit.ahead)}) IN
       [unit EXCEPT !.at = unit.ahead[n],
                    !.ahead = SubSeq(@, n + 1, Len(@))]

Seen(u) == IF u = NoMotion THEN NoMotion ELSE [at |-> u.at, alive |-> u.alive]

PositionTick ==
  /\ sampling = "running" /\ now < GameLength
  /\ now' = now + 1 /\ unit' = Stepped
  /\ sampled' = IF (now + 1) % PerSecond = 0 THEN Append(sampled, Seen(Stepped)) ELSE sampled
  /\ UNCHANGED <<moves, sampler, sampling>>

\* The packets end with the game; the seconds left are sampled.
SamplingEnd ==
  /\ sampling = "running" /\ now = GameLength
  /\ Sampled(GameLength)
  /\ sampling' = "done"
  /\ UNCHANGED <<walking, motion>>

PositionNext ==
  \/ \E via, to \in Places, s \in Speeds : Waypoints(via, to, s)
  \/ HeroDie
  \/ \E x \in Places : HeroReincarnate(x)
  \/ OtherPacket \/ PositionTick \/ SamplingEnd

PositionSpec == PositionInit /\ [][PositionNext]_positionVars

-----------------------------------------------------------------------------
\* Every second of the game is sampled once, in order, none before it has
\* passed, and all of them by the end however long no packet has come; and each
\* sample is where the champion was and whether it lived when that second struck,
\* before what happened at that very moment, though it is taken only when the
\* next packet arrives, from the last path announced (game.rs:293-296, 465-468).
SamplesAreTrue ==
  /\ Len(players_state) <= now \div PerSecond
  /\ sampling = "done" => Len(players_state) = GameLength \div PerSecond
  /\ \A i \in 1 .. Len(players_state) :
       /\ players_state[i].timestamp = i
       /\ i <= Len(sampled) /\ players_state[i].shown = sampled[i]
=============================================================================
