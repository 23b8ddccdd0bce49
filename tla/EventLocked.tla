----------------------------- MODULE EventLocked -----------------------------
(***************************************************************************)
(* event_locked of src/src/explore.rs: which packet classes come about a   *)
(* champion when it dies, when it kills, or when anyone is killed, and     *)
(* much oftener then than by chance.  Chance is the part of the game that  *)
(* the windows around these events cover, which window_cover measures.     *)
(*                                                                         *)
(* Times are whole numbers; the expected number of hits is kept in parts   *)
(* of 1 / Scale.                                                           *)
(***************************************************************************)
EXTENDS Integers, Sequences, FiniteSetsExt, Functions

CONSTANTS
  LockClasses, Fighters,    \* packet classes, champions
  NoFighter,            \* a killer that is no champion
  GameLengths, Scale,   \* seconds, and a multiple of all
  KillTimes, Moments,   \* when champions die; when blocks come
  EVENT_WINDOW, MIN_LOCKED_BLOCKS, LOCKED_SHARE, LOCKED_LIFT,
  MaxGames, MaxKills, MaxLockBlocks   \* bounds: games, deaths of one, blocks of all

ASSUME LockedAssumption ==
  /\ Scale \in Nat \ {0} /\ GameLengths \subseteq Nat \ {0} /\ \A l \in GameLengths : Scale % l = 0
  /\ KillTimes \subseteq Nat /\ Moments \subseteq Nat /\ EVENT_WINDOW \in Nat \ {0}
  /\ MIN_LOCKED_BLOCKS \in Nat \ {0} /\ LOCKED_SHARE \in 0 .. 100 /\ LOCKED_LIFT \in Nat \ {0}
  /\ MaxGames \in Nat /\ MaxKills \in Nat /\ MaxLockBlocks \in Nat

VARIABLE timelines   \* a Timeline per replay: its length, the deaths with their killers, and
                     \* the blocks, no two of a class for one champion at once

lockedPart == <<timelines>>

LockedInit == timelines = <<>>

NewTimeline(length) ==
  /\ Len(timelines) < MaxGames
  /\ timelines' = Append(timelines, [length |-> length, deaths |-> {}, blocks |-> {}])

\* The kill timeline names victim and killer.
TimelineKill(t, victim, killer) ==
  /\ timelines # <<>> /\ timelines[Len(timelines)].blocks = {}
  /\ Cardinality(timelines[Len(timelines)].deaths) < MaxKills
  /\ timelines' = [timelines EXCEPT ![Len(timelines)].deaths = @ \cup {<<t, victim, killer>>}]

\* champion_blocks: a block of class n addressed to a champion.
TimelineBlock(n, champion, t) ==
  /\ timelines # <<>>
  /\ MapThenSumSet(LAMBDA g : Cardinality(timelines[g].blocks), DOMAIN timelines) < MaxLockBlocks
  /\ timelines' = [timelines EXCEPT ![Len(timelines)].blocks = @ \cup {<<n, champion, t>>}]

LockedNext ==
  \/ \E length \in GameLengths : NewTimeline(length)
  \/ \E t \in KillTimes, victim \in Fighters, killer \in Fighters \cup {NoFighter} :
       victim # killer /\ TimelineKill(t, victim, killer)
  \/ \E n \in LockClasses, champion \in Fighters, t \in Moments : TimelineBlock(n, champion, t)

LockedSpec == LockedInit /\ [][LockedNext]_lockedPart

-----------------------------------------------------------------------------
Mutant_Join_each_apart(done, t) ==
  [total |-> done.total + done.to - done.from, from |-> t - EVENT_WINDOW, to |-> t + EVENT_WINDOW]

\* The window around t, joined to the stretch that reaches it or begun anew.
Join(done, t) ==
  IF t - EVENT_WINDOW <= done.to THEN [done EXCEPT !.to = Max({@, t + EVENT_WINDOW})]
  ELSE [total |-> done.total + done.to - done.from, from |-> t - EVENT_WINDOW, to |-> t + EVENT_WINDOW]

\* From the earliest time on.
window_cover(times) ==
  LET along[s \in (SUBSET times) \ {{}}] ==
        LET t == Max(s) IN
        IF s = {t} THEN [total |-> 0, from |-> t - EVENT_WINDOW, to |-> t + EVENT_WINDOW]
        ELSE Join(along[s \ {t}], t)
  IN  IF times = {} THEN 0 ELSE along[times].total + along[times].to - along[times].from

Events == {"their own death", "a kill they got", "any kill in the game"}

\* When the event happened to a champion.
Times(event, g, champion) ==
  {d[1] : d \in {d \in timelines[g].deaths :
     CASE event = "their own death" -> d[2] = champion
       [] event = "a kill they got" -> d[3] = champion
       [] OTHER -> TRUE}}

BlocksOfClass(n) ==
  UNION {{<<g, b[2], b[3]>> : b \in {b \in timelines[g].blocks : b[1] = n}} : g \in DOMAIN timelines}

IsNear(event, b) ==
  \E t \in Times(event, b[1], b[2]) : b[3] - t \in -EVENT_WINDOW .. EVENT_WINDOW

NearBlocks(event, n) == Cardinality({b \in BlocksOfClass(n) : IsNear(event, b)})

Expected(event, n) ==
  SumFunction([b \in BlocksOfClass(n) |->
    window_cover(Times(event, b[1], b[2])) * (Scale \div timelines[b[1]].length)])

\* Enough blocks, most of them near the event, and many times more than chance.
event_locked ==
  {l \in LockClasses \X Events :
     LET blocks == Cardinality(BlocksOfClass(l[1])) near == NearBlocks(l[2], l[1]) IN
     /\ blocks >= MIN_LOCKED_BLOCKS /\ 100 * near >= LOCKED_SHARE * blocks
     /\ Expected(l[2], l[1]) > 0 /\ near * Scale >= LOCKED_LIFT * Expected(l[2], l[1])}

-----------------------------------------------------------------------------
\* The seconds that lie in a window.
CoveredSeconds(times) ==
  {k \in Min(times) - EVENT_WINDOW .. Max(times) + EVENT_WINDOW :
     \E t \in times : k - t \in -EVENT_WINDOW .. EVENT_WINDOW - 1}

\* The part of the game that counts as chance is the seconds a block would count as
\* near in, each once, however windows overlap.  A class that comes about champions
\* only when they die is found out, if there are enough blocks and few deaths; what
\* is locked to a champion's own deaths is near a kill each time; and a class
\* that comes about champions away from any kill is locked to nothing
\* (explore.rs:1265-1279, 1351-1372).
LocksAreTrue ==
  /\ \A event \in Events, g \in DOMAIN timelines, c \in Fighters :
       LET times == Times(event, g, c) IN
       window_cover(times) = IF times = {} THEN 0 ELSE Cardinality(CoveredSeconds(times))
  /\ \A n \in LockClasses :
       LET blocks == BlocksOfClass(n)
           rare == \A b \in blocks : LOCKED_LIFT * Cardinality(CoveredSeconds(Times("their own death", b[1], b[2])))
                                       <= timelines[b[1]].length
           own == <<n, "their own death">>
       IN  /\ Cardinality(blocks) >= MIN_LOCKED_BLOCKS /\ (\A b \in blocks : IsNear("their own death", b)) /\ rare
                => own \in event_locked
           /\ own \in event_locked =>
                NearBlocks("any kill in the game", n) >= NearBlocks("their own death", n)
           /\ (\A b \in blocks : ~ IsNear("any kill in the game", b)) =>
                \A event \in Events : <<n, event>> \notin event_locked
=============================================================================
