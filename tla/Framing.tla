------------------------------- MODULE Framing -------------------------------
(***************************************************************************)
(* framing and champion_run of src/src/explore.rs: what the frames of a    *)
(* replay's blocks say of the entities they address, and which of these    *)
(* are the champions.  Entity ids are counted from ENTITY_ID_BASE on;      *)
(* times are in half minutes.                                              *)
(***************************************************************************)
EXTENDS Integers, FiniteSetsExt, Functions

CONSTANTS
  NetIds, Ids,     \* packet classes; entity ids
  RosterSize,      \* the `count` of champion_run
  EDGE_WINDOW,
  BlockTimes,      \* when blocks are stamped
  MaxFramed        \* bound: blocks

ASSUME FramingAssumption ==
  /\ Ids \subseteq Nat /\ BlockTimes \subseteq Nat
  /\ RosterSize \in Nat \ {0} /\ EDGE_WINDOW \in Nat /\ MaxFramed \in Nat

VARIABLES
  clock,       \* timestamp of the latest block
  walked,      \* f.blocks
  minutes,     \* f.minutes
  entities,    \* f.entities: first, last and netids of those addressed so far
  heard        \* the blocks addressed to an entity: its id, class and time

framingPart == <<clock, walked, minutes, entities, heard>>

FramingInit == clock = 0 /\ walked = 0 /\ minutes = 0 /\ entities = <<>> /\ heard = {}

-----------------------------------------------------------------------------
(* framing                                                                 *)

Mutant_Framed_first_moves(n, e, t) ==
  [i \in DOMAIN entities \cup {e} |->
     IF i # e THEN entities[i]
     ELSE IF e \notin DOMAIN entities THEN [first |-> t, last |-> t, netids |-> {n}]
     ELSE [entities[e] EXCEPT !.first = t, !.last = t, !.netids = @ \cup {n}]]

\* The entity's record, made when it is first addressed.
Framed(n, e, t) ==
  [i \in DOMAIN entities \cup {e} |->
     IF i # e THEN entities[i]
     ELSE IF e \notin DOMAIN entities THEN [first |-> t, last |-> t, netids |-> {n}]
     ELSE [entities[e] EXCEPT !.last = t, !.netids = @ \cup {n}]]

\* A block of class n, for an entity or, when there is none, for the game.
FrameBlock(n, addressed, t) ==
  /\ walked < MaxFramed /\ t >= clock
  /\ walked' = walked + 1 /\ clock' = t
  /\ minutes' = Max({minutes, t \div 2 + 1})
  /\ \/ addressed = {} /\ UNCHANGED <<entities, heard>>
     \/ \E e \in addressed : entities' = Framed(n, e, t) /\ heard' = heard \cup {<<e, n, t>>}

FramingNext ==
  \E n \in NetIds, addressed \in {{}} \cup {{e} : e \in Ids}, t \in BlockTimes :
    FrameBlock(n, addressed, t)

FramingSpec == FramingInit /\ [][FramingNext]_framingPart

-----------------------------------------------------------------------------
(* champion_run                                                            *)

GameEnd == 2 * minutes

\* ids.windows(count): a known id and those that follow it in the map.
Window(start) ==
  {e \in DOMAIN entities :
     start <= e /\ Cardinality(DOMAIN entities \cap (start .. e)) <= RosterSize}

Spans(e) == entities[e].first <= EDGE_WINDOW /\ entities[e].last >= GameEnd - EDGE_WINDOW

Runs == {s \in DOMAIN entities :
           /\ Cardinality(Window(s)) = RosterSize /\ Max(Window(s)) - s = RosterSize - 1
           /\ \A e \in Window(s) : Spans(e)}

NetIdCounts == [e \in DOMAIN entities |-> Cardinality(entities[e].netids)]
Variety(s)  == SumFunctionOnSet(NetIdCounts, Window(s))

\* The first of the runs with the most netids.
champion_run ==
  IF Runs = {} THEN {}
  ELSE LET best == Min({s \in Runs : \A r \in Runs : Variety(r) <= Variety(s)})
       IN  best .. best + RosterSize - 1

-----------------------------------------------------------------------------
ClassesOf(e) == {h[2] : h \in {b \in heard : b[1] = e}}

ThereThroughout(e) ==
  \E b, c \in heard : /\ b[1] = e /\ b[3] <= EDGE_WINDOW
                      /\ c[1] = e /\ c[3] >= GameEnd - EDGE_WINDOW

\* Champions who are there at either end of the game, and of whom the server has
\* more kinds of thing to say than of any other unit, are found, whatever units
\* stand next to them in the order of ids and whatever other runs there are
\* (explore.rs:182-222).
ChampionsFound ==
  \A s \in Ids :
    LET champions == s .. s + RosterSize - 1
        others    == {h[1] : h \in heard} \ champions
    IN  (\A c \in champions : /\ ThereThroughout(c)
                              /\ \A e \in others : Cardinality(ClassesOf(c)) > Cardinality(ClassesOf(e)))
        => champion_run = champions
=============================================================================
