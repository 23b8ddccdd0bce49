------------------------------ MODULE StatsMatch ------------------------------
(***************************************************************************)
(* match_stats of src/src/explore.rs, fed by the loop of explore in        *)
(* src/src/cli.rs: the end-of-game counter that a packet class counts,     *)
(* block by block, for every player of every replay.                       *)
(*                                                                         *)
(* One class is looked at.  The server sends a block of it for every event *)
(* of one counter and some more for every player; a replay may be broken   *)
(* off, so that its blocks tell less than its counters.                    *)
(***************************************************************************)
EXTENDS Integers, FiniteSetsExt

CONSTANTS
  Roster,          \* the players of a replay
  Amounts,         \* what a counter may hold
  Rows,            \* blocks of the class a player may have in a broken replay
  MIN_SPREAD, MAX_OFFSET, MIN_TESTS,
  MaxReplays       \* bound

ASSUME StatsAssumption ==
  /\ Amounts \subseteq Nat /\ Rows \subseteq Nat
  /\ MIN_SPREAD \in Nat \ {0, 1} /\ MAX_OFFSET \in Nat /\ MIN_TESTS \in Nat \ {0, 1, 2} /\ MaxReplays \in Nat

Terms == {"KILLED", "DEATHS"}
SUM == "KILLED+DEATHS"
Fields == Terms \cup {SUM}
Offsets == -MAX_OFFSET .. MAX_OFFSET

VARIABLES
  counted,     \* what the class counts, and how many blocks it has beside
  replays,     \* replays read
  broken_off,  \* replays that tested `counted` and did not bear it out
  tested,      \* per field, replays that could test it
  hits         \* per field and offset, replays where it held

statsPart == <<counted, replays, broken_off, tested, hits>>

StatsStart ==
  /\ replays = 0 /\ broken_off = 0
  /\ tested = [f \in Fields |-> 0]
  /\ hits = [f \in Fields |-> [o \in Offsets |-> 0]]

StatsInit == counted \in [field : Fields, extra : Offsets \cap Nat] /\ StatsStart

\* add_derived: the sum is there if every term is.
Derived(stats) ==
  IF DOMAIN stats # Terms THEN stats
  ELSE [f \in Fields |-> IF f = SUM THEN [p \in Roster |-> stats["KILLED"][p] + stats["DEATHS"][p]]
                         ELSE stats[f]]

Spread(truth) == Cardinality({truth[p] : p \in Roster})

\* uniform_offset: the same difference for every player, and a small one.
Uniform(row, truth) == {o \in Offsets : \A p \in Roster : row[p] - truth[p] = o}

\* champion_counts leaves out a class that has no block for a champion.
Row(row) == \E p \in Roster : row[p] > 0

CanTest(row, stats) == {f \in DOMAIN stats : Row(row) /\ Spread(stats[f]) >= MIN_SPREAD}

ReadReplay(row, stats) ==
  /\ replays < MaxReplays /\ replays' = replays + 1
  /\ tested' = [f \in Fields |-> tested[f] + IF f \in CanTest(row, stats) THEN 1 ELSE 0]
  /\ hits' = [f \in Fields |-> [o \in Offsets |->
       hits[f][o] + IF f \in CanTest(row, stats) /\ o \in Uniform(row, stats[f]) THEN 1 ELSE 0]]
  /\ broken_off' = broken_off +
       IF /\ counted.field \in CanTest(row, stats)
          /\ counted.extra \notin Uniform(row, stats[counted.field]) THEN 1 ELSE 0
  /\ UNCHANGED counted

\* A counter that some player lacks is left out (player_counters).
Statistics == UNION {[present -> [Roster -> Amounts]] : present \in SUBSET Terms}

WholeReplay ==
  \E stats \in Statistics : counted.field \in DOMAIN Derived(stats) /\
    ReadReplay([p \in Roster |-> Derived(stats)[counted.field][p] + counted.extra], Derived(stats))

BrokenReplay == \E stats \in Statistics, row \in [Roster -> Rows] : ReadReplay(row, Derived(stats))

StatsNext == WholeReplay \/ BrokenReplay

StatsSpec == StatsInit /\ [][StatsNext]_statsPart

Mutant_Holds_half(f, o) == 2 * hits[f][o] >= tested[f] /\ tested[f] >= MIN_TESTS

\* In every replay that could test it, bar one.
Holds(f, o) == hits[f][o] > 0 /\ hits[f][o] + 1 >= tested[f] /\ tested[f] >= MIN_TESTS

match_stats == {m \in Fields \X Offsets : Holds(m[1], m[2])}

-----------------------------------------------------------------------------
\* A counter is matched at one offset at most, though one replay's dissent is
\* forgiven; and the counter the class does count is among those found, unless
\* two replays were broken off (explore.rs:1462-1523).
OneOffsetEach ==
  /\ \A m, k \in match_stats : m[1] = k[1] => m = k
  /\ tested[counted.field] >= MIN_TESTS /\ broken_off <= 1
       => <<counted.field, counted.extra>> \in match_stats
=============================================================================
